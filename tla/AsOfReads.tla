----------------------------- MODULE AsOfReads -----------------------------
(***************************************************************************)
(* Reads of memories as they were known at an earlier time: versions, their *)
(* lineage over branches, and the temporal controls of a search            *)
(* (retrieval.py, storage.py), over the logic of Temporal.                 *)
(*                                                                         *)
(* The log is append-only: an entry is a message or a version of a memory,  *)
(* and its position is its seq and the cursor of the version.  The topic of *)
(* a version stands for the words a query looks for and for the file a      *)
(* search is limited to.  Simplifications: the rank of a version and the    *)
(* score of a hit are left open, so any of the candidates and of the hits   *)
(* may be the ones that a limit cuts off; plugins, events as hits and the   *)
(* annotations of a hit are left out; a version cites one message; versions *)
(* of host finalizations, which are eligible whoever spoke, are left out.   *)
(***************************************************************************)
EXTENDS Temporal, Sequences, FiniteSets, FiniteSetsExt

CONSTANTS
  Main, Forks,     \* branches
  Topics,          \* what versions are about
  Validities,      \* intervals that versions are given
  Speakers,        \* roles of messages
  Asked,           \* instants that searches ask for
  Candidates,      \* versions that the full text hands to a search at most
  Limit,           \* hits that a search returns at most
  MaxEvents,       \* bound: entries of the log
  MaxClock         \* bound: wall clock

ASSUME BranchNames == Main \notin Forks
ASSUME AskedAreInstants == Asked \subseteq Int
ASSUME BoundsAreNumbers == MaxEvents \in Nat /\ MaxClock \in Nat
ASSUME LimitsAreNumbers == Limit \in Nat /\ Candidates \in Nat

VARIABLES
  log,        \* canonical events, with the version that an event derives
  inherited,  \* branch -> entries of its ancestors up to its fork cutoff
  forked,     \* the branches that exist
  clock       \* wall clock, which may be set back

vars == <<log, inherited, forked, clock>>

Branches == Forks \cup {Main}
Numbers == 1..MaxEvents
Times == 0..MaxClock
Message(b, who) == [branch |-> b, at |-> clock, speaker |-> who]
Version(b, topic, valid, source, old) ==
  [branch |-> b, at |-> clock, topic |-> topic, valid |-> valid, source |-> source,
   supersedes |-> old]
IsVersion(n) == "topic" \in DOMAIN log[n]

Init ==
  /\ log = <<>>
  /\ inherited = [b \in Branches |-> {}]
  /\ forked = {Main}
  /\ clock = 0

----------------------------------------------------------------------------
Visible(b) == inherited[b] \cup {n \in DOMAIN log : log[n].branch = b}
Versions(b) == {n \in Visible(b) : IsVersion(n)}
Superseded(S) == {log[m].supersedes : m \in S}

\* automatic_memory_eligible: what an assistant said enters no search.
Eligible(m) == log[log[m].source].speaker # "assistant"

\* list_memories: the file is looked at after the superseded versions are gone.
ListMemories(b, topics) ==
  {m \in Versions(b) \ Superseded(Versions(b)) : log[m].topic \in topics}

\* known_at_cutoff_seq and memories_as_of.
CutoffSeq(b, t) == Max({0} \cup {n \in Visible(b) : log[n].at <= t})

MemoriesAsOf_Full(b, cutoff) == Versions(b)
MemoriesAsOf(b, cutoff) == {m \in Versions(b) : m <= cutoff}

\* _ancestor_as_of: down the lineage to a version of S.
AncestorAsOf_Self(m, b, S) == IF m \in S THEN m ELSE 0
AncestorAsOf(m, b, S) ==
  LET down[k \in 0..Len(log)] ==
        IF k \in S \cup {0} THEN k
        ELSE IF k \in Versions(b) THEN down[log[k].supersedes] ELSE 0
  IN down[m]

\* The versions of S below one of them, in S without a gap.
Lineage(m, S) ==
  LET below[k \in 0..Len(log)] ==
        IF k \in S THEN {k} \cup below[log[k].supersedes] ELSE {}
  IN below[m]

\* Of several successors the last one counts.
SuccessorOf(m, b, S) == Max({0} \cup {s \in S : log[s].supersedes = m})

----------------------------------------------------------------------------
\* A search: what it looks for (by), and the controls of a RetrievalContext.
\* The full text looks at every version, the list only at the latest ones.
Matching(q, b) ==
  IF q.by = "words" THEN {n \in Versions(b) : log[n].topic = q.topic}
  ELSE ListMemories(b, IF q.by = "file" THEN {q.topic} ELSE Topics)

\* What a limit may leave of a set.
Cuts(n, A) == IF Cardinality(A) <= n THEN {A} ELSE kSubset(n, A)

\* The full text hands over its best matches only, whichever versions these are.
Found(q, b) ==
  UNION {IF q.by = "words" THEN Cuts(Candidates, M) ELSE {M} : M \in {Matching(q, b)}}

Effective(m, b, S) ==
  LET s == SuccessorOf(m, b, S)
      valid == log[m].valid
  IN IF s = 0 THEN valid
     ELSE Interval(valid.start, EffectiveEnd(valid, log[s].valid.start))

Passes(q, match, m, b, S) ==
  /\ ~q.history => SuccessorOf(m, b, S) = 0
  /\ IF q.validAt # None
     THEN match = "true" \/ (match = "unknown" /\ q.unknown)
     ELSE q.current =>
            LET status == ValidityStatus(Effective(m, b, S), Instant(clock))
            IN /\ status \notin {"expired", "not_yet_valid"}
               /\ status = "unknown" => q.unknown

\* _apply_temporal_controls of what was found (C), among the versions S that are
\* admitted: the hits, each with the certainty of its validity.
Answers(q, b, S, C) ==
  LET hits == {AncestorAsOf(m, b, S) : m \in {n \in C : Eligible(n)}} \ {0}
      shown == IF q.history THEN UNION {Lineage(m, S) : m \in hits} ELSE hits
      match(m) == IF q.validAt = None THEN "true"
                  ELSE Contains(Effective(m, b, S), Instant(q.validAt))
  IN {h \in {[version |-> m, match |-> match(m)] : m \in shown} :
        Passes(q, h.match, h.version, b, S)}

\* As of a time, or (None) of now.
Admitted(b, t) == MemoriesAsOf(b, IF t = None THEN Len(log) ELSE CutoffSeq(b, t))

\* search: what it may return.
Outcomes(q, b, t) == {Answers(q, b, S, C) : S \in {Admitted(b, t)}, C \in Found(q, b)}
Search(q, b, t) == UNION {Cuts(Limit, A) : A \in Outcomes(q, b, t)}

----------------------------------------------------------------------------
AppendMessage(b, who) ==
  /\ b \in forked /\ Len(log) < MaxEvents
  /\ log' = Append(log, Message(b, who))
  /\ UNCHANGED <<inherited, forked, clock>>

Supersedable(b) == {0} \cup Versions(b)

\* derive_memory: sources and the version it supersedes must be visible; a
\* version may be superseded more than once.
DeriveMemory(b, topic, valid, source, old) ==
  /\ b \in forked /\ Len(log) < MaxEvents
  /\ source \in Visible(b) \ Versions(b)
  /\ old \in Supersedable(b)
  /\ log' = Append(log, Version(b, topic, valid, source, old))
  /\ UNCHANGED <<inherited, forked, clock>>

Inheritance(b, parent, cut) == {n \in Visible(parent) : n <= cut}

CreateBranch(b, parent, cut) ==
  /\ b \in Forks \ forked /\ parent \in forked
  /\ cut <= Max({0} \cup Visible(parent))
  /\ forked' = forked \cup {b}
  /\ inherited' = [inherited EXCEPT ![b] = Inheritance(b, parent, cut)]
  /\ UNCHANGED <<log, clock>>

SetClock(t) ==
  /\ t # clock
  /\ clock' = t
  /\ UNCHANGED <<log, inherited, forked>>

Next ==
  \/ \E b \in Branches, who \in Speakers : AppendMessage(b, who)
  \/ \E b \in Branches, topic \in Topics, valid \in Validities, source \in Numbers,
        old \in 0..MaxEvents : DeriveMemory(b, topic, valid, source, old)
  \/ \E b \in Branches, parent \in Branches, cut \in 0..MaxEvents : CreateBranch(b, parent, cut)
  \/ \E t \in Times : SetClock(t)

Spec == Init /\ [][Next]_vars

----------------------------------------------------------------------------
Query(by, topic, history, validAt) ==
  [by |-> by, topic |-> topic, history |-> history, validAt |-> validAt,
   current |-> FALSE, unknown |-> TRUE]

\* No limit leaves anything out of what a search returns.
Complete(q, b, t) ==
  /\ Cardinality(Matching(q, b)) <= Candidates
  /\ Cardinality(Answers(q, b, Admitted(b, t), Matching(q, b))) <= Limit

\* A search by words as of a past time, for its live versions or for the history
\* valid at an instant, repeats whatever is derived, superseded or forked later and
\* however the clock is set.  What it returns twice it returns with the same
\* certainty; while no limit cuts it off it loses no answer, and returns just the
\* same ones unless a version that matches was derived since: retroactive
\* corrections do not reach back.  Later matches may take the places of earlier
\* ones under the limits.  (search, _apply_temporal_controls, memories_as_of.)
ReadsRepeat ==
  [][\A b \in forked, t \in Times, topic \in Topics, validAt \in Asked \cup {None} :
       LET q == Query("words", topic, validAt # None, validAt)
       IN t < clock /\ t < clock' =>
            \A old \in Search(q, b, t), new \in Search(q, b, t)' :
              /\ \A h \in old, k \in new : h.version = k.version => h = k
              /\ \/ old \subseteq new /\ (old # new => Matching(q, b)' # Matching(q, b))
                 \/ ~Complete(q, b, t)']_vars

\* A search for everything as of a time returns only versions that had no successor
\* then, and, unless they are more than the limit, all of them, if no version is
\* what an assistant said.  (list_memories, _ancestor_as_of.)
LiveThen(b, t) ==
  Admitted(b, t) \ Superseded(Admitted(b, t))
ReplayExact ==
  \A b \in forked, t \in Times :
    (\A m \in Versions(b) : Eligible(m)) =>
      \A found \in Search(Query("all", None, FALSE, None), b, t) :
        LET shown == {h.version : h \in found}
        IN /\ shown \subseteq LiveThen(b, t)
           /\ Cardinality(LiveThen(b, t)) <= Limit => shown = LiveThen(b, t)

\* Where a successor is valid for certain, the open version before it is not
\* even possible, as of whatever time and in whatever branch.  (effective_end,
\* validity_status, _apply_temporal_controls.)
OneTruthAtATime ==
  \A b \in forked, t \in {k \in Times : k < clock} \cup {None}, validAt \in Asked :
    LET S == Admitted(b, t)
    IN \A valid \in Search(Query("all", None, TRUE, validAt), b, t) : \A h \in valid :
         ~Known(log[h.version].valid.end) =>
           ~ \E k \in valid : k.match = "true" /\ k.version = SuccessorOf(h.version, b, S)

\* What task4.md says of known_at: it replays what was known, also for a search
\* that is limited to a file, and that no limit cuts off.
KnownAtReplays ==
  \A b \in forked, t \in Times, topic \in Topics :
    LET live == {m \in LiveThen(b, t) : Eligible(m) /\ log[m].topic = topic}
    IN Cardinality(live) <= Limit =>
         \A found \in Search(Query("file", topic, FALSE, None), b, t) :
           live \subseteq {h.version : h \in found}
=============================================================================
