---------------------------- MODULE PromptPacket ----------------------------
(***************************************************************************)
(* The packet that a session resumes with (prompt.py), the interaction     *)
(* groups that it is cut into (transcript.py) and the window of context    *)
(* around a source (context.py).                                           *)
(*                                                                         *)
(* Sizes are bytes, a token is three of them rounded up; the estimate by   *)
(* words is left out.  A body is a sequence of texts.  The packet is of a  *)
(* live branch and not of a snapshot, and the retrieved memories are the   *)
(* eligible ones, newest first.                                            *)
(***************************************************************************)
EXTENDS Integers, Sequences, FiniteSets, FiniteSetsExt, SequencesExt

CONSTANTS
  None,             \* no call id, no file
  Drafts,           \* events that may be recorded
  TextBytes,        \* text -> its size
  BlockSizes,       \* sizes of the protected blocks together; 0 is none
  MaxEvents,        \* bound: events of the log
  Budgets,          \* token budgets of packets
  RecentCount,      \* groups that a packet may show (recent_event_count)
  MaxReserve,       \* ceiling of the share kept for retrieval (400 tokens)
  FoldMin,          \* smallest body that is folded (_FOLD_MIN_CHARS)
  Quiesce, MaxHold, \* groups after which a file is quiet, and is let go
  HeadBytes, DigestHead, SectionHead, FrameBytes, PointerBytes,
  EntryBytes, IndexHead, HelpBytes, LineBytes   \* sizes of what is put around

ASSUME Sizes ==
  /\ BlockSizes \subseteq Nat /\ MaxReserve \in Nat
  /\ {HeadBytes, DigestHead, SectionHead, EntryBytes, IndexHead, HelpBytes, LineBytes}
       \subseteq Nat

Texts == DOMAIN TextBytes

ASSUME SizesOfParts ==
  /\ {FrameBytes, PointerBytes} \subseteq Nat /\ Budgets \subseteq Nat
  /\ \A text \in Texts : TextBytes[text] \in Nat
ASSUME TextsAreNoPointers == \A text \in Texts : text \notin Nat
ASSUME BodiesHaveText == \A draft \in Drafts : draft.body \in Seq(Texts) \ {<<>>}

VARIABLE log   \* events of the branch: kind, call id, hidden, file, body

Is(n, kind) == log[n].kind = kind
\* an artifact is treated as a message is
TranscriptKinds == {"message", "tool_call", "tool_output"}

\* What an assistant said and the derivation of an ineligible memory.
Hidden == {n \in DOMAIN log : log[n].hidden}

----------------------------------------------------------------------------
\* interaction_groups: an output is paired with the latest free call of its id,
\* or else with the latest free call at all.
PairWith_Taken(n, taken) ==
  LET calls == {k \in 1..(n - 1) : Is(k, "tool_call")}
      own == {k \in calls : log[n].call # None /\ log[k].call = log[n].call}
  IN Max({0} \cup (IF own = {} THEN calls \ taken ELSE own))
PairWith(n, taken) ==
  LET free == {k \in 1..(n - 1) : Is(k, "tool_call")} \ taken
      own == {k \in free : log[n].call # None /\ log[k].call = log[n].call}
  IN Max({0} \cup (IF own = {} THEN free ELSE own))

Pairing ==
  LET upTo[n \in 0..Len(log)] ==
        IF n = 0 THEN <<>>
        ELSE Append(upTo[n - 1],
                    IF Is(n, "tool_output") THEN PairWith(n, ToSet(upTo[n - 1])) ELSE 0)
  IN upTo[Len(log)]

\* Outputs without a call are left out.
Groups ==
  LET paired == Pairing
      group(k) == {k} \cup {n \in DOMAIN log : paired[n] = k}
  IN {group(k) : k \in {n \in DOMAIN log : Is(n, "message") \/ Is(n, "tool_call")}}
Latest(groups, count) ==
  UNION {g \in groups : Cardinality({h \in groups : Min(h) > Min(g)}) < count}

\* build_context_window: whole groups around the groups of the sources, or
\* nothing when no source is in one.
Singles == {{n} : n \in {k \in DOMAIN log : log[k].kind \notin TranscriptKinds}}
Window(sources, before, after) ==
  LET all == Groups \cup Singles
      place == [g \in all |-> Cardinality({h \in all : Min(h) < Min(g)})]
  IN UNION {g \in all : \E h \in all :
              h \cap sources # {} /\ place[g] \in (place[h] - before)..(place[h] + after)}

----------------------------------------------------------------------------
\* A tool output is shown as it was while its file is active, and by its compact
\* view, its first text, once the file has been quiet.
FilesOf(events) == {log[n].file : n \in events} \ {None}
ActiveFiles == FilesOf(Latest(Groups, Quiesce)) \cap FilesOf(Latest(Groups, MaxHold))
Body(n) ==
  IF Is(n, "tool_output") /\ log[n].file \notin ActiveFiles
  THEN <<Head(log[n].body)>> ELSE log[n].body

Bytes(body) ==
  LET sum[i \in 0..Len(body)] ==
        IF i = 0 THEN 0
        ELSE sum[i - 1] + (IF body[i] \in Nat THEN PointerBytes ELSE TextBytes[body[i]])
  IN sum[Len(body)]

\* A pointer to an event is its position.  The last n texts are dealt with one after
\* the other, from the first of them on.
Replace(body, part, pointer) ==
  LET first(n) == Len(body) - n + 1
      starts(n) == Len(part) <= n /\ SubSeq(body, first(n), first(n) + Len(part) - 1) = part
      last[n \in 0..Len(body)] ==
        IF n = 0 THEN <<>>
        ELSE IF starts(n) THEN <<pointer>> \o last[n - Len(part)]
        ELSE <<body[first(n)]>> \o last[n - 1]
  IN last[Len(body)]

\* _render_transcript: bodies of earlier events, oldest first, become pointers.
Folded(n, shown) ==
  LET by[k \in 0..(n - 1)] ==
        IF k = 0 THEN Body(n)
        ELSE IF k \in shown /\ Bytes(Body(k)) >= FoldMin
             THEN Replace(by[k - 1], Body(k), k) ELSE by[k - 1]
  IN by[n - 1]

SectionBytes(shown) ==
  LET sum[n \in 0..Len(log)] ==
        IF n = 0 THEN SectionHead
        ELSE IF n \in shown THEN sum[n - 1] + 2 + FrameBytes + Bytes(Folded(n, shown))
        ELSE sum[n - 1]
  IN sum[Len(log)]

----------------------------------------------------------------------------
\* What assemble cuts to the budget: the bytes of the protected blocks, and those
\* of each section when it holds its first 1, 2, ... parts, with the number of events
\* that a transcript of 0, 1, ... groups leaves to the index.
Tokens(bytes) == (bytes + 2) \div 3

Visible == {g \in Groups : g \cap Hidden = {}}
Offered == Cardinality({g \in Visible : g \subseteq Latest(Visible, RecentCount)})
Eligible == {n \in DOMAIN log : Is(n, "memory")} \ Hidden
Shape(blocks) ==
  [blocks |-> blocks,
   section |-> [j \in 1..Offered |-> SectionBytes(Latest(Visible, j))],
   hides |-> [j \in 0..Offered |-> Cardinality(DOMAIN log \ (Hidden \cup Latest(Visible, j)))],
   entries |-> [j \in 1..Cardinality(Eligible) |-> SectionHead + j * (2 + EntryBytes)]]
Shapes == {Shape(blocks) : blocks \in BlockSizes}

ActiveBytes(s) == HeadBytes + s.blocks
DigestBytes(s) == IF s.blocks = 0 THEN 0 ELSE 2 + DigestHead + s.blocks

DigestCost_Free(s, budget) == 0
DigestCost(s, budget) ==
  LET cost == Tokens(DigestBytes(s))
  IN IF Tokens(ActiveBytes(s)) + cost > budget THEN 0 ELSE cost
Restated(s, budget) ==
  DigestBytes(s) > 0 /\ Tokens(ActiveBytes(s)) + Tokens(DigestBytes(s)) <= budget
Left(s, budget) == budget - DigestCost(s, budget)

Reserve(s, budget, query) ==
  LET third == (Left(s, budget) - Tokens(ActiveBytes(s))) \div 3
  IN IF ~query THEN 0 ELSE IF third < MaxReserve THEN third ELSE MaxReserve

\* How many of the parts 1..n there are before the first that does not fit.
Longest(n, fits) == Cardinality({k \in 1..n : 1..k \subseteq fits})
Fitting(sizes, bytes, budget) ==
  Longest(Len(sizes), {j \in DOMAIN sizes : Tokens(bytes + 2 + sizes[j]) <= budget})
With(bytes, sizes, k) == IF k = 0 THEN bytes ELSE bytes + 2 + sizes[k]

ChosenGroups(s, budget, query) ==
  Fitting(s.section, ActiveBytes(s), Left(s, budget) - Reserve(s, budget, query))
AfterTranscript(s, budget, query) ==
  With(ActiveBytes(s), s.section, ChosenGroups(s, budget, query))

ChosenEntries(s, budget, query) ==
  IF query THEN Fitting(s.entries, AfterTranscript(s, budget, query), Left(s, budget)) ELSE 0
AfterEntries(s, budget, query) ==
  With(AfterTranscript(s, budget, query), s.entries, ChosenEntries(s, budget, query))

\* The index: the line of help when it fits, and lines for the events not shown.
AfterIndex(s, budget, query, lines) ==
  LET before == AfterEntries(s, budget, query)
      helps == Tokens(before + 2 + IndexHead + HelpBytes) <= Left(s, budget)
      head == IndexHead + IF helps THEN HelpBytes ELSE 0
      sizes == [j \in 1..lines |-> head + j * LineBytes]
      k == Fitting(sizes, before, Left(s, budget))
  IN IF k = 0 /\ helps THEN before + 2 + head ELSE With(before, sizes, k)

Refused(s, budget) == Tokens(ActiveBytes(s)) > budget
PacketBytes(s, budget, query, lines) ==
  LET bytes == AfterIndex(s, budget, query, lines)
      data == ChosenGroups(s, budget, query) + ChosenEntries(s, budget, query) > 0
  IN IF data /\ Restated(s, budget) THEN bytes + DigestBytes(s) ELSE bytes

----------------------------------------------------------------------------
Init == log = <<>>

Record(draft) == Len(log) < MaxEvents /\ log' = Append(log, draft)

Next == \E draft \in Drafts : Record(draft)

Spec == Init /\ [][Next]_log

----------------------------------------------------------------------------
\* A packet that is not refused is within its budget however its sections round:
\* the last assertion of assemble never fails.  (assemble, _fits.)
PacketFits ==
  \A s \in Shapes, budget \in Budgets, query \in BOOLEAN :
    ~Refused(s, budget) =>
      Tokens(PacketBytes(s, budget, query, s.hides[ChosenGroups(s, budget, query)])) <= budget

\* With a query, and a memory that is no larger than the share kept for retrieval,
\* the transcript never crowds out every memory.  (retrieval_reserve.)
RoomForMemories ==
  Eligible # {} =>
    \A s \in Shapes, budget \in Budgets :
      ~Refused(s, budget) /\ Tokens(2 + s.entries[1]) <= Reserve(s, budget, TRUE)
        => ChosenEntries(s, budget, TRUE) > 0

\* Both: what assemble promises of the sizes of its parts.
PacketSound == PacketFits /\ RoomForMemories

\* No cut of the transcript, by a budget or around a source, shows more outputs
\* than calls up to any of its events.  (interaction_groups.)
Balanced(shown) ==
  \A n \in shown :
    Cardinality({k \in shown : k <= n /\ Is(k, "tool_output")})
      <= Cardinality({k \in shown : k <= n /\ Is(k, "tool_call")})
OutputsFollowCalls ==
  /\ \A j \in 1..Offered : Balanced(Latest(Visible, j))
  /\ \A n \in DOMAIN log, before \in 0..1, after \in 0..1 : Balanced(Window({n}, before, after))

\* Where every output answers an earlier call of its own id, each cut shows both
\* or neither, however the calls of an agent overlap.  (interaction_groups.)
Answers(n, k) == n > k /\ Is(n, "tool_output") /\ Is(k, "tool_call") /\ log[n].call = log[k].call
Matched ==
  /\ \A m, n \in DOMAIN log : m # n /\ log[m].kind = log[n].kind /\ log[n].call # None
                                => log[m].call # log[n].call
  /\ \A n \in DOMAIN log : Is(n, "tool_output") =>
       log[n].call # None /\ \E k \in DOMAIN log : Answers(n, k)
AnswersStayTogether ==
  Matched =>
    \A n, k \in DOMAIN log : Answers(n, k) =>
      /\ \A j \in 1..Offered : n \in Latest(Visible, j) <=> k \in Latest(Visible, j)
      /\ \A m \in DOMAIN log : n \in Window({m}, 0, 1) <=> k \in Window({m}, 0, 1)

\* Every pointer of a transcript leads to an earlier event that the transcript
\* shows whole, and puts back just what was folded.  (_render_transcript.)
Unfolded(body) ==
  LET last[n \in 0..Len(body)] ==
        IF n = 0 THEN <<>>
        ELSE LET part == body[Len(body) - n + 1]
             IN (IF part \in Nat THEN Body(part) ELSE <<part>>) \o last[n - 1]
  IN last[Len(body)]
FoldsResolve ==
  \A j \in 1..Offered :
    LET shown == Latest(Visible, j)
    IN \A n \in shown :
         /\ \A k \in ToSet(Folded(n, shown)) \cap Nat :
              k \in shown /\ k < n /\ Folded(k, shown) = Body(k)
         /\ Unfolded(Folded(n, shown)) = Body(n)

\* Together: no cut of the transcript misrepresents the conversation.
TranscriptSound == OutputsFollowCalls /\ AnswersStayTogether /\ FoldsResolve
=============================================================================
