---------------------------- MODULE TrustLedgers ----------------------------
(***************************************************************************)
(* The three ledgers whose entries a caller may only request and a trusted *)
(* event must settle: extraction candidates (storage.py,                   *)
(* candidate_confirmation.py), security findings and the policy.  Who is   *)
(* trusted follows from the origin of the canonical event a transition     *)
(* cites, never from what the caller claims.                               *)
(*                                                                         *)
(* Every operation is one transaction and one action; a refused one rolls  *)
(* back and is no step.  Simplifications: memory type and normalised text  *)
(* are one content; a response of the extractor is committed candidate by  *)
(* candidate, quarantined or not (conflicts included); the protected       *)
(* blocks that a marker may also write belong to Settlement; memories      *)
(* derived by hand, and fork points before the tip, belong to BranchStore. *)
(***************************************************************************)
EXTENDS Naturals, Sequences, FiniteSets, SequencesExt

CONSTANTS
  Main,          \* the branch every store starts with
  Forks,         \* branches created later
  Contents,      \* normalised contents of one memory type
  Incidents,     \* incident keys of security findings
  Callers,       \* origins of the events that other operations write
  Rebootstrap,   \* the incident of a project initialised twice
  None,          \* no mark, no finding, no policy
  MaxEvents,     \* bound: events in the log
  MaxCandidates  \* bound: extraction candidates

VARIABLES
  log,         \* canonical events: branch, origin evidence, marker content
  inherited,   \* branch -> the events of its ancestors that it sees
  forked,      \* the branches that exist
  candidates,  \* extraction candidates with their latest transition, oldest first
  memories,    \* memories that markers and extraction derived
  links,       \* candidate_memory_links
  findings,    \* incident -> latest transition of its finding, or None
  policy       \* agent_settlement_delegation_enabled of the active policy, or None

vars == <<log, inherited, forked, candidates, memories, links, findings, policy>>

Branches == Forks \cup {Main}
CandidateStatuses == {"auto", "quarantined", "confirmation_requested", "rejection_requested",
                      "supersession_requested", "confirmed", "rejected", "superseded"}

Row(b, o, k, c) == [branch |-> b, origin |-> o, kind |-> k, mark |-> c]
State(b) == Row(b, "untrusted", "state", None)
Visible(b) == inherited[b] \cup {n \in DOMAIN log : log[n].branch = b}
Entry(to, n) == [status |-> to, source |-> n]
Status(i) == candidates[i].last.status
BranchOf(i) == log[candidates[i].event].branch

----------------------------------------------------------------------------
Init ==
  /\ log = <<>>
  /\ inherited = [b \in Branches |-> {}]
  /\ forked = {Main}
  /\ candidates = <<>> /\ memories = <<>> /\ links = {}
  /\ findings = [k \in Incidents |-> None]
  /\ policy = None

----------------------------------------------------------------------------
CandidateFlow ==
  [auto |-> {"confirmation_requested", "rejection_requested", "supersession_requested"},
   quarantined |-> {"confirmation_requested", "rejection_requested"},
   confirmation_requested |-> {"confirmed", "rejected"},
   rejection_requested |-> {"rejected"},
   supersession_requested |-> {"superseded"},
   confirmed |-> {"supersession_requested"},
   rejected |-> {}, superseded |-> {}]
FindingFlow ==
  [active |-> {"acknowledgement_requested"},
   acknowledgement_requested |-> {"acknowledged"}, acknowledged |-> {}]
CandidateGates == [targets |-> {"confirmed", "rejected", "superseded"},
                   origins |-> {"user", "operator", "agent"}]
FindingGates == [targets |-> {"acknowledged"}, origins |-> {"user", "operator"}]

Delegated == policy = TRUE

Settles_AnyOrigin(flow, gates, from, to, origin) ==
  /\ origin = "agent" => Delegated
  /\ to \in flow[from]

\* validate_transition: a change the flow allows, and of trusted origin if it
\* settles the entry.
Settles(flow, gates, from, to, origin) ==
  /\ origin = "agent" => Delegated
  /\ to \in flow[from]
  /\ to \in gates.targets => origin \in gates.origins

----------------------------------------------------------------------------
\* Branches, and events of other operations: a user's prompt without markers,
\* what tools and callers of the API write, requests of operators and agents.
Fork(b, p) ==
  /\ b \in Forks \ forked /\ p \in forked
  /\ forked' = forked \cup {b}
  /\ inherited' = [inherited EXCEPT ![b] = Visible(p)]
  /\ UNCHANGED <<log, candidates, memories, links, findings, policy>>

AppendOther(b, o) ==
  /\ b \in forked /\ Len(log) < MaxEvents
  /\ o = "agent" => Delegated
  /\ log' = Append(log, Row(b, o, IF o \in {"operator", "agent"} THEN "state" ELSE "message", None))
  /\ UNCHANGED <<inherited, forked, candidates, memories, links, findings, policy>>

----------------------------------------------------------------------------
\* _existing_auto_memory_locked looks in every branch, whatever the authority.
ExistingMemory(c, b) == {m \in DOMAIN memories : memories[m].content = c}

Oldest(S) == CHOOSE n \in S : \A k \in S : n <= k

Link(i, m, relation, n) ==
  [candidate |-> i, memory |-> m, relation |-> relation, source |-> n]

\* commit_extraction_success for one candidate of a message, which may repeat
\* what another one says of another quote; if it is accepted it is linked to the
\* oldest memory that says the same, or to a new one with the event that derives
\* it.
Extract(n, c, status) ==
  LET b == log[n].branch
      i == Len(candidates) + 1
      same == ExistingMemory(c, b)
  IN /\ log[n].kind = "message"
     /\ i <= MaxCandidates
     /\ candidates' = Append(candidates, [event |-> n, content |-> c,
                                          last |-> Entry(status, n)])
     /\ \/ /\ status = "quarantined"
           /\ UNCHANGED <<log, memories, links>>
        \/ /\ status = "auto" /\ same # {}
           /\ links' = links \cup {Link(i, Oldest(same), "supports", n)}
           /\ UNCHANGED <<log, memories>>
        \/ /\ status = "auto" /\ same = {} /\ Len(log) < MaxEvents
           /\ log' = Append(log, State(b))
           /\ memories' = Append(memories, [branch |-> b, content |-> c, sources |-> {n},
                                            authority |-> "auto", extracted |-> TRUE])
           /\ links' = links \cup {Link(i, Len(memories) + 1, "derived", n)}
     /\ UNCHANGED <<inherited, forked, findings, policy>>

\* append_candidate_request: anyone may ask, with an event of its own; asking
\* twice changes nothing.
RequestCandidate(i, to, b) ==
  /\ Status(i) # to
  /\ to \in {"confirmation_requested", "rejection_requested", "supersession_requested"}
  /\ b = BranchOf(i) /\ Len(log) < MaxEvents
  /\ Settles(CandidateFlow, CandidateGates, Status(i), to, "untrusted")
  /\ log' = Append(log, State(b))
  /\ candidates' = [candidates EXCEPT ![i].last = Entry(to, Len(log) + 1)]
  /\ UNCHANGED <<inherited, forked, memories, links, findings, policy>>

\* transition_candidate with an event that the candidate's branch shows.  Next
\* uses it to settle: who only asks has RequestCandidate.
TransitionCandidate(i, to, n) ==
  /\ n \in Visible(BranchOf(i))
  /\ Settles(CandidateFlow, CandidateGates, Status(i), to, log[n].origin)
  /\ candidates' = [candidates EXCEPT ![i].last = Entry(to, n)]
  /\ UNCHANGED <<log, inherited, forked, memories, links, findings, policy>>

----------------------------------------------------------------------------
\* find_auto_candidate_match: the oldest candidate of any branch.
Matching(c) ==
  {i \in DOMAIN candidates :
     /\ candidates[i].content = c
     /\ Status(i) \in {"auto", "quarantined", "confirmation_requested",
                                         "confirmed"}}

MemoryOf(i) == {l.memory : l \in {k \in links : k.candidate = i}}

\* confirm_candidate_match writes the request and the confirmation; a candidate
\* that is confirmed already stays as it is.
Confirmed(last, n) == IF last.status = "confirmed" THEN last ELSE Entry("confirmed", n)

\* What keeps the marker: a link to the memory that its candidate has, if any.
ConfirmedLinks_FirstOnly(i, m, n) ==
  IF \E l \in links : l.candidate = i /\ l.memory = m THEN {}
  ELSE {Link(i, m, "confirmed_as", n)}
ConfirmedLinks(i, m, n) == {Link(i, m, "confirmed_as", n)}

\* The delivery of a prompt with a marker that no candidate matches, or of a
\* marker that the host does not vouch for.
MarkNew(b, c, o) ==
  LET n == Len(log) + 1
  IN /\ b \in forked /\ n < MaxEvents
     /\ o = "user" => Matching(c) = {}
     /\ log' = log \o <<Row(b, o, "message", c), State(b)>>
     /\ memories' = Append(memories,
          [branch |-> b, content |-> c, sources |-> {n}, extracted |-> FALSE,
           authority |-> IF o = "user" THEN "confirmed" ELSE "auto"])
     /\ UNCHANGED <<inherited, forked, candidates, links, findings, policy>>

\* The delivery of a prompt whose marker repeats a candidate.  It is accepted
\* only in the branch of the candidate, where the prompt can be seen.
MarkMatch(b, c) ==
  LET n == Len(log) + 1
      i == Oldest(Matching(c))
  IN /\ b \in forked /\ n <= MaxEvents
     /\ Matching(c) # {} /\ b = BranchOf(i)
     /\ candidates' = [candidates EXCEPT ![i].last = Confirmed(@, n)]
     /\ \/ /\ MemoryOf(i) # {}
           /\ log' = Append(log, Row(b, "user", "message", c))
           /\ links' = links \cup ConfirmedLinks(i, Oldest(MemoryOf(i)), n)
           /\ UNCHANGED memories
        \/ /\ MemoryOf(i) = {} /\ n < MaxEvents
           /\ log' = log \o <<Row(b, "user", "message", c), State(b)>>
           /\ memories' = Append(memories,
                [branch |-> b, content |-> c, sources |-> {candidates[i].event, n},
                 authority |-> "confirmed", extracted |-> FALSE])
           /\ links' = links \cup ConfirmedLinks(i, Len(memories) + 1, n)
     /\ UNCHANGED <<inherited, forked, findings, policy>>

----------------------------------------------------------------------------
\* record_security_finding, once for an incident and for ever; a project that
\* is initialised again leaves one too.
RecordFinding(k) ==
  /\ k = Rebootstrap => policy # None
  /\ findings[k] = None /\ Len(log) < MaxEvents
  /\ log' = Append(log, State(Main))
  /\ findings' = [findings EXCEPT ![k] = Entry("active", Len(log) + 1)]
  /\ UNCHANGED <<inherited, forked, candidates, memories, links, policy>>

RequestAck(k, b) ==
  /\ b \in forked /\ Len(log) < MaxEvents
  /\ findings[k] # None /\ findings[k].status = "active"
  /\ log' = Append(log, State(b))
  /\ findings' = [findings EXCEPT ![k] = Entry("acknowledgement_requested", Len(log) + 1)]
  /\ UNCHANGED <<inherited, forked, candidates, memories, links, policy>>

\* transition_finding: the source must be seen on the main branch.
TransitionFinding(k, to, n) ==
  /\ findings[k] # None /\ n \in Visible(Main)
  /\ Settles(FindingFlow, FindingGates, findings[k].status, to, log[n].origin)
  /\ findings' = [findings EXCEPT ![k] = Entry(to, n)]
  /\ UNCHANGED <<log, inherited, forked, candidates, memories, links, policy>>

\* initialize_project: the first one trusts whoever calls.
Bootstrap(delegation) ==
  /\ policy = None /\ Len(log) < MaxEvents
  /\ log' = Append(log, Row(Main, "bootstrap", "state", None))
  /\ policy' = delegation
  /\ UNCHANGED <<inherited, forked, candidates, memories, links, findings>>

\* activate_policy does not ask which branch shows its source, nor whether it
\* was used before.
ActivatePolicy(delegation, n) ==
  /\ log[n].origin \in {"bootstrap", "user"}
  /\ policy' = delegation
  /\ UNCHANGED <<log, inherited, forked, candidates, memories, links, findings>>

----------------------------------------------------------------------------
Next ==
  \/ \E b \in Branches, p \in Branches : Fork(b, p)
  \/ \E b \in Branches, o \in Callers : AppendOther(b, o)
  \/ \E n \in DOMAIN log, c \in Contents, s \in {"auto", "quarantined"} : Extract(n, c, s)
  \/ \E i \in DOMAIN candidates, to \in CandidateStatuses, b \in Branches :
       RequestCandidate(i, to, b)
  \/ \E i \in DOMAIN candidates, to \in CandidateGates.targets, n \in DOMAIN log :
       TransitionCandidate(i, to, n)
  \/ \E b \in Branches, c \in Contents, o \in {"user", "untrusted"} : MarkNew(b, c, o)
  \/ \E b \in Branches, c \in Contents : MarkMatch(b, c)
  \/ \E k \in Incidents : RecordFinding(k)
  \/ \E k \in Incidents, b \in Branches : RequestAck(k, b)
  \/ \E k \in Incidents, to \in FindingGates.targets, n \in DOMAIN log : TransitionFinding(k, to, n)
  \/ \E d \in BOOLEAN : Bootstrap(d)
  \/ \E d \in BOOLEAN, n \in DOMAIN log : ActivatePolicy(d, n)

Spec == Init /\ [][Next]_vars

----------------------------------------------------------------------------
\* memory_authority: the latest status of any linked candidate, or the
\* authority the memory was written with.
Authority(m) ==
  IF \E l \in links : l.memory = m /\ Status(l.candidate) = "confirmed"
  THEN "confirmed" ELSE memories[m].authority

Entrusted(b, n) == n \in Visible(b) /\ log[n].origin \in {"user", "operator", "agent"}

\* Whoever is confirmed was confirmed on the word of someone trusted, in an
\* event that the branch of the candidate shows: every candidate of a memory,
\* not one of them, since any of them makes the memory confirmed; and nothing
\* else makes confirmed what extraction alone proposed.  A finding is
\* acknowledged only by one who is not an agent, in an event of main.
\* (memory_authority against the transitions and their rules.)
SettledByTrust ==
  /\ \A m \in DOMAIN memories :
       /\ \A l \in links : l.memory = m /\ Status(l.candidate) = "confirmed" =>
            Entrusted(BranchOf(l.candidate), candidates[l.candidate].last.source)
       /\ memories[m].extracted /\ Authority(m) = "confirmed" =>
            \E l \in links : l.memory = m /\ Status(l.candidate) = "confirmed"
  /\ \A k \in Incidents : findings[k] # None /\ findings[k].status = "acknowledged" =>
       /\ Entrusted(Main, findings[k].source)
       /\ log[findings[k].source].origin # "agent"

\* No accepted marker of the user is lost: a memory with its content names the
\* prompt, or a link from a candidate of its content does, whatever was
\* extracted, requested or settled before and after it.  (consolidate_event,
\* confirm_candidate_match.)
MarkersKept ==
  \A n \in DOMAIN log : log[n].mark # None =>
    \E m \in DOMAIN memories :
      /\ memories[m].content = log[n].mark
      /\ \/ n \in memories[m].sources
         \/ \E l \in links : l.memory = m /\ l.relation = "confirmed_as" /\ l.source = n
=============================================================================
