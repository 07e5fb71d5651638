----------------------- MODULE ExtractionWorker_proofs -----------------------
(***************************************************************************)
(* Proofs about ExtractionWorker for any number of workers, events,        *)
(* retries and faults and any lease.                                       *)
(***************************************************************************)
EXTENDS ExtractionWorker, TLAPS, FiniteSetTheorems, WellFoundedInduction

(* What a worker keeps in memory fits the place it has reached: it has an  *)
(* event exactly while it works on one, and only leased workers hold or    *)
(* claim the lease.                                                        *)
LocalsFitPc ==
    /\ owner \in Leased \cup {NoOwner}
    /\ \A w \in Foreground : pc[w] \notin {"spawned", "claiming"}
    /\ \A w \in Workers : event[w] # 0 <=> pc[w] \in {"ensured", "infer"}

\* What one success writes: the candidates the run did not hold, the memories
\* of the texts nobody had, and a link from every accepted one to its memory.
RowsWritten(e, fresh, auto, new) ==
    /\ auto \subseteq fresh
    /\ \A p \in fresh, k \in candidates : ~(k.event = e /\ k.proposal = p)
    /\ \A c \in Contents :
          c \in new <=> /\ \A m \in memories : m.content # c
                       /\ \E p \in auto : Content[p] = c
    /\ candidates' = candidates
          \cup {[event |-> e, proposal |-> p, status |-> "auto"] : p \in auto}
          \cup {[event |-> e, proposal |-> p, status |-> "quarantined"] : p \in fresh \ auto}
    /\ memories' = memories \cup {[content |-> c, event |-> e] : c \in new}
    /\ links' = links \cup
          {l \in [event : {e}, proposal : auto, source : Events] :
              [content |-> Content[l.proposal], event |-> l.source] \in memories'}

LEMMA CommitWrites ==
    ASSUME NEW w \in Workers, CommitSuccess(w)
    PROVE  \E fresh \in SUBSET Proposals, auto \in SUBSET Proposals, new \in SUBSET Contents :
             RowsWritten(event[w], fresh, auto, new)
<1> DEFINE e == event[w]
           Writes(fresh, auto) ==
             LET new == {c \in Contents :
                           ExistingMemory(e, c) = {} /\ \E p \in auto : Content[p] = c}
                 known == memories \cup {[content |-> c, event |-> e] : c \in new}
             IN /\ candidates' = candidates
                     \cup {[event |-> e, proposal |-> p, status |-> "auto"] : p \in auto}
                     \cup {[event |-> e, proposal |-> p, status |-> "quarantined"]
                             : p \in fresh \ auto}
                /\ memories' = known
                /\ links' = links \cup
                     {l \in [event : {e}, proposal : auto, source : Events] :
                         [content |-> Content[l.proposal], event |-> l.source] \in known}
<1>1. PICK response \in SUBSET Proposals : \E weak \in SUBSET response :
        Writes(Fresh(e, response), Fresh(e, response) \ (weak \cup Conflicting(response)))
  BY Zenon DEF CommitSuccess
<1>2. PICK weak \in SUBSET response :
        Writes(Fresh(e, response), Fresh(e, response) \ (weak \cup Conflicting(response)))
  BY <1>1, Zenon
<1>3. PICK fresh : fresh = Fresh(e, response)
  OBVIOUS
<1>4. PICK auto : auto = fresh \ (weak \cup Conflicting(response))
  OBVIOUS
<1>5. PICK new : new = {c \in Contents :
                          ExistingMemory(e, c) = {} /\ \E p \in auto : Content[p] = c}
  OBVIOUS
<1>6. Writes(fresh, auto)
  BY <1>2, <1>3, <1>4, Zenon
<1>7. /\ candidates' = candidates
            \cup {[event |-> e, proposal |-> p, status |-> "auto"] : p \in auto}
            \cup {[event |-> e, proposal |-> p, status |-> "quarantined"] : p \in fresh \ auto}
      /\ memories' = memories \cup {[content |-> c, event |-> e] : c \in new}
      /\ links' = links \cup
            {l \in [event : {e}, proposal : auto, source : Events] :
                [content |-> Content[l.proposal], event |-> l.source] \in memories'}
  BY <1>5, <1>6, Zenon
<1>8. fresh \in SUBSET Proposals /\ auto \in SUBSET fresh
  BY <1>3, <1>4 DEF Fresh
<1>9. \A p \in fresh, k \in candidates : ~(k.event = e /\ k.proposal = p)
  BY <1>3 DEF Fresh
<1>10. \A c \in Contents :
          c \in new <=> (\A m \in memories : m.content # c) /\ \E p \in auto : Content[p] = c
  BY <1>5 DEF ExistingMemory
<1>11. new \in SUBSET Contents
  BY <1>5
<1>12. RowsWritten(e, fresh, auto, new)
  BY <1>7, <1>8, <1>9, <1>10, Zenon DEF RowsWritten
<1> QED BY <1>8, <1>11, <1>12

(* Types are kept by every step of every worker.                           *)
LEMMA TypeInit == Init => TypeOK /\ LocalsFitPc
BY WorkersAssumption, BoundsAssumption
   DEF Init, TypeOK, LocalsFitPc, Events, Workers, PCs

\* TypeOK in three parts: the rows and counters, the ledger, the workers.
RowTypes ==
    /\ head \in 0..MaxEvents /\ due \in 0..head
    /\ generation \in Nat /\ leaseUntil \in Nat
    /\ clock \in 0..MaxClock /\ faults \in 0..MaxFaults
    /\ owner \in Workers \cup {NoOwner}

LedgerTypes ==
    /\ runs \subseteq Events
    /\ starts \in [Events -> Nat]
    /\ attempts \subseteq [event : Events, no : Nat, outcome : Outcomes]
    /\ candidates \subseteq
        [event : Events, proposal : Proposals, status : {"auto", "quarantined"}]
    /\ memories \subseteq [content : Contents, event : Events]
    /\ links \subseteq [event : Events, proposal : Proposals, source : Events]

LocalTypes ==
    /\ pc \in [Workers -> PCs]
    /\ stamp \in [Workers -> Nat] /\ observed \in [Workers -> Nat]
    /\ queue \in [Workers -> SUBSET Events]
    /\ event \in [Workers -> 0..MaxEvents] /\ attempt \in [Workers -> Nat]

LEMMA TypeParts == TypeOK <=> RowTypes /\ LedgerTypes /\ LocalTypes
BY Zenon DEF TypeOK, RowTypes, LedgerTypes, LocalTypes

\* What most actions leave alone keeps its types.
LEMMA LedgerStays == LedgerTypes /\ UNCHANGED ledger => LedgerTypes'
BY Zenon DEF LedgerTypes, ledger

LEMMA RowsStay ==
    RowTypes /\ UNCHANGED <<head, due, wakeup, clock, faults>> => RowTypes'
BY Zenon DEF RowTypes, wakeup

LEMMA LocalsStay == LocalTypes /\ UNCHANGED <<pc, locals>> => LocalTypes'
BY Zenon DEF LocalTypes, locals

LEMMA MovesTo ==
    ASSUME LocalTypes, NEW w \in Workers, NEW p \in PCs,
           pc' = [pc EXCEPT ![w] = p]
    PROVE  /\ pc' \in [Workers -> PCs]
           /\ UNCHANGED locals => LocalTypes'
<1>1. pc' \in [Workers -> PCs]
  BY DEF LocalTypes
<1>2. ASSUME UNCHANGED locals PROVE LocalTypes'
  <2>1. UNCHANGED <<stamp, observed, queue, event, attempt>>
    BY <1>2, Zenon DEF locals
  <2> QED BY <1>1, <2>1, Zenon DEF LocalTypes
<1> QED BY <1>1, <1>2

LEMMA ExitTypes ==
    ASSUME LocalTypes, NEW w \in Workers, NEW p \in PCs, Exit(w, p)
    PROVE  LocalTypes'
<1>1. pc' \in [Workers -> PCs]
  BY MovesTo DEF Exit
<1>2. stamp' \in [Workers -> Nat] /\ observed' \in [Workers -> Nat]
  BY DEF Exit, LocalTypes
<1>3. queue' \in [Workers -> SUBSET Events]
  BY DEF Exit, LocalTypes
<1>4. event' \in [Workers -> 0..MaxEvents] /\ attempt' \in [Workers -> Nat]
  BY BoundsAssumption DEF Exit, LocalTypes
<1> QED BY <1>1, <1>2, <1>3, <1>4, Zenon DEF LocalTypes

LEMMA NextEventTypes ==
    ASSUME RowTypes, LocalTypes, NEW w \in Workers, NextEvent(w)
    PROVE  RowTypes' /\ LocalTypes'
<1>1. "work" \in PCs
  BY DEF PCs, Live, Working
<1>2. pc' \in [Workers -> PCs]
  BY <1>1, MovesTo DEF NextEvent
<1>3. event' \in [Workers -> 0..MaxEvents] /\ attempt' \in [Workers -> Nat]
  BY BoundsAssumption DEF NextEvent, LocalTypes
<1>4. UNCHANGED <<stamp, observed, queue>> /\ UNCHANGED <<head, due, wakeup, clock, faults>>
  BY Zenon DEF NextEvent
<1>5. LocalTypes'
  BY <1>2, <1>3, <1>4, Zenon DEF LocalTypes
<1> QED BY <1>4, <1>5, RowsStay

LEMMA RowTyped ==
    ASSUME TypeOK, LocalsFitPc, NEW w \in Workers, pc[w] = "infer"
    PROVE  event[w] \in Events /\ \A o \in Outcomes :
             Row(w, o) \in [event : Events, no : Nat, outcome : Outcomes]
<1>1. event[w] \in Events
  BY BoundsAssumption DEF TypeOK, LocalsFitPc, Events
<1>2. attempt[w] \in Nat
  BY DEF TypeOK
<1> QED BY <1>1, <1>2 DEF Row

LEMMA TypeStep == TypeOK /\ LocalsFitPc /\ [Next]_vars => TypeOK'
<1> SUFFICES ASSUME TypeOK, LocalsFitPc, [Next]_vars
             PROVE  RowTypes' /\ LedgerTypes' /\ LocalTypes'
  BY Zenon DEF TypeOK, RowTypes, LedgerTypes, LocalTypes
<1> DEFINE Goal == RowTypes' /\ LedgerTypes' /\ LocalTypes'
<1> USE BoundsAssumption, WorkersAssumption
<1>a. RowTypes /\ LedgerTypes /\ LocalTypes
  BY TypeParts
<1>b. {"scan", "work", "ensured", "infer", "done", "dead", "claiming", "spawned"} \subseteq PCs
  BY DEF PCs, Live, Working
<1>1. CASE AppendEvent
  <2>1. RowTypes' BY <1>1, <1>a DEF AppendEvent, RowTypes, wakeup
  <2> QED BY <1>1, <1>a, <2>1, LedgerStays, LocalsStay DEF AppendEvent
<1>2. CASE LoseNotify
  <2>1. RowTypes' BY <1>2, <1>a DEF LoseNotify, RowTypes
  <2> QED BY <1>2, <1>a, <2>1, LedgerStays, LocalsStay DEF LoseNotify
<1>3. CASE Tick
  <2>1. RowTypes' BY <1>3, <1>a DEF Tick, RowTypes, wakeup
  <2> QED BY <1>3, <1>a, <2>1, LedgerStays, LocalsStay DEF Tick
<1>4. ASSUME NEW w \in Workers, Notify(w) PROVE Goal
  <2>1. RowTypes' BY <1>4, <1>a DEF Notify, RowTypes
  <2>2. LocalTypes' BY <1>4, <1>a, <1>b, MovesTo DEF Notify
  <2> QED BY <1>4, <1>a, <2>1, <2>2, LedgerStays DEF Notify
<1>5. ASSUME NEW w \in Workers, StartForeground(w) PROVE Goal
  <2>1. LocalTypes' BY <1>5, <1>a, <1>b, MovesTo DEF StartForeground
  <2> QED BY <1>5, <1>a, <2>1, RowsStay, LedgerStays DEF StartForeground
<1>6. ASSUME NEW w \in Workers, StampClaim(w) PROVE Goal
  <2>1. pc' \in [Workers -> PCs] BY <1>6, <1>a, <1>b, MovesTo DEF StampClaim
  <2>2. stamp' \in [Workers -> Nat] BY <1>6, <1>a DEF StampClaim, LocalTypes, RowTypes
  <2>3. UNCHANGED <<observed, queue, event, attempt>> BY <1>6, Zenon DEF StampClaim
  <2>4. LocalTypes' BY <1>a, <2>1, <2>2, <2>3, Zenon DEF LocalTypes
  <2> QED BY <1>6, <1>a, <2>4, RowsStay, LedgerStays DEF StampClaim
<1>7. ASSUME NEW w \in Workers, ClaimRefused(w) PROVE Goal
  <2>1. LocalTypes' BY <1>7, <1>a, <1>b, ExitTypes DEF ClaimRefused
  <2> QED BY <1>7, <1>a, <2>1, RowsStay, LedgerStays DEF ClaimRefused
<1>8. ASSUME NEW w \in Workers, ClaimGranted(w) PROVE Goal
  <2>1. pc' \in [Workers -> PCs] BY <1>8, <1>a, <1>b, MovesTo DEF ClaimGranted
  <2>2. observed' \in [Workers -> Nat] BY <1>8, <1>a DEF ClaimGranted, LocalTypes, RowTypes
  <2>3. UNCHANGED <<stamp, queue, event, attempt>> BY <1>8, Zenon DEF ClaimGranted
  <2>4. LocalTypes' BY <1>a, <2>1, <2>2, <2>3, Zenon DEF LocalTypes
  <2>5. leaseUntil' \in Nat BY <1>8, <1>a DEF ClaimGranted, LocalTypes
  <2>6. owner' \in Workers \cup {NoOwner} BY <1>8 DEF ClaimGranted
  <2>7. UNCHANGED <<head, due, generation, clock, faults>> BY <1>8, Zenon DEF ClaimGranted
  <2>8. RowTypes' BY <1>a, <2>5, <2>6, <2>7, Zenon DEF RowTypes
  <2> QED BY <1>8, <1>a, <2>4, <2>8, LedgerStays DEF ClaimGranted
<1>9. ASSUME NEW w \in Workers, Scan(w) PROVE Goal
  <2>1. \A rf \in BOOLEAN : Pending(rf) \subseteq Events
    BY <1>a DEF Pending, RowTypes, Events
  <2>2. PICK rf \in BOOLEAN, last \in 0..head :
            queue' = [queue EXCEPT ![w] = {e \in Pending(rf) : e <= last}]
    BY <1>9 DEF Scan
  <2>3. {e \in Pending(rf) : e <= last} \in SUBSET Events
    BY <2>1
  <2>4. queue' \in [Workers -> SUBSET Events]
    BY <1>a, <2>2, <2>3 DEF LocalTypes
  <2>5. pc' \in [Workers -> PCs] BY <1>9, <1>a, <1>b, MovesTo DEF Scan
  <2>6. UNCHANGED <<stamp, observed, event, attempt>> BY <1>9, Zenon DEF Scan
  <2>7. LocalTypes' BY <1>a, <2>4, <2>5, <2>6, Zenon DEF LocalTypes
  <2> QED BY <1>9, <1>a, <2>7, RowsStay, LedgerStays DEF Scan
<1>10. ASSUME NEW w \in Workers, RuntimeDown(w) PROVE Goal
  <2>1. RowTypes' BY <1>10, <1>a DEF RuntimeDown, RowTypes, wakeup
  <2>2. LocalTypes' BY <1>10, <1>a, <1>b, MovesTo DEF RuntimeDown
  <2> QED BY <1>10, <1>a, <2>1, <2>2, LedgerStays DEF RuntimeDown
<1>11. ASSUME NEW w \in Workers, EnsureRun(w) PROVE Goal
  <2>1. PICK e \in queue[w] :
            /\ runs' = runs \cup {e}
            /\ event' = [event EXCEPT ![w] = e]
            /\ queue' = [queue EXCEPT ![w] = @ \ {e}]
    BY <1>11 DEF EnsureRun
  <2>2. e \in Events /\ e \in 0..MaxEvents /\ queue[w] \ {e} \in SUBSET Events
    BY <1>a DEF LocalTypes, Events
  <2>3. queue' \in [Workers -> SUBSET Events] BY <1>a, <2>1, <2>2 DEF LocalTypes
  <2>4. event' \in [Workers -> 0..MaxEvents] BY <1>a, <2>1, <2>2 DEF LocalTypes
  <2>5. pc' \in [Workers -> PCs] BY <1>11, <1>a, <1>b, MovesTo DEF EnsureRun
  <2>6. UNCHANGED <<stamp, observed, attempt>> BY <1>11, Zenon DEF EnsureRun
  <2>7. LocalTypes' BY <1>a, <2>3, <2>4, <2>5, <2>6, Zenon DEF LocalTypes
  <2>8. runs' \subseteq Events BY <1>a, <2>1, <2>2 DEF LedgerTypes
  <2>9. UNCHANGED <<starts, attempts, candidates, memories, links>>
    BY <1>11, Zenon DEF EnsureRun
  <2>10. LedgerTypes' BY <1>a, <2>8, <2>9, Zenon DEF LedgerTypes
  <2> QED BY <1>11, <1>a, <2>7, <2>10, RowsStay DEF EnsureRun
<1>12. ASSUME NEW w \in Workers, StartAttempt(w) PROVE Goal
  <2>1. event[w] \in Events
    BY <1>12, <1>a DEF LocalsFitPc, StartAttempt, LocalTypes, Events
  <2>2. NextAttemptNo(event[w]) \in Nat
    BY <1>a, <2>1 DEF NextAttemptNo, LedgerTypes
  <2>3. attempt' \in [Workers -> Nat] BY <1>12, <1>a, <2>2 DEF StartAttempt, LocalTypes
  <2>4. starts' \in [Events -> Nat] BY <1>12, <1>a, <2>2 DEF StartAttempt, LedgerTypes
  <2>5. pc' \in [Workers -> PCs] BY <1>12, <1>a, <1>b, MovesTo DEF StartAttempt
  <2>6. UNCHANGED <<stamp, observed, queue, event>> BY <1>12, Zenon DEF StartAttempt
  <2>7. LocalTypes' BY <1>a, <2>3, <2>5, <2>6, Zenon DEF LocalTypes
  <2>8. UNCHANGED <<runs, attempts, candidates, memories, links>>
    BY <1>12, Zenon DEF StartAttempt
  <2>9. LedgerTypes' BY <1>a, <2>4, <2>8, Zenon DEF LedgerTypes
  <2> QED BY <1>12, <1>a, <2>7, <2>9, RowsStay DEF StartAttempt
<1>13. ASSUME NEW w \in Workers, CommitSuccess(w) PROVE Goal
  <2>1. RowTypes' /\ LocalTypes'
    BY <1>13, <1>a, NextEventTypes DEF CommitSuccess
  <2>2. event[w] \in Events
    BY <1>13, RowTyped DEF CommitSuccess
  <2>3. PICK fresh \in SUBSET Proposals, auto \in SUBSET Proposals, new \in SUBSET Contents :
          RowsWritten(event[w], fresh, auto, new)
    BY <1>13, CommitWrites
  <2>6. /\ candidates' = candidates
                \cup {[event |-> event[w], proposal |-> p, status |-> "auto"] : p \in auto}
                \cup {[event |-> event[w], proposal |-> p, status |-> "quarantined"]
                        : p \in fresh \ auto}
        /\ memories' = memories \cup {[content |-> c, event |-> event[w]] : c \in new}
        /\ links' = links \cup
                {l \in [event : {event[w]}, proposal : auto, source : Events] :
                    [content |-> Content[l.proposal], event |-> l.source] \in memories'}
    BY <2>3, Zenon DEF RowsWritten
  <2>7. /\ candidates \subseteq
            [event : Events, proposal : Proposals, status : {"auto", "quarantined"}]
        /\ memories \subseteq [content : Contents, event : Events]
        /\ links \subseteq [event : Events, proposal : Proposals, source : Events]
        /\ attempts \subseteq [event : Events, no : Nat, outcome : Outcomes]
    BY <1>a, Zenon DEF LedgerTypes
  <2>8. candidates' \subseteq
          [event : Events, proposal : Proposals, status : {"auto", "quarantined"}]
    BY <2>2, <2>6, <2>7
  <2>9. memories' \subseteq [content : Contents, event : Events]
    BY <2>2, <2>6, <2>7
  <2>10. links' \subseteq [event : Events, proposal : Proposals, source : Events]
    BY <2>2, <2>6, <2>7
  <2>11. attempts' \subseteq [event : Events, no : Nat, outcome : Outcomes]
    <3>1. Row(w, "succeeded") \in [event : Events, no : Nat, outcome : Outcomes]
      BY <1>13, RowTyped DEF CommitSuccess, Outcomes
    <3>2. attempts' = attempts \cup {Row(w, "succeeded")}
      BY <1>13, Zenon DEF CommitSuccess
    <3> QED BY <2>7, <3>1, <3>2, Zenon
  <2>12. UNCHANGED <<runs, starts>> BY <1>13, Zenon DEF CommitSuccess, NextEvent
  <2>13. LedgerTypes' BY <1>a, <2>8, <2>9, <2>10, <2>11, <2>12, Zenon DEF LedgerTypes
  <2> QED BY <2>1, <2>13
<1>14. ASSUME NEW w \in Workers, FinishFailure(w) PROVE Goal
  <2>1. RowTypes' /\ LocalTypes'
    BY <1>14, <1>a, NextEventTypes DEF FinishFailure
  <2>2. FailureOutcome(w) \in Outcomes
    BY DEF FailureOutcome, Outcomes, Failures
  <2>3. Row(w, FailureOutcome(w)) \in [event : Events, no : Nat, outcome : Outcomes]
    BY <1>14, <2>2, RowTyped, Zenon DEF FinishFailure
  <2>4. attempts' = attempts \cup {Row(w, FailureOutcome(w))}
    BY <1>14, Zenon DEF FinishFailure
  <2>5. attempts' \subseteq [event : Events, no : Nat, outcome : Outcomes]
    <3>1. attempts \subseteq [event : Events, no : Nat, outcome : Outcomes]
      BY <1>a, Zenon DEF LedgerTypes
    <3> QED BY <2>3, <2>4, <3>1, Zenon
  <2>6. UNCHANGED <<runs, starts, candidates, memories, links>>
    BY <1>14, Zenon DEF FinishFailure, NextEvent
  <2>7. LedgerTypes' BY <1>a, <2>5, <2>6, Zenon DEF LedgerTypes
  <2> QED BY <2>1, <2>7
<1>15. ASSUME NEW w \in Workers, Release(w) PROVE Goal
  <2>1. LocalTypes' BY <1>15, <1>a, <1>b, ExitTypes DEF Release
  <2>2. /\ owner' = NoOwner /\ leaseUntil' = 0
        /\ UNCHANGED <<head, due, generation, clock, faults>>
    BY <1>15, Zenon DEF Release
  <2>3. RowTypes' BY <1>a, <2>2 DEF RowTypes
  <2> QED BY <1>15, <1>a, <2>1, <2>3, LedgerStays DEF Release
<1>16. ASSUME NEW w \in Workers, Renew(w) PROVE Goal
  <2>1. pc' \in [Workers -> PCs] BY <1>16, <1>a, <1>b, MovesTo DEF Renew
  <2>2. observed' \in [Workers -> Nat] BY <1>16, <1>a DEF Renew, LocalTypes, RowTypes
  <2>3. UNCHANGED <<stamp, queue, event, attempt>> BY <1>16, Zenon DEF Renew
  <2>4. LocalTypes' BY <1>a, <2>1, <2>2, <2>3, Zenon DEF LocalTypes
  <2>5. leaseUntil' \in Nat BY <1>16, <1>a DEF Renew, RowTypes
  <2>6. UNCHANGED <<head, due, generation, owner, clock, faults>> BY <1>16, Zenon DEF Renew
  <2>7. RowTypes' BY <1>a, <2>5, <2>6, Zenon DEF RowTypes
  <2> QED BY <1>16, <1>a, <2>4, <2>7, LedgerStays DEF Renew
<1>17. ASSUME NEW w \in Workers, Leave(w) PROVE Goal
  <2>1. LocalTypes' BY <1>17, <1>a, <1>b, ExitTypes DEF Leave
  <2> QED BY <1>17, <1>a, <2>1, RowsStay, LedgerStays DEF Leave
<1>18. ASSUME NEW w \in Workers, Crash(w) PROVE Goal
  <2>1. LocalTypes' BY <1>18, <1>a, <1>b, ExitTypes DEF Crash
  <2>2. RowTypes' BY <1>18, <1>a DEF Crash, RowTypes, wakeup
  <2> QED BY <1>18, <1>a, <2>1, <2>2, LedgerStays DEF Crash
<1>19. CASE UNCHANGED vars
  BY <1>19, <1>a, RowsStay, LedgerStays, LocalsStay DEF vars
<1> QED
    BY <1>1, <1>2, <1>3, <1>4, <1>5, <1>6, <1>7, <1>8, <1>9, <1>10, <1>11,
       <1>12, <1>13, <1>14, <1>15, <1>16, <1>17, <1>18,
       <1>19 DEF Next, WorkerStep

(* The locals of a worker fit its place after every step.                  *)
LEMMA LocalsStep == TypeOK /\ LocalsFitPc /\ [Next]_vars => LocalsFitPc'
<1> SUFFICES ASSUME TypeOK, LocalsFitPc, [Next]_vars PROVE LocalsFitPc'
    OBVIOUS
<1>. /\ pc \in [Workers -> PCs]
     /\ event \in [Workers -> 0..MaxEvents]
     /\ queue \in [Workers -> SUBSET Events]
     /\ 0 \notin Events
    BY BoundsAssumption DEF TypeOK, Events
<1>. Leased \cap Foreground = {} /\ Workers = Leased \cup Foreground
    BY WorkersAssumption DEF Workers
<1> USE DEF LocalsFitPc, Live, Working, wakeup, ledger, locals
<1>1. CASE AppendEvent BY <1>1 DEF AppendEvent
<1>2. CASE LoseNotify BY <1>2 DEF LoseNotify
<1>3. CASE Tick BY <1>3 DEF Tick
<1>4. ASSUME NEW w \in Workers, Notify(w) PROVE LocalsFitPc'
    BY <1>4 DEF Notify
<1>5. ASSUME NEW w \in Workers, StartForeground(w) PROVE LocalsFitPc'
    BY <1>5 DEF StartForeground
<1>6. ASSUME NEW w \in Workers, StampClaim(w) PROVE LocalsFitPc'
    BY <1>6 DEF StampClaim
<1>7. ASSUME NEW w \in Workers, ClaimRefused(w) PROVE LocalsFitPc'
    BY <1>7 DEF ClaimRefused, Exit
<1>8. ASSUME NEW w \in Workers, ClaimGranted(w) PROVE LocalsFitPc'
    BY <1>8 DEF ClaimGranted
<1>9. ASSUME NEW w \in Workers, Scan(w) PROVE LocalsFitPc'
    BY <1>9 DEF Scan
<1>10. ASSUME NEW w \in Workers, RuntimeDown(w) PROVE LocalsFitPc'
    BY <1>10 DEF RuntimeDown
<1>11. ASSUME NEW w \in Workers, EnsureRun(w) PROVE LocalsFitPc'
    BY <1>11 DEF EnsureRun
<1>12. ASSUME NEW w \in Workers, StartAttempt(w) PROVE LocalsFitPc'
    BY <1>12 DEF StartAttempt
<1>13. ASSUME NEW w \in Workers, CommitSuccess(w) PROVE LocalsFitPc'
    BY <1>13 DEF CommitSuccess, NextEvent
<1>14. ASSUME NEW w \in Workers, FinishFailure(w) PROVE LocalsFitPc'
    BY <1>14 DEF FinishFailure, NextEvent
<1>15. ASSUME NEW w \in Workers, Release(w) PROVE LocalsFitPc'
    BY <1>15 DEF Release, Exit
<1>16. ASSUME NEW w \in Workers, Renew(w) PROVE LocalsFitPc'
    BY <1>16 DEF Renew, CycleOver
<1>17. ASSUME NEW w \in Workers, Leave(w) PROVE LocalsFitPc'
    BY <1>17 DEF Leave, Exit
<1>18. ASSUME NEW w \in Workers, Crash(w) PROVE LocalsFitPc'
    BY <1>18 DEF Crash, Exit
<1>19. CASE UNCHANGED vars BY <1>19 DEF vars
<1> QED
    BY <1>1, <1>2, <1>3, <1>4, <1>5, <1>6, <1>7, <1>8, <1>9, <1>10, <1>11,
       <1>12, <1>13, <1>14, <1>15, <1>16, <1>17, <1>18,
       <1>19 DEF Next, WorkerStep

(* Every reachable state of the wakeup row, the ledger and the workers has  *)
(* its type, and what a worker keeps in memory fits the step it is at.     *)
THEOREM TypeCorrect == Spec => [](TypeOK /\ LocalsFitPc)
<1>1. Init => TypeOK /\ LocalsFitPc BY TypeInit
<1>2. TypeOK /\ LocalsFitPc /\ [Next]_vars => (TypeOK /\ LocalsFitPc)'
    BY TypeStep, LocalsStep
<1> QED BY <1>1, <1>2, PTL DEF Spec

-----------------------------------------------------------------------------
(* Attempt numbers never collide, whatever overlaps and whoever crashes:   *)
(* a number is taken from the start rows in one transaction, and only the  *)
(* worker that took it writes a row with it.  Three actions touch start    *)
(* rows or outcome rows; the others open no attempt.                       *)
QuietForAttempts ==
    /\ UNCHANGED <<attempts, starts>>
    /\ \A w \in Workers : pc'[w] = "infer" =>
        pc[w] = "infer" /\ event'[w] = event[w] /\ attempt'[w] = attempt[w]

LEMMA QuietSteps ==
    ASSUME TypeOK, [Next]_vars,
           \A w \in Workers : ~StartAttempt(w) /\ ~CommitSuccess(w) /\ ~FinishFailure(w)
    PROVE  QuietForAttempts
<1>. /\ pc \in [Workers -> PCs]
     /\ event \in [Workers -> 0..MaxEvents]
     /\ attempt \in [Workers -> Nat]
    BY DEF TypeOK
<1> USE DEF QuietForAttempts, ledger, locals
<1>1. CASE AppendEvent \/ LoseNotify \/ Tick
    BY <1>1 DEF AppendEvent, LoseNotify, Tick
<1>2. ASSUME NEW w \in Workers,
             Notify(w) \/ StartForeground(w) \/ StampClaim(w) \/ ClaimGranted(w)
      PROVE  QuietForAttempts
    BY <1>2 DEF Notify, StartForeground, StampClaim, ClaimGranted
<1>3. ASSUME NEW w \in Workers,
             Scan(w) \/ RuntimeDown(w) \/ EnsureRun(w) \/ Renew(w)
      PROVE  QuietForAttempts
    BY <1>3 DEF Scan, RuntimeDown, EnsureRun, Renew
<1>4. ASSUME NEW w \in Workers,
             ClaimRefused(w) \/ Release(w) \/ Leave(w) \/ Crash(w)
      PROVE  QuietForAttempts
    BY <1>4 DEF ClaimRefused, Release, Leave, Crash, Exit
<1>5. CASE UNCHANGED vars
    BY <1>5 DEF vars
<1> QED
    BY <1>1, <1>2, <1>3, <1>4, <1>5 DEF Next, WorkerStep

LEMMA AttemptStep ==
    TypeOK /\ LocalsFitPc /\ AttemptRowsNeverCollide /\ [Next]_vars
        => AttemptRowsNeverCollide'
<1> SUFFICES ASSUME TypeOK, LocalsFitPc, AttemptRowsNeverCollide, [Next]_vars
             PROVE  AttemptRowsNeverCollide'
    OBVIOUS
<1>. /\ pc \in [Workers -> PCs]
     /\ event \in [Workers -> 0..MaxEvents]
     /\ attempt \in [Workers -> Nat]
     /\ starts \in [Events -> Nat]
     /\ attempts \subseteq [event : Events, no : Nat, outcome : Outcomes]
    BY DEF TypeOK
<1>a. \A w \in Workers : pc[w] \in {"ensured", "infer"} => event[w] \in Events
    BY BoundsAssumption DEF LocalsFitPc, Events
<1>1. CASE \A w \in Workers : ~StartAttempt(w) /\ ~CommitSuccess(w) /\ ~FinishFailure(w)
  <2>1. QuietForAttempts
    BY <1>1, QuietSteps
  <2> QED
    BY <2>1 DEF QuietForAttempts, AttemptRowsNeverCollide
<1>2. ASSUME NEW w \in Workers, StartAttempt(w) PROVE AttemptRowsNeverCollide'
  <2> DEFINE e == event[w]
             n == starts[e] + 1
  <2>1. /\ e \in Events /\ n \in Nat
        /\ attempt' = [attempt EXCEPT ![w] = n]
        /\ starts' = [starts EXCEPT ![e] = n]
        /\ pc' = [pc EXCEPT ![w] = "infer"]
        /\ event' = event /\ attempts' = attempts
    BY <1>a, <1>2 DEF StartAttempt, NextAttemptNo
  <2>2. \A a \in attempts : a.event \in Events /\ a.no \in Nat
    OBVIOUS
  <2>3. \A a \in attempts' : a.no \in 1..starts'[a.event]
    BY <2>1, <2>2 DEF AttemptRowsNeverCollide
  <2>4. \A a, b \in attempts' : a.event = b.event /\ a.no = b.no => a = b
    BY <2>1 DEF AttemptRowsNeverCollide
  <2>5. \A v \in Workers : pc'[v] = "infer" =>
            /\ attempt'[v] \in 1..starts'[event'[v]]
            /\ \A a \in attempts' : ~(a.event = event'[v] /\ a.no = attempt'[v])
    BY <1>a, <2>1, <2>2 DEF AttemptRowsNeverCollide
  <2>6. \A u, v \in Workers :
            u # v /\ pc'[u] = "infer" /\ pc'[v] = "infer" /\ event'[u] = event'[v]
                => attempt'[u] # attempt'[v]
    BY <1>a, <2>1 DEF AttemptRowsNeverCollide
  <2> QED
    BY <2>3, <2>4, <2>5, <2>6 DEF AttemptRowsNeverCollide
<1>3. ASSUME NEW w \in Workers, CommitSuccess(w) \/ FinishFailure(w)
      PROVE  AttemptRowsNeverCollide'
  <2>1. PICK outcome \in {"succeeded", FailureOutcome(w)} :
            attempts' = attempts \cup {Row(w, outcome)}
    BY <1>3 DEF CommitSuccess, FinishFailure
  <2>2. /\ pc[w] = "infer" /\ starts' = starts
        /\ pc' = [pc EXCEPT ![w] = "work"]
        /\ event' = [event EXCEPT ![w] = 0]
        /\ attempt' = [attempt EXCEPT ![w] = 0]
    BY <1>3 DEF CommitSuccess, FinishFailure, NextEvent
  <2>3. \A v \in Workers : pc'[v] = "infer" =>
            v # w /\ pc[v] = "infer" /\ event'[v] = event[v] /\ attempt'[v] = attempt[v]
    BY <2>2
  <2>4. Row(w, outcome).event = event[w] /\ Row(w, outcome).no = attempt[w]
    BY DEF Row
  <2>5. \A a \in attempts' : a \in attempts \/ a = Row(w, outcome)
    BY <2>1
  <2>6. \A a \in attempts' : a.no \in 1..starts'[a.event]
    BY <2>2, <2>4, <2>5 DEF AttemptRowsNeverCollide
  <2>7. \A a, b \in attempts' : a.event = b.event /\ a.no = b.no => a = b
    BY <2>2, <2>4, <2>5 DEF AttemptRowsNeverCollide
  <2>8. \A v \in Workers : pc'[v] = "infer" =>
            /\ attempt'[v] \in 1..starts'[event'[v]]
            /\ \A a \in attempts' : ~(a.event = event'[v] /\ a.no = attempt'[v])
    BY <2>2, <2>3, <2>4, <2>5 DEF AttemptRowsNeverCollide
  <2>9. \A u, v \in Workers :
            u # v /\ pc'[u] = "infer" /\ pc'[v] = "infer" /\ event'[u] = event'[v]
                => attempt'[u] # attempt'[v]
    BY <2>3 DEF AttemptRowsNeverCollide
  <2> QED
    BY <2>6, <2>7, <2>8, <2>9 DEF AttemptRowsNeverCollide
<1> QED
    BY <1>1, <1>2, <1>3

(* For any number of workers, events and crashes, MAX(attempt_no) + 1 over *)
(* the start rows never gives two attempts of one run the same number, so  *)
(* start_extraction_attempt, commit_extraction_success and                 *)
(* finish_extraction_failure never fail on UNIQUE(run_id, attempt_no).     *)
THEOREM AttemptNumbering == Spec => []AttemptRowsNeverCollide
<1>1. Init => AttemptRowsNeverCollide
    BY DEF Init, AttemptRowsNeverCollide
<1> QED BY <1>1, AttemptStep, TypeCorrect, PTL DEF Spec

-----------------------------------------------------------------------------
(* The lease: a claim compares the lease with a clock read before the      *)
(* transaction, so the stamp is in the past, and the lease a worker was    *)
(* granted lasts at least until its stamp plus the lease time.             *)
LeaseInv ==
    /\ \A w \in Leased :
        pc[w] \in Working \cup {"claiming"} => stamp[w] <= clock
    /\ \A w \in Leased :
        pc[w] \in Working /\ owner = w => stamp[w] + LeaseTicks <= leaseUntil
    /\ SingleConsumer

QuietForLease ==
    /\ UNCHANGED <<owner, leaseUntil, clock>>
    /\ \A w \in Leased : pc'[w] \in Working \cup {"claiming"} =>
        /\ stamp'[w] = stamp[w]
        /\ pc[w] \in Working \cup {"claiming"}
        /\ pc'[w] \in Working => pc[w] \in Working

LEMMA QuietLeaseSteps ==
    ASSUME TypeOK, [Next]_vars, ~Tick,
           \A w \in Workers : ~StampClaim(w) /\ ~ClaimGranted(w) /\ ~Release(w) /\ ~Renew(w)
    PROVE  QuietForLease
<1>. pc \in [Workers -> PCs] /\ stamp \in [Workers -> Nat]
    BY DEF TypeOK
<1>. Leased \subseteq Workers /\ \A w \in Foreground : w \notin Leased
    BY WorkersAssumption DEF Workers
<1> USE DEF QuietForLease, Working, wakeup, ledger, locals
<1>1. CASE AppendEvent \/ LoseNotify
    BY <1>1 DEF AppendEvent, LoseNotify
<1>2. ASSUME NEW w \in Workers, Notify(w) \/ StartForeground(w) PROVE QuietForLease
    BY <1>2 DEF Notify, StartForeground
<1>3. ASSUME NEW w \in Workers, Scan(w) \/ RuntimeDown(w) \/ EnsureRun(w) \/ StartAttempt(w)
      PROVE  QuietForLease
    BY <1>3 DEF Scan, RuntimeDown, EnsureRun, StartAttempt
<1>4. ASSUME NEW w \in Workers, CommitSuccess(w) \/ FinishFailure(w) PROVE QuietForLease
    BY <1>4 DEF CommitSuccess, FinishFailure, NextEvent
<1>5. ASSUME NEW w \in Workers, ClaimRefused(w) \/ Leave(w) \/ Crash(w)
      PROVE  QuietForLease
    BY <1>5 DEF ClaimRefused, Leave, Crash, Exit
<1>6. CASE UNCHANGED vars
    BY <1>6 DEF vars
<1> QED
    BY <1>1, <1>2, <1>3, <1>4, <1>5, <1>6 DEF Next, WorkerStep

LEMMA LeaseStep ==
    TypeOK /\ LocalsFitPc /\ LeaseInv /\ [Next]_vars => LeaseInv'
<1> SUFFICES ASSUME TypeOK, LocalsFitPc, LeaseInv, [Next]_vars PROVE LeaseInv'
    OBVIOUS
<1>. /\ pc \in [Workers -> PCs] /\ stamp \in [Workers -> Nat]
     /\ clock \in Nat /\ leaseUntil \in Nat /\ LeaseTicks \in Nat
     /\ owner \in Leased \cup {NoOwner}
    BY BoundsAssumption DEF TypeOK, LocalsFitPc
<1>. /\ Leased \subseteq Workers /\ NoOwner \notin Leased
     /\ \A w \in Workers : pc[w] \in {"spawned", "claiming"} => w \in Leased
    BY WorkersAssumption DEF Workers, LocalsFitPc
<1> USE DEF LeaseInv, SingleConsumer, Working
<1>1. CASE /\ ~Tick
           /\ \A w \in Workers :
                ~StampClaim(w) /\ ~ClaimGranted(w) /\ ~Release(w) /\ ~Renew(w)
  <2>1. QuietForLease
    BY <1>1, QuietLeaseSteps
  <2> QED
    BY <2>1 DEF QuietForLease
<1>2. CASE Tick
    BY <1>2 DEF Tick, locals, wakeup
<1>3. ASSUME NEW w \in Workers, StampClaim(w) PROVE LeaseInv'
    BY <1>3 DEF StampClaim, wakeup
<1>4. ASSUME NEW w \in Workers, ClaimGranted(w) PROVE LeaseInv'
  <2>1. /\ pc[w] = "claiming" /\ pc' = [pc EXCEPT ![w] = "scan"]
        /\ owner' = w /\ leaseUntil' = stamp[w] + LeaseTicks
        /\ stamp' = stamp /\ clock' = clock
        /\ w \in Leased
    BY <1>4 DEF ClaimGranted
  <2>2. owner \notin {NoOwner, w} => leaseUntil <= stamp[w]
    BY <1>4 DEF ClaimGranted, LeaseHeldAgainst
  <2>3. ASSUME NEW v \in Leased, pc'[v] \in Working, owner' # v
        PROVE  stamp'[v] + LeaseTicks <= clock'
    BY <2>1, <2>2, <2>3
  <2> QED
    BY <2>1, <2>3
<1>5. ASSUME NEW w \in Workers, Release(w) PROVE LeaseInv'
    BY <1>5 DEF Release, Exit
<1>6. ASSUME NEW w \in Workers, Renew(w) PROVE LeaseInv'
    BY <1>6 DEF Renew, CycleOver
<1> QED
    BY <1>1, <1>2, <1>3, <1>4, <1>5, <1>6

(* A worker whose lease claim_extraction_worker gave to another had the    *)
(* whole of its first lease, for every number of workers and lease length. *)
THEOREM LeaseExcludes == Spec => []SingleConsumer
<1>1. Init => LeaseInv
    BY WorkersAssumption DEF Init, LeaseInv, SingleConsumer, Working, Workers
<1>2. LeaseInv => SingleConsumer
    BY DEF LeaseInv
<1> QED BY <1>1, <1>2, LeaseStep, TypeCorrect, PTL DEF Spec

-----------------------------------------------------------------------------
(* No wakeup is lost: while nothing fails, the generation counts the       *)
(* signals, an owner that has seen the latest generation has every         *)
(* unattempted event in its list, and as long as there is one, somebody    *)
(* owns the lease or is about to claim it.                                 *)
Unattempted == {e \in 1..head : starts[e] = 0}

Listed(w) == \A e \in Unattempted : e \in queue[w] \/ e = event[w]

WakeInv ==
    /\ faults = 0 => head = due + generation
    /\ \A w \in Leased : pc[w] \in Working => observed[w] <= generation
    /\ faults = 0 /\ owner # NoOwner => pc[owner] \in Working
    /\ faults = 0 /\ due = 0 => \A w \in Leased :
        owner = w /\ pc[w] # "scan" /\ observed[w] = generation => Listed(w)
    /\ faults = 0 /\ due = 0 =>
        \/ Unattempted = {}
        \/ owner # NoOwner
        \/ \E w \in Leased : pc[w] \in {"spawned", "claiming"}

LEMMA WakeImplies == TypeOK /\ LocalsFitPc /\ WakeInv => NoWakeupLost
<1> SUFFICES ASSUME TypeOK, LocalsFitPc, WakeInv, faults = 0, due = 0,
                    NEW e \in 1..head, starts[e] = 0
             PROVE  \E w \in Workers : Ahead(w, e)
    BY DEF NoWakeupLost
<1>. Leased \subseteq Workers /\ e \in Unattempted
    BY DEF Workers, Unattempted
<1>1. CASE \E w \in Leased : pc[w] \in {"spawned", "claiming"}
    BY <1>1 DEF Ahead
<1>2. CASE owner # NoOwner
  <2>1. owner \in Leased /\ pc[owner] \in Working /\ observed[owner] <= generation
    BY <1>2 DEF WakeInv, LocalsFitPc
  <2>2. observed[owner] \in Nat /\ generation \in Nat
    BY <2>1 DEF TypeOK, Workers
  <2>3. pc[owner] = "scan" \/ observed[owner] < generation \/ Listed(owner)
    BY <2>1, <2>2 DEF WakeInv
  <2> QED
    BY <2>1, <2>3 DEF Ahead, Listed
<1> QED
    BY <1>1, <1>2 DEF WakeInv

(* Steps that leave the wakeup row and every worker's claim alone.         *)
QuietForWake ==
    /\ UNCHANGED <<head, due, generation, owner, faults, observed>>
    /\ Unattempted' \subseteq Unattempted
    /\ \A v \in Leased :
        /\ pc[v] \in Working <=> pc'[v] \in Working
        /\ pc[v] \in {"spawned", "claiming"} <=> pc'[v] \in {"spawned", "claiming"}
        /\ owner = v /\ observed[v] = generation /\ pc'[v] # "scan" =>
            pc[v] # "scan" /\ (Listed(v) => Listed(v)')

LEMMA QuietWakeKeeps ==
    ASSUME LocalsFitPc, WakeInv, QuietForWake
    PROVE  WakeInv'
BY DEF WakeInv, QuietForWake, LocalsFitPc

LEMMA QuietWakeSteps ==
    ASSUME TypeOK, LocalsFitPc, AttemptRowsNeverCollide, NEW w \in Workers,
           \/ StartForeground(w) \/ StampClaim(w) \/ EnsureRun(w) \/ StartAttempt(w)
           \/ CommitSuccess(w) \/ FinishFailure(w)
    PROVE  QuietForWake
<1>. /\ pc \in [Workers -> PCs] /\ queue \in [Workers -> SUBSET Events]
     /\ event \in [Workers -> 0..MaxEvents] /\ starts \in [Events -> Nat]
     /\ head \in 0..MaxEvents /\ MaxEvents \in Nat /\ 1..head \subseteq Events
    BY BoundsAssumption DEF TypeOK, Events
<1>. /\ Leased \subseteq Workers /\ \A f \in Foreground : f \notin Leased
     /\ 0 \notin Unattempted
    BY WorkersAssumption DEF Workers, Unattempted
<1>a. \A v \in Workers : pc[v] \in {"ensured", "infer"} <=> event[v] # 0
    BY DEF LocalsFitPc
<1> USE DEF QuietForWake, Working, Unattempted, wakeup, ledger, locals
<1>1. CASE StartForeground(w)
    BY <1>1 DEF StartForeground, Listed
<1>2. CASE StampClaim(w)
    BY <1>2 DEF StampClaim, Listed
<1>3. CASE EnsureRun(w)
  <2>1. PICK e \in queue[w] : /\ event' = [event EXCEPT ![w] = e]
                              /\ queue' = [queue EXCEPT ![w] = @ \ {e}]
    BY <1>3 DEF EnsureRun
  <2>2. pc[w] = "work" /\ event[w] = 0 /\ pc' = [pc EXCEPT ![w] = "ensured"]
        /\ UNCHANGED <<head, due, generation, owner, faults, observed, starts>>
    BY <1>3, <1>a DEF EnsureRun
  <2>3. \A v \in Leased : Listed(v) => Listed(v)'
    BY <2>1, <2>2 DEF Listed
  <2> QED
    BY <2>2, <2>3
<1>4. CASE StartAttempt(w)
  <2>1. pc[w] = "ensured" /\ pc' = [pc EXCEPT ![w] = "infer"]
        /\ UNCHANGED <<head, due, generation, owner, faults, observed, queue, event>>
    BY <1>4 DEF StartAttempt
  <2>2. \A e \in Events : starts'[e] = 0 => starts[e] = 0
    BY <1>4 DEF StartAttempt, NextAttemptNo
  <2>3. Unattempted' \subseteq Unattempted
    BY <2>1, <2>2
  <2>4. \A v \in Leased : Listed(v) => Listed(v)'
    BY <2>1, <2>3 DEF Listed
  <2> QED
    BY <2>1, <2>3, <2>4
<1>5. CASE CommitSuccess(w) \/ FinishFailure(w)
  <2>1. /\ pc[w] = "infer" /\ pc' = [pc EXCEPT ![w] = "work"]
        /\ event' = [event EXCEPT ![w] = 0]
        /\ UNCHANGED <<head, due, generation, owner, faults, observed, queue, starts>>
    BY <1>5 DEF CommitSuccess, FinishFailure, NextEvent
  <2>2. event[w] \in Events /\ starts[event[w]] \in Nat
        /\ attempt[w] \in 1..starts[event[w]]
    BY <2>1, <1>a DEF AttemptRowsNeverCollide, Events
  <2>3. event[w] \notin Unattempted
    BY <2>2
  <2>4. \A v \in Leased : Listed(v) => Listed(v)'
    BY <2>1, <2>3 DEF Listed
  <2> QED
    BY <2>1, <2>4
<1> QED
    BY <1>1, <1>2, <1>3, <1>4, <1>5

LEMMA WakeStep ==
    TypeOK /\ LocalsFitPc /\ AttemptRowsNeverCollide /\ WakeInv /\ [Next]_vars => WakeInv'
<1> SUFFICES ASSUME TypeOK, LocalsFitPc, AttemptRowsNeverCollide, WakeInv, [Next]_vars
             PROVE  WakeInv'
    OBVIOUS
<1>. /\ pc \in [Workers -> PCs] /\ queue \in [Workers -> SUBSET Events]
     /\ event \in [Workers -> 0..MaxEvents] /\ observed \in [Workers -> Nat]
     /\ starts \in [Events -> Nat] /\ generation \in Nat
     /\ head \in Nat /\ due \in Nat /\ faults \in Nat /\ 1..head \subseteq Events
    BY BoundsAssumption DEF TypeOK, Events
<1>. /\ Leased \subseteq Workers /\ NoOwner \notin Workers
     /\ owner \in Leased \cup {NoOwner}
    BY WorkersAssumption DEF Workers, LocalsFitPc
<1> USE DEF wakeup, ledger, locals
<1>1. CASE AppendEvent
    BY <1>1 DEF AppendEvent, WakeInv
<1>2. CASE LoseNotify
  <2>1. faults' # 0 /\ generation' \in {generation, generation + 1} /\ pc' = pc /\ observed' = observed
    BY <1>2 DEF LoseNotify
  <2>2. \A v \in Leased : pc'[v] \in Working => observed'[v] <= generation'
    BY <2>1 DEF WakeInv
  <2> QED
    BY <2>1, <2>2 DEF WakeInv
<1>3. CASE Tick \/ UNCHANGED vars
    BY <1>3 DEF Tick, vars, WakeInv, Unattempted, Listed
<1>4. ASSUME NEW w \in Workers, Notify(w) PROVE WakeInv'
  <2>1. /\ w \in Leased /\ pc[w] \in {"unused", "spawned"} /\ due > 0
        /\ generation' = generation + 1 /\ due' = due - 1
        /\ pc' = [pc EXCEPT ![w] = "spawned"]
        /\ UNCHANGED <<head, owner, faults, starts, observed, queue, event>>
    BY <1>4 DEF Notify
  <2>2. faults = 0 => owner # w
    BY <2>1 DEF WakeInv, Working
  <2>3. faults = 0 /\ owner # NoOwner => observed[owner] < generation'
    BY <2>1 DEF WakeInv
  <2> QED
    BY <2>1, <2>2, <2>3 DEF WakeInv, Working
<1>5. ASSUME NEW w \in Workers,
             \/ StartForeground(w) \/ StampClaim(w) \/ EnsureRun(w) \/ StartAttempt(w)
             \/ CommitSuccess(w) \/ FinishFailure(w)
      PROVE  WakeInv'
    BY <1>5, QuietWakeSteps, QuietWakeKeeps
<1>6. ASSUME NEW w \in Workers, ClaimRefused(w) PROVE WakeInv'
  <2>1. /\ pc[w] = "claiming" /\ pc' = [pc EXCEPT ![w] = "done"]
        /\ observed' = [observed EXCEPT ![w] = 0]
        /\ \A v \in Workers \ {w} : queue'[v] = queue[v] /\ event'[v] = event[v]
        /\ UNCHANGED <<head, due, generation, owner, faults, starts>>
    BY <1>6 DEF ClaimRefused, Exit
  <2>2. generation = 0 \/ owner # NoOwner
    BY <1>6 DEF ClaimRefused, LeaseHeldAgainst
  <2>3. faults = 0 => owner # w
    BY <2>1 DEF WakeInv, Working
  <2>4. faults = 0 /\ due = 0 => Unattempted' = {} \/ owner # NoOwner
    BY <2>1, <2>2 DEF WakeInv, Unattempted
  <2> QED
    BY <2>1, <2>3, <2>4 DEF WakeInv, Working, Listed, Unattempted
<1>7. ASSUME NEW w \in Workers, ClaimGranted(w) PROVE WakeInv'
  <2>1. /\ pc[w] = "claiming" /\ pc' = [pc EXCEPT ![w] = "scan"] /\ owner' = w
        /\ observed' = [observed EXCEPT ![w] = generation] /\ w \in Leased
        /\ UNCHANGED <<head, due, generation, faults, starts, queue, event>>
    BY <1>7 DEF ClaimGranted, LocalsFitPc, Workers
  <2> QED
    BY <2>1 DEF WakeInv, Working
<1>8. ASSUME NEW w \in Workers, Scan(w) PROVE WakeInv'
  <2>1. PICK rf \in BOOLEAN, last \in 0..head :
            /\ w \in Leased => ~rf /\ last = head
            /\ queue' = [queue EXCEPT ![w] = {e \in Pending(rf) : e <= last}]
    BY <1>8 DEF Scan
  <2>2. /\ pc[w] = "scan" /\ pc' = [pc EXCEPT ![w] = "work"]
        /\ UNCHANGED <<head, due, generation, owner, faults, starts, observed, event>>
    BY <1>8 DEF Scan
  <2>3. Unattempted \subseteq Pending(FALSE)
    <3> SUFFICES ASSUME NEW e \in Unattempted PROVE e \in Pending(FALSE)
        OBVIOUS
    <3>1. e \in 1..head /\ starts[e] = 0
        BY DEF Unattempted
    <3>2. \A a \in attempts : a.event # e
        BY <3>1 DEF AttemptRowsNeverCollide
    <3> QED
        BY <3>1, <3>2 DEF Pending, Succeeded, AttemptsOf
  <2>4. w \in Leased => Listed(w)'
    <3> SUFFICES ASSUME w \in Leased PROVE Listed(w)'
        OBVIOUS
    <3>1. ~rf /\ last = head
        BY <2>1
    <3>2. Pending(FALSE) = Pending(rf)
        BY <3>1, Zenon DEF Pending
    <3>3. queue'[w] = {e \in Pending(FALSE) : e <= head}
        BY <2>1, <3>1, <3>2
    <3>4. Unattempted' = Unattempted /\ \A e \in Unattempted : e <= head
        BY <2>2 DEF Unattempted
    <3>5. \A e \in Unattempted : e \in queue'[w]
        BY <2>3, <3>3, <3>4
    <3> QED
        BY <3>4, <3>5 DEF Listed
  <2>5. \A v \in Workers \ {w} : Listed(v) => Listed(v)'
    BY <2>1, <2>2 DEF Listed, Unattempted
  <2>6. Unattempted' = Unattempted
    BY <2>2 DEF Unattempted
  <2> QED
    BY <2>2, <2>4, <2>5, <2>6 DEF WakeInv, Working
<1>9. ASSUME NEW w \in Workers, RuntimeDown(w) \/ Crash(w) PROVE WakeInv'
  <2>1. /\ faults' # 0 /\ generation' = generation
        /\ \A v \in Leased : pc'[v] \in Working =>
            pc[v] \in Working /\ observed'[v] = observed[v]
    <3>1. CASE RuntimeDown(w)
        BY <3>1 DEF RuntimeDown, Working
    <3>2. CASE Crash(w)
        BY <3>2 DEF Crash, Exit, Working
    <3> QED
        BY <1>9, <3>1, <3>2
  <2>2. \A v \in Leased : pc'[v] \in Working => observed'[v] <= generation'
    BY <2>1 DEF WakeInv
  <2> QED
    BY <2>1, <2>2 DEF WakeInv
<1>10. ASSUME NEW w \in Workers, Release(w) PROVE WakeInv'
  <2>1. /\ pc[w] = "work" /\ queue[w] = {} /\ owner = w /\ generation = observed[w]
        /\ pc' = [pc EXCEPT ![w] = "done"] /\ owner' = NoOwner
        /\ observed' = [observed EXCEPT ![w] = 0]
        /\ UNCHANGED <<head, due, generation, faults, starts>>
    BY <1>10 DEF Release, Exit, CycleOver, Stable
  <2>2. event[w] = 0 /\ 0 \notin Unattempted
    BY <2>1 DEF LocalsFitPc, Unattempted
  <2>3. faults = 0 /\ due = 0 => Unattempted = {}
    BY <2>1, <2>2 DEF WakeInv, Listed
  <2> QED
    BY <2>1, <2>3 DEF WakeInv, Working, Unattempted
<1>11. ASSUME NEW w \in Workers, Renew(w) PROVE WakeInv'
    BY <1>11 DEF Renew, CycleOver, WakeInv, Working, Unattempted
<1>12. ASSUME NEW w \in Workers, Leave(w) PROVE WakeInv'
  <2>1. /\ pc[w] = "work" /\ owner # w /\ pc' = [pc EXCEPT ![w] = "done"]
        /\ observed' = [observed EXCEPT ![w] = 0]
        /\ \A v \in Workers \ {w} : queue'[v] = queue[v] /\ event'[v] = event[v]
        /\ UNCHANGED <<head, due, generation, owner, faults, starts>>
    BY <1>12 DEF Leave, Exit, CycleOver
  <2> QED
    BY <2>1 DEF WakeInv, Working, Listed, Unattempted
<1> QED
    BY <1>1, <1>2, <1>3, <1>4, <1>5, <1>6, <1>7, <1>8, <1>9, <1>10, <1>11, <1>12
    DEF Next, WorkerStep

(* The generation counter of signal_extraction_worker loses no wakeup: with *)
(* no fault, every event that was signalled and never attempted is still   *)
(* ahead of some worker.                                                   *)
THEOREM WakeupsSurvive == Spec => []NoWakeupLost
<1>1. Init => WakeInv
  <2> SUFFICES ASSUME Init PROVE WakeInv
      OBVIOUS
  <2>1. Unattempted = {}
    BY DEF Init, Unattempted
  <2>2. \A w \in Leased : pc[w] = "unused" /\ owner # w
    BY WorkersAssumption DEF Init, Workers
  <2> QED
    BY <2>1, <2>2 DEF Init, WakeInv, Working
<1>2. TypeOK /\ LocalsFitPc /\ WakeInv => NoWakeupLost
    BY WakeImplies
<1> QED BY <1>1, <1>2, WakeStep, TypeCorrect, AttemptNumbering, PTL DEF Spec

-----------------------------------------------------------------------------
(* Every step of the workers is a Commit of the promise or a stutter of it. *)
LEMMA FailuresAreNotSuccesses ==
    ASSUME NEW w \in Workers, FinishFailure(w)
    PROVE  \A e \in Events : Succeeded(e)' <=> Succeeded(e)
<1>1. attempts' = attempts \cup {Row(w, FailureOutcome(w))}
    BY DEF FinishFailure
<1>2. Row(w, FailureOutcome(w)).outcome # "succeeded"
    BY DEF Row, FailureOutcome
<1> QED
    BY <1>1, <1>2 DEF Succeeded

LEMMA PromiseStep ==
    TypeOK /\ LocalsFitPc /\ [Next]_vars => [Promise!Next]_(Promise!vars)
<1> SUFFICES ASSUME TypeOK, LocalsFitPc, [Next]_vars
             PROVE  [Promise!Next]_(Promise!vars)
    OBVIOUS
<1> DEFINE Done == {e \in Events : Succeeded(e)}
<1> USE DEF Promise!Next, Promise!vars
<1>1. ASSUME NEW w \in Workers, CommitSuccess(w) PROVE Promise!Next
  <2> DEFINE e == event[w]
  <2>1. e \in Events
    BY <1>1, BoundsAssumption DEF CommitSuccess, LocalsFitPc, TypeOK, Events
  <2>2. attempts' = attempts \cup {Row(w, "succeeded")}
        /\ Row(w, "succeeded").event = e /\ Row(w, "succeeded").outcome = "succeeded"
    BY <1>1 DEF CommitSuccess, Row
  <2>3. Done' = Done \cup {e}
    BY <2>1, <2>2 DEF Succeeded
  <2>4. PICK new \in SUBSET Contents :
            /\ \A c \in new : \A m \in memories : m.content # c
            /\ memories' = memories \cup {[content |-> c, event |-> e] : c \in new}
    BY <1>1, CommitWrites DEF RowsWritten
  <2>5. new \subseteq Contents \ Promise!Taken
    BY <2>4 DEF Promise!Taken
  <2>6. Promise!Commit(e)
    BY <2>3, <2>4, <2>5 DEF Promise!Commit
  <2> QED
    BY <2>1, <2>6
<1>2. ASSUME NEW w \in Workers, FinishFailure(w) PROVE UNCHANGED Promise!vars
  <2>1. Done' = Done
    BY <1>2, FailuresAreNotSuccesses
  <2> QED
    BY <1>2, <2>1 DEF FinishFailure
<1>3. CASE UNCHANGED <<attempts, memories>>
    BY <1>3 DEF Succeeded
<1>4. CASE \A w \in Workers : ~CommitSuccess(w) /\ ~FinishFailure(w)
  <2>1. UNCHANGED <<attempts, memories>>
    BY <1>4 DEF Next, WorkerStep, vars, ledger, AppendEvent, LoseNotify, Tick, Notify,
       StartForeground, StampClaim, ClaimRefused, ClaimGranted, Scan, RuntimeDown,
       EnsureRun, StartAttempt, Release, Renew, Leave, Crash
  <2> QED
    BY <1>3, <2>1
<1> QED
    BY <1>1, <1>2, <1>4

(* Workers, lease, retries and repeated inference implement the promise of *)
(* extraction: commit_extraction_success publishes each content once, with *)
(* a success of the event it cites, and nothing is ever undone.            *)
THEOREM KeepsPromise == Spec => PromiseSpec
<1>1. Init => Promise!Init
    BY DEF Init, Promise!Init, Succeeded
<1> QED BY <1>1, PromiseStep, TypeCorrect, PTL DEF Spec, PromiseSpec, Promise!Spec

-----------------------------------------------------------------------------
(* Lineage: what the rows that a success writes have to do with each       *)
(* other.  Only a success writes them.                                     *)
KeysUnique ==
    /\ \A j, k \in candidates : j.event = k.event /\ j.proposal = k.proposal => j = k
    /\ \A j, k \in links : j.event = k.event /\ j.proposal = k.proposal => j = k
    /\ \A j, k \in memories : j.content = k.content => j = k

LinksGrounded ==
    \A l \in links :
        /\ [content |-> Content[l.proposal], event |-> l.source] \in memories
        /\ [event |-> l.event, proposal |-> l.proposal, status |-> "auto"] \in candidates
        /\ Succeeded(l.event) /\ Succeeded(l.source)

AutoLinked ==
    \A k \in candidates : k.status = "auto" =>
        \E l \in links : l.event = k.event /\ l.proposal = k.proposal

MemoriesLinked ==
    \A m \in memories : \E l \in links :
        Content[l.proposal] = m.content /\ l.event = m.event /\ l.source = m.event

LineageInv == KeysUnique /\ LinksGrounded /\ AutoLinked /\ MemoriesLinked

LEMMA LineageImplies == TypeOK /\ LineageInv => LineageComplete
<1> SUFFICES ASSUME TypeOK, LineageInv PROVE LineageComplete
  OBVIOUS
<1>1. ASSUME NEW k \in candidates
      PROVE  Cardinality({l \in links : l.event = k.event /\ l.proposal = k.proposal})
               = (IF k.status = "auto" THEN 1 ELSE 0)
  <2> DEFINE L == {l \in links : l.event = k.event /\ l.proposal = k.proposal}
  <2>1. CASE k.status = "auto"
    <3>1. PICK l \in links : l.event = k.event /\ l.proposal = k.proposal
      BY <2>1 DEF LineageInv, AutoLinked
    <3>2. L = {l}
      BY <3>1 DEF LineageInv, KeysUnique
    <3> HIDE DEF L
    <3>3. Cardinality(L) = 1
      BY <3>2, FS_Singleton
    <3> QED BY <2>1, <3>3 DEF L
  <2>2. CASE k.status # "auto"
    <3>1. ASSUME NEW l \in L PROVE FALSE
      <4>1. [event |-> k.event, proposal |-> k.proposal, status |-> "auto"] \in candidates
        BY DEF LineageInv, LinksGrounded
      <4>2. k = [event |-> k.event, proposal |-> k.proposal, status |-> "auto"]
        BY <4>1 DEF LineageInv, KeysUnique
      <4> QED BY <2>2, <4>2
    <3>2. L = {}
      BY <3>1
    <3> HIDE DEF L
    <3>3. Cardinality(L) = 0
      BY <3>2, FS_EmptySet
    <3> QED BY <2>2, <3>3 DEF L
  <2> QED BY <2>1, <2>2
<1> QED BY <1>1 DEF LineageComplete, LineageInv, LinksGrounded, MemoriesLinked

LEMMA CommitKeepsLineage ==
    ASSUME TypeOK, LocalsFitPc, LineageInv, NEW w \in Workers, CommitSuccess(w)
    PROVE  LineageInv'
<1>1. PICK fresh \in SUBSET Proposals, auto \in SUBSET Proposals, new \in SUBSET Contents :
        RowsWritten(event[w], fresh, auto, new)
  BY CommitWrites
<1>2. PICK f : f = event[w]
  OBVIOUS
<1>3. f \in Events /\ attempts' = attempts \cup {Row(w, "succeeded")}
  BY <1>2, RowTyped, Zenon DEF CommitSuccess
<1>4. /\ auto \subseteq fresh /\ \A p \in auto : Content[p] \in Contents
      /\ \A p \in fresh, k \in candidates : ~(k.event = f /\ k.proposal = p)
      /\ \A c \in new : /\ \A m \in memories : m.content # c
                       /\ \E p \in auto : Content[p] = c
      /\ \A c \in Contents \ new :
            (\E p \in auto : Content[p] = c) => \E m \in memories : m.content = c
  BY <1>1, <1>2, ContentAssumption DEF RowsWritten
\* The new rows, one by one.
<1>5. \A k : k \in candidates' <=>
        \/ k \in candidates
        \/ \E p \in auto : k = [event |-> f, proposal |-> p, status |-> "auto"]
        \/ \E p \in fresh \ auto : k = [event |-> f, proposal |-> p, status |-> "quarantined"]
  BY <1>1, <1>2 DEF RowsWritten
<1>6. \A m : m \in memories' <=>
        m \in memories \/ \E c \in new : m = [content |-> c, event |-> f]
  BY <1>1, <1>2 DEF RowsWritten
<1>7. \A l : l \in links' <=>
        \/ l \in links
        \/ \E p \in auto, d \in Events :
              /\ l = [event |-> f, proposal |-> p, source |-> d]
              /\ [content |-> Content[p], event |-> d] \in memories'
  <2> DEFINE Rows == [event : {f}, proposal : auto, source : Events]
             Kept == {l \in Rows : [content |-> Content[l.proposal], event |-> l.source]
                                      \in memories'}
  <2>1. links' = links \cup Kept
    BY <1>1, <1>2, Zenon DEF RowsWritten
  <2>2. ASSUME NEW l \in Kept
        PROVE  \E p \in auto, d \in Events :
                 /\ l = [event |-> f, proposal |-> p, source |-> d]
                 /\ [content |-> Content[p], event |-> d] \in memories'
    <3>1. /\ l = [event |-> f, proposal |-> l.proposal, source |-> l.source]
          /\ l.proposal \in auto /\ l.source \in Events
      OBVIOUS
    <3>2. [content |-> Content[l.proposal], event |-> l.source] \in memories'
      OBVIOUS
    <3> QED BY <3>1, <3>2
  <2>3. ASSUME NEW p \in auto, NEW d \in Events,
               [content |-> Content[p], event |-> d] \in memories'
        PROVE  [event |-> f, proposal |-> p, source |-> d] \in Kept
    BY <2>3
  <2> HIDE DEF Kept
  <2> QED BY <2>1, <2>2, <2>3
<1>8. /\ Succeeded(f)' /\ \A d : Succeeded(d) => Succeeded(d)'
  <2>1. Row(w, "succeeded").event = f /\ Row(w, "succeeded").outcome = "succeeded"
    BY <1>2 DEF Row
  <2> QED BY <1>3, <2>1 DEF Succeeded
<1>9. /\ \A k \in candidates : k = [event |-> k.event, proposal |-> k.proposal, status |-> k.status]
      /\ \A l \in links : l = [event |-> l.event, proposal |-> l.proposal, source |-> l.source]
      /\ \A m \in memories : m = [content |-> m.content, event |-> m.event] /\ m.event \in Events
  BY DEF TypeOK
<1>10. \A p \in fresh, l \in links : ~(l.event = f /\ l.proposal = p)
  <2> SUFFICES ASSUME NEW l \in links, l.event = f, l.proposal \in fresh PROVE FALSE
    OBVIOUS
  <2>1. [event |-> l.event, proposal |-> l.proposal, status |-> "auto"] \in candidates
    BY DEF LineageInv, LinksGrounded
  <2> QED BY <1>4, <2>1
<1>11. \A m, n \in memories' : m.content = n.content => m = n
  BY <1>4, <1>6 DEF LineageInv, KeysUnique
<1>12. \A m \in memories' : /\ m = [content |-> m.content, event |-> m.event]
                            /\ m.event \in Events /\ Succeeded(m.event)'
  <2>1. \A m \in memories : Succeeded(m.event)
    BY DEF LineageInv, MemoriesLinked, LinksGrounded
  <2> QED BY <1>3, <1>6, <1>8, <1>9, <2>1
<1>13. \A p \in auto : \E m \in memories' : m.content = Content[p]
  <2> TAKE p \in auto
  <2>1. CASE Content[p] \in new
    <3>1. [content |-> Content[p], event |-> f] \in memories'
      BY <1>6, <2>1
    <3> QED BY <3>1
  <2>2. CASE Content[p] \notin new
    <3>1. PICK m \in memories : m.content = Content[p]
      BY <1>4, <2>2
    <3> QED BY <1>6, <3>1
  <2> QED BY <2>1, <2>2
<1>14. KeysUnique'
  <2>1. \A j, k \in candidates' : j.event = k.event /\ j.proposal = k.proposal => j = k
    <3> SUFFICES ASSUME NEW j \in candidates', NEW k \in candidates',
                        j.event = k.event, j.proposal = k.proposal
                 PROVE  j = k
      OBVIOUS
    <3>1. CASE j \in candidates /\ k \in candidates
      BY <3>1 DEF LineageInv, KeysUnique
    <3>2. ASSUME NEW i \in candidates', i \notin candidates
          PROVE  /\ i.event = f /\ i.proposal \in fresh
                 /\ i = [event |-> f, proposal |-> i.proposal,
                          status |-> IF i.proposal \in auto THEN "auto" ELSE "quarantined"]
      BY <1>4, <1>5, <3>2
    <3>3. CASE j \in candidates /\ k \notin candidates
      BY <1>4, <3>2, <3>3
    <3>4. CASE j \notin candidates /\ k \in candidates
      BY <1>4, <3>2, <3>4
    <3>5. CASE j \notin candidates /\ k \notin candidates
      BY <3>2, <3>5
    <3> QED BY <3>1, <3>3, <3>4, <3>5
  <2>2. \A j, k \in links' : j.event = k.event /\ j.proposal = k.proposal => j = k
    <3> SUFFICES ASSUME NEW j \in links', NEW k \in links',
                        j.event = k.event, j.proposal = k.proposal
                 PROVE  j = k
      OBVIOUS
    <3>1. CASE j \in links /\ k \in links
      BY <3>1 DEF LineageInv, KeysUnique
    <3>2. ASSUME NEW l \in links', l \notin links
          PROVE  /\ l.event = f /\ l.proposal \in fresh
                 /\ l = [event |-> f, proposal |-> l.proposal, source |-> l.source]
                 /\ [content |-> Content[l.proposal], event |-> l.source] \in memories'
      <4>1. PICK p \in auto, d \in Events :
              /\ l = [event |-> f, proposal |-> p, source |-> d]
              /\ [content |-> Content[p], event |-> d] \in memories'
        BY <1>7, <3>2
      <4>2. l.event = f /\ l.proposal = p /\ l.source = d
        BY <4>1
      <4> QED BY <1>4, <4>1, <4>2
    <3>3. CASE j \in links /\ k \notin links
      BY <1>10, <3>2, <3>3
    <3>4. CASE j \notin links /\ k \in links
      BY <1>10, <3>2, <3>4
    <3>5. CASE j \notin links /\ k \notin links
      <4>1. [content |-> Content[j.proposal], event |-> j.source]
              = [content |-> Content[k.proposal], event |-> k.source]
        BY <1>11, <3>2, <3>5
      <4>2. j.source = k.source
        BY <4>1
      <4> QED BY <3>2, <3>5, <4>2
    <3> QED BY <3>1, <3>3, <3>4, <3>5
  <2> QED BY <1>11, <2>1, <2>2 DEF KeysUnique
<1>15. LinksGrounded'
  <2> SUFFICES ASSUME NEW l \in links'
               PROVE  /\ [content |-> Content[l.proposal], event |-> l.source] \in memories'
                      /\ [event |-> l.event, proposal |-> l.proposal, status |-> "auto"]
                            \in candidates'
                      /\ Succeeded(l.event)' /\ Succeeded(l.source)'
    BY DEF LinksGrounded, Succeeded
  <2>1. CASE l \in links
    BY <1>5, <1>6, <1>8, <2>1 DEF LineageInv, LinksGrounded
  <2>2. ASSUME NEW p \in auto, NEW d \in Events,
               l = [event |-> f, proposal |-> p, source |-> d],
               [content |-> Content[p], event |-> d] \in memories'
        PROVE  /\ [content |-> Content[l.proposal], event |-> l.source] \in memories'
               /\ [event |-> l.event, proposal |-> l.proposal, status |-> "auto"]
                     \in candidates'
               /\ Succeeded(l.event)' /\ Succeeded(l.source)'
    <3>1. Succeeded(d)'
      <4>1. \E m \in memories' : m.event = d
        BY <2>2
      <4> QED BY <1>12, <4>1
    <3> QED BY <1>5, <1>8, <2>2, <3>1
  <2> QED BY <1>7, <2>1, <2>2
<1>16. \A p \in auto, m \in memories' : m.content = Content[p] =>
         [event |-> f, proposal |-> p, source |-> m.event] \in links'
  BY <1>7, <1>12
<1>17. AutoLinked'
  <2> SUFFICES ASSUME NEW k \in candidates', k.status = "auto"
               PROVE  \E l \in links' : l.event = k.event /\ l.proposal = k.proposal
    BY DEF AutoLinked
  <2>1. CASE k \in candidates
    BY <1>7, <2>1 DEF LineageInv, AutoLinked
  <2>2. ASSUME NEW p \in auto, k = [event |-> f, proposal |-> p, status |-> "auto"]
        PROVE  \E l \in links' : l.event = k.event /\ l.proposal = k.proposal
    <3>1. PICK m \in memories' : m.content = Content[p]
      BY <1>13
    <3>2. [event |-> f, proposal |-> p, source |-> m.event] \in links'
      BY <1>16, <3>1
    <3> QED BY <2>2, <3>2
  <2> QED BY <1>5, <2>1, <2>2
<1>18. MemoriesLinked'
  <2> SUFFICES ASSUME NEW m \in memories'
               PROVE  \E l \in links' : /\ Content[l.proposal] = m.content
                                        /\ l.event = m.event /\ l.source = m.event
    BY DEF MemoriesLinked
  <2>1. CASE m \in memories
    BY <1>7, <2>1 DEF LineageInv, MemoriesLinked
  <2>2. ASSUME NEW c \in new, m = [content |-> c, event |-> f]
        PROVE  \E l \in links' : /\ Content[l.proposal] = m.content
                                 /\ l.event = m.event /\ l.source = m.event
    <3>1. PICK p \in auto : Content[p] = c
      BY <1>4
    <3>2. [event |-> f, proposal |-> p, source |-> m.event] \in links'
      BY <1>16, <2>2, <3>1
    <3> QED BY <2>2, <3>1, <3>2
  <2> QED BY <1>6, <2>1, <2>2
<1> QED BY <1>14, <1>15, <1>17, <1>18 DEF LineageInv

\* No other step writes a candidate, a memory or a link, or undoes a success.
LEMMA LineageStep ==
    TypeOK /\ LocalsFitPc /\ LineageInv /\ [Next]_vars => LineageInv'
<1> SUFFICES ASSUME TypeOK, LocalsFitPc, LineageInv, [Next]_vars PROVE LineageInv'
  OBVIOUS
<1>1. CASE \E w \in Workers : CommitSuccess(w)
  BY <1>1, CommitKeepsLineage
<1>2. CASE \A w \in Workers : ~CommitSuccess(w)
  <2>1. UNCHANGED <<candidates, memories, links>> /\ attempts \subseteq attempts'
    BY <1>2 DEF Next, WorkerStep, vars, ledger, AppendEvent, LoseNotify, Tick, Notify,
       StartForeground, StampClaim, ClaimRefused, ClaimGranted, Scan, RuntimeDown,
       EnsureRun, StartAttempt, FinishFailure, Release, Renew, Leave, Crash
  <2>2. \A d : Succeeded(d) => Succeeded(d)'
    BY <2>1 DEF Succeeded
  <2>3. LinksGrounded'
    BY <2>1, <2>2, Zenon DEF LineageInv, LinksGrounded
  <2>4. KeysUnique' /\ AutoLinked' /\ MemoriesLinked'
    BY <2>1 DEF LineageInv, KeysUnique, AutoLinked, MemoriesLinked
  <2> QED BY <2>3, <2>4 DEF LineageInv
<1> QED BY <1>1, <1>2

(* An accepted candidate is linked to one memory of its text, which its own *)
(* or an earlier event published, and a memory to a candidate of the event *)
(* it cites, however often inference is repeated, by whatever worker and   *)
(* from whatever span (commit_extraction_success of storage.py).           *)
THEOREM LineageIsComplete == Spec => []LineageComplete
<1>1. Init => LineageInv
  BY DEF Init, LineageInv, KeysUnique, LinksGrounded, AutoLinked, MemoriesLinked
<1>2. TypeOK /\ LineageInv => LineageComplete
  BY LineageImplies
<1> QED BY <1>1, <1>2, LineageStep, TypeCorrect, PTL DEF Spec

-----------------------------------------------------------------------------
(* Two readers of the attempt rows.  Runs are opened for committed events, *)
(* and a failure is called retryable only below the limit, so the latest   *)
(* row says the same to the view and to the query of the backlog.          *)
BacklogInv ==
    /\ runs \subseteq 1..head
    /\ \A w \in Workers : queue[w] \subseteq 1..head
    /\ \A a \in attempts : a.outcome = "retryable_failure" => a.no < MaxRetries

LEMMA BacklogStep ==
    TypeOK /\ LocalsFitPc /\ BacklogInv /\ [Next]_vars => BacklogInv'
<1> SUFFICES ASSUME TypeOK, LocalsFitPc, BacklogInv, [Next]_vars PROVE BacklogInv'
  OBVIOUS
<1>0. /\ head \in Nat /\ queue \in [Workers -> SUBSET Events]
      /\ runs \subseteq 1..head /\ \A w \in Workers : queue[w] \subseteq 1..head
      /\ \A a \in attempts : a.outcome = "retryable_failure" => a.no < MaxRetries
  BY DEF TypeOK, BacklogInv
<1>1. CASE AppendEvent
  <2>1. head' = head + 1 /\ UNCHANGED <<runs, queue, attempts>>
    BY <1>1 DEF AppendEvent, ledger, locals
  <2>2. 1..head \subseteq 1..head'
    BY <1>0, <2>1
  <2> QED BY <1>0, <2>1, <2>2 DEF BacklogInv
<1>2. ASSUME NEW w \in Workers, Scan(w) PROVE BacklogInv'
  <2>1. PICK rf \in BOOLEAN, last \in 0..head :
          queue' = [queue EXCEPT ![w] = {e \in Pending(rf) : e <= last}]
    BY <1>2 DEF Scan
  <2>2. {e \in Pending(rf) : e <= last} \subseteq 1..head
    BY DEF Pending
  <2>3. \A v \in Workers : queue'[v] \subseteq 1..head
    BY <1>0, <2>1, <2>2
  <2>4. UNCHANGED <<head, runs, attempts>>
    BY <1>2 DEF Scan, ledger
  <2> QED BY <1>0, <2>3, <2>4 DEF BacklogInv
<1>3. ASSUME NEW w \in Workers, EnsureRun(w) PROVE BacklogInv'
  <2>1. PICK e \in queue[w] :
          runs' = runs \cup {e} /\ queue' = [queue EXCEPT ![w] = @ \ {e}]
    BY <1>3 DEF EnsureRun
  <2>2. \A v \in Workers : queue'[v] \subseteq queue[v]
    BY <1>0, <2>1
  <2>3. UNCHANGED <<head, attempts>>
    BY <1>3 DEF EnsureRun
  <2>4. \A v \in Workers : queue'[v] \subseteq 1..head
    BY <1>0, <2>2
  <2>5. runs' \subseteq 1..head
    BY <1>0, <2>1
  <2> QED BY <1>0, <2>3, <2>4, <2>5 DEF BacklogInv
<1>4. ASSUME NEW w \in Workers, FinishFailure(w) PROVE BacklogInv'
  <2>1. attempts' = attempts \cup {Row(w, FailureOutcome(w))}
    BY <1>4 DEF FinishFailure
  <2>2. /\ Row(w, FailureOutcome(w)).no = attempt[w]
        /\ Row(w, FailureOutcome(w)).outcome = "retryable_failure" => attempt[w] < MaxRetries
    BY DEF Row, FailureOutcome
  <2>3. UNCHANGED <<head, runs, queue>>
    BY <1>4 DEF FinishFailure, NextEvent
  <2> QED BY <1>0, <2>1, <2>2, <2>3 DEF BacklogInv
<1>5. ASSUME NEW w \in Workers, CommitSuccess(w) PROVE BacklogInv'
  <2>1. attempts' = attempts \cup {Row(w, "succeeded")}
    BY <1>5, Zenon DEF CommitSuccess
  <2>2. Row(w, "succeeded").outcome # "retryable_failure"
    BY DEF Row
  <2>3. UNCHANGED <<head, runs, queue>>
    BY <1>5, Zenon DEF CommitSuccess, NextEvent
  <2> QED BY <1>0, <2>1, <2>2, <2>3 DEF BacklogInv
<1>6. ASSUME NEW w \in Workers, Exit(w, "done") \/ Exit(w, "dead"),
             UNCHANGED <<head, runs, attempts>>
      PROVE  BacklogInv'
  <2>1. \A v \in Workers : queue'[v] \subseteq queue[v]
    BY <1>0, <1>6 DEF Exit
  <2>2. \A v \in Workers : queue'[v] \subseteq 1..head
    BY <1>0, <2>1
  <2> QED BY <1>0, <1>6, <2>2 DEF BacklogInv
<1>7. ASSUME NEW w \in Workers,
             ClaimRefused(w) \/ Release(w) \/ Leave(w) \/ Crash(w)
      PROVE  BacklogInv'
  BY <1>6, <1>7 DEF ClaimRefused, Release, Leave, Crash, ledger
<1>8. CASE UNCHANGED <<head, runs, queue, attempts>>
  BY <1>8 DEF BacklogInv
<1>9. ASSUME NEW w \in Workers,
             \/ Notify(w) \/ StartForeground(w) \/ StampClaim(w) \/ ClaimGranted(w)
             \/ RuntimeDown(w) \/ StartAttempt(w) \/ Renew(w)
      PROVE  BacklogInv'
  BY <1>8, <1>9 DEF Notify, StartForeground, StampClaim, ClaimGranted, RuntimeDown,
     StartAttempt, Renew, ledger, locals
<1>10. CASE LoseNotify \/ Tick \/ UNCHANGED vars
  BY <1>8, <1>10 DEF LoseNotify, Tick, vars, ledger, locals
<1> QED
  BY <1>1, <1>2, <1>3, <1>4, <1>5, <1>7, <1>9, <1>10 DEF Next, WorkerStep

\* A non-empty set of numbers up to a bound has a greatest element.
LEMMA MaxExists ==
    ASSUME NEW k \in Nat, NEW T \in SUBSET (0..k), T # {}
    PROVE  \E x \in T : \A y \in T : y <= x
<1> DEFINE Above(x) == {y \in 0..k : x < y}
           A == {Above(x) : x \in T}
           R == StrictSubsetOrdering(0..k)
<1>1. IsFiniteSet(0..k)
  BY FS_Interval
<1>2. IsWellFoundedOn(R, SUBSET (0..k))
  BY <1>1, FS_StrictSubsetOrderingWellFounded, FS_FiniteSubsetsOfFinite, Zenon
<1>3. A \subseteq SUBSET (0..k) /\ A # {}
  OBVIOUS
<1>4. \E a \in A : \A b \in A : ~(<<b, a>> \in R)
  <2> HIDE DEF A, R
  <2> QED BY <1>2, <1>3, WFMin, Zenon
<1>5. PICK x \in T : \A y \in T : ~(<<Above(y), Above(x)>> \in R)
  BY <1>4
<1>6. ASSUME NEW y \in T, ~(y <= x) PROVE FALSE
  <2>1. Above(y) \subseteq Above(x)
    BY <1>6
  <2>2. y \in Above(x) /\ y \notin Above(y)
    BY <1>6
  <2>3. <<Above(y), Above(x)>> \in R
    <3>1. Above(y) # Above(x)
      BY <2>2
    <3> HIDE DEF Above
    <3>2. Above(y) \in SUBSET (0..k) /\ Above(x) \in SUBSET (0..k)
      BY DEF Above
    <3> QED BY <3>1, <3>2, <2>1 DEF StrictSubsetOrdering
  <2> QED BY <2>3, <1>5
<1> QED BY <1>6

\* An event that was attempted has one latest attempt.
LEMMA LatestRow ==
    ASSUME TypeOK, AttemptRowsNeverCollide, NEW e \in Events, AttemptsOf(e) # {}
    PROVE  \E a \in AttemptsOf(e) : Latest(e) = {a}
<1>1. /\ \A a \in AttemptsOf(e) : a \in attempts /\ a.event = e /\ a.no \in 1..starts[e]
      /\ starts[e] \in Nat
  BY DEF TypeOK, AttemptsOf, AttemptRowsNeverCollide
<1> DEFINE T == {a.no : a \in AttemptsOf(e)}
<1>2. T \in SUBSET (0..starts[e]) /\ T # {}
  BY <1>1
<1>3. \E x \in T : \A y \in T : y <= x
  <2> HIDE DEF T
  <2> QED BY <1>1, <1>2, MaxExists
<1>4. PICK a \in AttemptsOf(e) : \A b \in AttemptsOf(e) : b.no <= a.no
  BY <1>3
<1>5. \A b \in AttemptsOf(e) : a.no <= b.no => b = a
  BY <1>1, <1>4 DEF AttemptRowsNeverCollide
<1>6. Latest(e) = {a}
  BY <1>4, <1>5 DEF Latest
<1> QED BY <1>6

LEMMA BacklogImplies ==
    TypeOK /\ AttemptRowsNeverCollide /\ BacklogInv => StatusAgreesWithBacklog
<1> SUFFICES ASSUME TypeOK, AttemptRowsNeverCollide, BacklogInv, NEW e \in runs
             PROVE  e \in Pending(FALSE)
                      <=> RunStatus(e) \in {"pending", "running", "retryable"}
  BY DEF StatusAgreesWithBacklog
<1>1. e \in Events /\ e \in 1..head
  BY DEF TypeOK, BacklogInv
<1>2. e \in Pending(FALSE) <=> ~Succeeded(e) /\ (AttemptsOf(e) = {} \/ LatestRetryable(e))
  BY <1>1 DEF Pending
<1>3. CASE Succeeded(e)
  <2>1. RunStatus(e) = "done"
    BY <1>3 DEF RunStatus, AttemptsOf, Succeeded
  <2> QED BY <1>2, <1>3, <2>1
<1>4. CASE ~Succeeded(e) /\ AttemptsOf(e) = {}
  <2>1. Latest(e) = {}
    BY <1>4 DEF Latest
  <2>2. ~LatestOutcomeIn(e, {"terminal_failure"}) /\ ~LatestOutcomeIn(e, {"retryable_failure"})
    BY <2>1 DEF LatestOutcomeIn
  <2>3. RunStatus(e) \in {"pending", "running", "retryable"}
    BY <1>4, <2>2 DEF RunStatus
  <2> QED BY <1>2, <1>4, <2>3
<1>5. CASE ~Succeeded(e) /\ AttemptsOf(e) # {}
  <2>1. PICK a \in AttemptsOf(e) : Latest(e) = {a}
    BY <1>1, <1>5, LatestRow
  <2>2. a \in attempts /\ a.outcome \in Outcomes /\ a.event = e
    BY DEF AttemptsOf, TypeOK
  <2>3. a.outcome \in {"retryable_failure", "terminal_failure"}
    BY <1>5, <2>2 DEF Succeeded, Outcomes, Failures
  <2>4. \A o : LatestOutcomeIn(e, {o}) <=> a.outcome = o
    BY <2>1 DEF LatestOutcomeIn
  <2>5. CASE a.outcome = "retryable_failure"
    <3>1. LatestRetryable(e)
      BY <2>1, <2>2, <2>5 DEF LatestRetryable, BacklogInv
    <3>2. RunStatus(e) = "retryable"
      BY <1>5, <2>4, <2>5 DEF RunStatus
    <3> QED BY <1>2, <1>5, <3>1, <3>2
  <2>6. CASE a.outcome = "terminal_failure"
    <3>1. ~LatestRetryable(e)
      BY <2>1, <2>6 DEF LatestRetryable
    <3>2. RunStatus(e) = "failed"
      BY <1>5, <2>4, <2>6 DEF RunStatus
    <3> QED BY <1>2, <1>5, <3>1, <3>2
  <2> QED BY <2>3, <2>5, <2>6
<1> QED BY <1>3, <1>4, <1>5

(* The status view and the backlog query agree on every run, whatever      *)
(* overlaps: no run is shown as retryable and left alone, none is shown as *)
(* failed and tried again (extraction_run_status, pending_extraction_events *)
(* and finish_extraction_failure of storage.py).                           *)
THEOREM ViewsAgree == Spec => []StatusAgreesWithBacklog
<1>1. Init => BacklogInv
  BY DEF Init, BacklogInv
<1> QED BY <1>1, BacklogStep, BacklogImplies, AttemptNumbering, TypeCorrect, PTL DEF Spec
=============================================================================
