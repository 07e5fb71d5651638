-------------------------- MODULE ExtractionWorker --------------------------
(***************************************************************************)
(* Automatic extraction: the durable wakeup row with its expiring lease,   *)
(* the workers that drain the backlog, and the append-only interpretation  *)
(* ledger they write (extraction.py, storage.py).                          *)
(*                                                                         *)
(* A hook or an API call commits a canonical message event and then calls  *)
(* notify(), which bumps a generation counter and starts a worker.  The    *)
(* worker claims the lease, scans the ledger for pending events, and for   *)
(* every event opens a run, starts a numbered attempt, runs the model      *)
(* outside every transaction, and commits the outcome.  One action of this *)
(* module is one SQLite transaction, or one read between two of them.      *)
(*                                                                         *)
(* Abstracted: the model answers with any subset of Proposals.  A proposal *)
(* is one key of extraction_candidates (memory_type, normalized_content,   *)
(* evidence_start, evidence_end); Content gives the text a memory is       *)
(* looked up by, which proposals of several spans or spellings share, and  *)
(* Span the quote it interprets.  Only `outcome' is kept of an attempt     *)
(* row.  Redaction, rejections and raw responses are audit rows that no    *)
(* read of this component depends on, and no memory is written by hand.    *)
(*                                                                         *)
(* An operator named X_Y is the mutant Y of X: no definition uses it, and   *)
(* the properties are checked to fail when it takes the place of X.        *)
(***************************************************************************)
EXTENDS Integers, FiniteSets

CONSTANTS
    Leased,         \* run_worker invocations; each has its own owner uuid
    Foreground,     \* process_backlog callers, which hold no lease
    NoOwner,        \* SQL NULL in extraction_wakeups.owner
    Proposals,      \* what the model can propose, by the key of the table
    Contents,       \* texts of memories, by type and normalized key
    Content,        \* Content[p]: the text the proposal p would be a memory of
    Span,           \* Span[p]: the memory type and evidence span of p
    MaxEvents,      \* bound: canonical message events
    MaxRetries,     \* ExtractorConfig.max_retries
    LeaseTicks,     \* lease_seconds, in clock ticks
    MaxClock,       \* bound: clock
    MaxFaults       \* bound: faults, lost notifications, runtime outages

Workers == Leased \cup Foreground
Events == 1..MaxEvents
Failures == {"retryable_failure", "terminal_failure"}
Outcomes == Failures \cup {"succeeded"}
Working == {"scan", "work", "ensured", "infer"}
Live == Working \cup {"spawned", "claiming"}
PCs == Live \cup {"unused", "done", "dead"}

ASSUME WorkersAssumption ==
    /\ Leased \cap Foreground = {}
    /\ NoOwner \notin Workers
ASSUME ContentAssumption == Content \in [Proposals -> Contents]
ASSUME BoundsAssumption ==
    /\ MaxEvents \in Nat /\ MaxRetries \in Nat /\ MaxClock \in Nat
    /\ LeaseTicks \in Nat /\ MaxFaults \in Nat

VARIABLES
    head,        \* the canonical message events are 1..head
    due,         \* events committed whose notify() has not run yet
    generation,  \* extraction_wakeups.generation, 0 before the first signal
    owner,       \* extraction_wakeups.owner
    leaseUntil,  \* extraction_wakeups.lease_until
    clock,       \* time.time()
    faults,      \* number of faults so far
    runs,        \* events that have an extraction_runs row
    starts,      \* starts[e]: rows of extraction_attempt_starts, 1..starts[e]
    attempts,    \* rows of extraction_attempts
    candidates,  \* rows of extraction_candidates with their first status
    memories,    \* auto rows of memory_records
    links,       \* rows of candidate_memory_links
    pc,          \* where each worker is
    stamp,       \* `now' of claim_extraction_worker, read before its transaction
    observed,    \* the generation the worker claimed or renewed at
    queue,       \* events the worker's last scan selected and it has not begun
    event,       \* the event the worker is processing, 0 for none
    attempt      \* attempt_no of the worker's open attempt, 0 for none

wakeup == <<generation, owner, leaseUntil>>
ledger == <<runs, starts, attempts, candidates, memories, links>>
locals == <<stamp, observed, queue, event, attempt>>
vars == <<head, due, wakeup, clock, faults, ledger, pc, locals>>

-----------------------------------------------------------------------------
(* The ledger as the readers see it.                                       *)

AttemptsOf(e) == {a \in attempts : a.event = e}

Latest(e) == {a \in AttemptsOf(e) : \A b \in AttemptsOf(e) : b.no <= a.no}

LatestOutcomeIn(e, outcomes) == \E a \in Latest(e) : a.outcome \in outcomes

LatestRetryable(e) ==
    \E a \in Latest(e) : a.outcome = "retryable_failure" /\ a.no < MaxRetries

Succeeded(e) == \E a \in attempts : a.event = e /\ a.outcome = "succeeded"

Pending_InnerJoin(retryFailed) ==
    {e \in runs : ~Succeeded(e) /\ (AttemptsOf(e) = {} \/ LatestRetryable(e))}

\* pending_extraction_events: the backlog, in seq order
Pending(retryFailed) ==
    {e \in 1..head :
        /\ ~Succeeded(e)
        /\ \/ e \notin runs
           \/ AttemptsOf(e) = {}
           \/ LatestRetryable(e)
           \/ retryFailed /\ LatestOutcomeIn(e, Failures)}

OpenStart(e) == \E n \in 1..starts[e] : \A a \in AttemptsOf(e) : a.no # n

\* the extraction_run_status view
RunStatus(e) ==
    CASE Succeeded(e) -> "done"
      [] ~Succeeded(e) /\ LatestOutcomeIn(e, {"terminal_failure"}) -> "failed"
      [] ~Succeeded(e) /\ LatestOutcomeIn(e, {"retryable_failure"}) -> "retryable"
      [] AttemptsOf(e) = {} /\ OpenStart(e) ->
            IF owner # NoOwner /\ leaseUntil > clock THEN "running" ELSE "retryable"
      [] OTHER -> "pending"

-----------------------------------------------------------------------------
Init ==
    /\ head = 0 /\ due = 0 /\ clock = 0 /\ faults = 0
    /\ generation = 0 /\ owner = NoOwner /\ leaseUntil = 0
    /\ runs = {} /\ attempts = {} /\ candidates = {} /\ memories = {} /\ links = {}
    /\ starts = [e \in Events |-> 0]
    /\ pc = [w \in Workers |-> "unused"]
    /\ stamp = [w \in Workers |-> 0]
    /\ observed = [w \in Workers |-> 0]
    /\ queue = [w \in Workers |-> {}]
    /\ event = [w \in Workers |-> 0]
    /\ attempt = [w \in Workers |-> 0]

(* A delivery commits its canonical event; notify() comes afterwards.      *)
AppendEvent ==
    /\ head < MaxEvents
    /\ head' = head + 1
    /\ due' = due + 1
    /\ UNCHANGED <<wakeup, clock, faults, ledger, pc, locals>>

(* notify(): signal_extraction_worker, then a new worker process; or the   *)
(* wake flag of the in-process thread, which a pending wake absorbs.        *)
Notify(w) ==
    /\ due > 0
    /\ w \in Leased /\ pc[w] \in {"unused", "spawned"}
    /\ due' = due - 1
    /\ generation' = generation + 1
    /\ pc' = [pc EXCEPT ![w] = "spawned"]
    /\ UNCHANGED <<head, owner, leaseUntil, clock, faults, ledger, locals>>

(* The delivering process dies after its commit: before the signal, or     *)
(* between the signal and the start of a worker.                           *)
LoseNotify ==
    /\ due > 0 /\ faults < MaxFaults
    /\ due' = due - 1
    /\ faults' = faults + 1
    /\ generation' \in {generation, generation + 1}
    /\ UNCHANGED <<head, owner, leaseUntil, clock, ledger, pc, locals>>

(* claim_extraction_worker reads the clock and then waits for the lock.    *)
StampClaim(w) ==
    /\ pc[w] = "spawned"
    /\ stamp' = [stamp EXCEPT ![w] = clock]
    /\ pc' = [pc EXCEPT ![w] = "claiming"]
    /\ UNCHANGED <<head, due, wakeup, clock, faults, ledger,
                   observed, queue, event, attempt>>

(* The worker is gone, and with it everything it kept in memory.           *)
Exit(w, how) ==
    /\ pc' = [pc EXCEPT ![w] = how]
    /\ stamp' = [stamp EXCEPT ![w] = 0]
    /\ observed' = [observed EXCEPT ![w] = 0]
    /\ queue' = [queue EXCEPT ![w] = {}]
    /\ event' = [event EXCEPT ![w] = 0]
    /\ attempt' = [attempt EXCEPT ![w] = 0]

LeaseHeldAgainst_Swapped(w) ==
    owner # NoOwner /\ owner # w /\ leaseUntil < stamp[w]

LeaseHeldAgainst(w) ==
    owner # NoOwner /\ owner # w /\ leaseUntil > stamp[w]

ClaimRefused(w) ==
    /\ pc[w] = "claiming"
    /\ generation = 0 \/ LeaseHeldAgainst(w)
    /\ Exit(w, "done")
    /\ UNCHANGED <<head, due, wakeup, clock, faults, ledger>>

ClaimGranted(w) ==
    /\ pc[w] = "claiming"
    /\ generation > 0 /\ ~LeaseHeldAgainst(w)
    /\ owner' = w
    /\ leaseUntil' = stamp[w] + LeaseTicks
    /\ observed' = [observed EXCEPT ![w] = generation]
    /\ pc' = [pc EXCEPT ![w] = "scan"]
    /\ UNCHANGED <<head, due, generation, clock, faults, ledger,
                   stamp, queue, event, attempt>>

(* extraction-process and POST /v1/extraction/process take no lease.       *)
StartForeground(w) ==
    /\ w \in Foreground /\ pc[w] = "unused"
    /\ pc' = [pc EXCEPT ![w] = "scan"]
    /\ UNCHANGED <<head, due, wakeup, clock, faults, ledger, locals>>

(* process_backlog reads the backlog once and works from that list.  Only  *)
(* the foreground passes retry_failed and limit.                           *)
Scan(w) ==
    /\ pc[w] = "scan"
    /\ \E retryFailed \in BOOLEAN, last \in 0..head :
        /\ w \in Leased => ~retryFailed /\ last = head
        /\ queue' = [queue EXCEPT ![w] = {e \in Pending(retryFailed) : e <= last}]
    /\ pc' = [pc EXCEPT ![w] = "work"]
    /\ UNCHANGED <<head, due, wakeup, clock, faults, ledger,
                   stamp, observed, event, attempt>>

(* ensure_running fails: the error is kept for display, nothing is done.   *)
RuntimeDown(w) ==
    /\ faults < MaxFaults
    /\ pc[w] = "scan" /\ Pending(FALSE) # {}
    /\ faults' = faults + 1
    /\ pc' = [pc EXCEPT ![w] = "work"]
    /\ UNCHANGED <<head, due, wakeup, clock, ledger, locals>>

EnsureRun(w) ==
    /\ pc[w] = "work"
    /\ \E e \in queue[w] :
        /\ \A f \in queue[w] : e <= f
        /\ runs' = runs \cup {e}
        /\ event' = [event EXCEPT ![w] = e]
        /\ queue' = [queue EXCEPT ![w] = @ \ {e}]
    /\ pc' = [pc EXCEPT ![w] = "ensured"]
    /\ UNCHANGED <<head, due, wakeup, clock, faults, starts, attempts,
                   candidates, memories, links, stamp, observed, attempt>>

NextAttemptNo_FromRows(e) == Cardinality(AttemptsOf(e)) + 1

\* MAX(attempt_no) + 1 over the start rows of the run
NextAttemptNo(e) == starts[e] + 1

StartAttempt(w) ==
    /\ pc[w] = "ensured"
    /\ attempt' = [attempt EXCEPT ![w] = NextAttemptNo(event[w])]
    /\ starts' = [starts EXCEPT ![event[w]] = NextAttemptNo(event[w])]
    /\ pc' = [pc EXCEPT ![w] = "infer"]
    /\ UNCHANGED <<head, due, wakeup, clock, faults, runs, attempts,
                   candidates, memories, links, stamp, observed, queue, event>>

Row(w, outcome) == [event |-> event[w], no |-> attempt[w], outcome |-> outcome]

NextEvent(w) ==
    /\ pc' = [pc EXCEPT ![w] = "work"]
    /\ event' = [event EXCEPT ![w] = 0]
    /\ attempt' = [attempt EXCEPT ![w] = 0]
    /\ UNCHANGED <<head, due, wakeup, clock, faults, runs, starts,
                   stamp, observed, queue>>

\* proposals of one answer that interpret the same span differently
Conflicting(response) ==
    {p \in response : \E q \in response :
        Span[p] = Span[q] /\ Content[p] # Content[q]}

Fresh_NoDedup(e, response) == response

\* INSERT OR IGNORE drops what the run already holds under the same key; the
\* same text quoted from another span is a candidate of its own
Fresh(e, response) ==
    {p \in response : ~\E k \in candidates : k.event = e /\ k.proposal = p}

ExistingMemory_OfEvent(e, c) == {m \in memories : m.content = c /\ m.event = e}

\* a memory with the same normalized content, whatever event it came from
ExistingMemory(e, c) == {m \in memories : m.content = c}

(* commit_extraction_success: one transaction for the attempt row, the     *)
(* new candidates, their first transitions, the auto memories and links.   *)
(* The proposals in `weak' fail the automatic-acceptance policy; the first *)
(* of several with one new text publishes it, the others support it.       *)
CommitSuccess(w) ==
    /\ pc[w] = "infer"
    /\ attempts' = attempts \cup {Row(w, "succeeded")}
    /\ \E response \in SUBSET Proposals : \E weak \in SUBSET response :
        LET e == event[w]
            fresh == Fresh(e, response)
            auto == fresh \ (weak \cup Conflicting(response))
            new == {c \in Contents :
                       ExistingMemory(e, c) = {} /\ \E p \in auto : Content[p] = c}
            known == memories \cup {[content |-> c, event |-> e] : c \in new}
        IN /\ candidates' = candidates
                \cup {[event |-> e, proposal |-> p, status |-> "auto"] : p \in auto}
                \cup {[event |-> e, proposal |-> p, status |-> "quarantined"]
                        : p \in fresh \ auto}
           /\ memories' = known
           /\ links' = links \cup
                {l \in [event : {e}, proposal : auto, source : Events] :
                    [content |-> Content[l.proposal], event |-> l.source] \in known}
    /\ NextEvent(w)

FailureOutcome_OffByOne(w) ==
    IF attempt[w] <= MaxRetries THEN "retryable_failure" ELSE "terminal_failure"

FailureOutcome_ViewName(w) ==
    IF attempt[w] < MaxRetries THEN "retryable_failure" ELSE "failed"

\* process_backlog decides whether the event may be tried again
FailureOutcome(w) ==
    IF attempt[w] < MaxRetries THEN "retryable_failure" ELSE "terminal_failure"

(* Any exception of the extractor, the parser or the commit.               *)
FinishFailure(w) ==
    /\ pc[w] = "infer"
    /\ attempts' = attempts \cup {Row(w, FailureOutcome(w))}
    /\ NextEvent(w)
    /\ UNCHANGED <<candidates, memories, links>>

CycleOver(w) == pc[w] = "work" /\ queue[w] = {}

Stable_Always(w) == TRUE

\* no signal arrived since the worker claimed or renewed
Stable(w) == generation = observed[w]

(* complete_extraction_worker_cycle, and the end of a foreground drain.    *)
Release(w) ==
    /\ CycleOver(w) /\ owner = w /\ Stable(w)
    /\ owner' = NoOwner /\ leaseUntil' = 0
    /\ Exit(w, "done")
    /\ UNCHANGED <<head, due, generation, clock, faults, ledger>>

Renew(w) ==
    /\ CycleOver(w) /\ owner = w /\ ~Stable(w)
    /\ leaseUntil' = clock + LeaseTicks
    /\ observed' = [observed EXCEPT ![w] = generation]
    /\ pc' = [pc EXCEPT ![w] = "scan"]
    /\ UNCHANGED <<head, due, generation, owner, clock, faults, ledger,
                   stamp, queue, event, attempt>>

Leave(w) ==
    /\ CycleOver(w) /\ owner # w
    /\ Exit(w, "done")
    /\ UNCHANGED <<head, due, wakeup, clock, faults, ledger>>

(* The process dies, or an exception leaves run_worker, which has no       *)
(* handler that releases the lease.                                        *)
Crash(w) ==
    /\ pc[w] \in Live /\ faults < MaxFaults
    /\ faults' = faults + 1
    /\ Exit(w, "dead")
    /\ UNCHANGED <<head, due, wakeup, clock, ledger>>

Tick ==
    /\ clock < MaxClock
    /\ clock' = clock + 1
    /\ UNCHANGED <<head, due, wakeup, faults, ledger, pc, locals>>

WorkerStep(w) ==
    \/ StampClaim(w) \/ ClaimRefused(w) \/ ClaimGranted(w)
    \/ Scan(w) \/ RuntimeDown(w) \/ EnsureRun(w) \/ StartAttempt(w)
    \/ CommitSuccess(w) \/ FinishFailure(w)
    \/ Release(w) \/ Renew(w) \/ Leave(w)

Next ==
    \/ AppendEvent \/ LoseNotify \/ Tick
    \/ \E w \in Workers :
        Notify(w) \/ StartForeground(w) \/ WorkerStep(w) \/ Crash(w)

Spec == Init /\ [][Next]_vars

(* A process that was started runs until it ends: every worker keeps       *)
(* taking steps and a committed delivery goes on to notify().              *)
Fairness ==
    /\ \A w \in Workers : WF_vars(WorkerStep(w))
    /\ WF_vars(\E w \in Leased : Notify(w))

FairSpec == Spec /\ Fairness

-----------------------------------------------------------------------------
TypeOK ==
    /\ head \in 0..MaxEvents /\ due \in 0..head
    /\ generation \in Nat /\ leaseUntil \in Nat
    /\ clock \in 0..MaxClock /\ faults \in 0..MaxFaults
    /\ owner \in Workers \cup {NoOwner}
    /\ runs \subseteq Events
    /\ starts \in [Events -> Nat]
    /\ attempts \subseteq [event : Events, no : Nat, outcome : Outcomes]
    /\ candidates \subseteq
        [event : Events, proposal : Proposals, status : {"auto", "quarantined"}]
    /\ memories \subseteq [content : Contents, event : Events]
    /\ links \subseteq [event : Events, proposal : Proposals, source : Events]
    /\ pc \in [Workers -> PCs]
    /\ stamp \in [Workers -> Nat] /\ observed \in [Workers -> Nat]
    /\ queue \in [Workers -> SUBSET Events]
    /\ event \in [Workers -> 0..MaxEvents] /\ attempt \in [Workers -> Nat]

(* Every outcome row belongs to a started attempt, no two rows share an    *)
(* attempt number, and an open attempt collides neither with a row nor     *)
(* with another open attempt: UNIQUE(run_id, attempt_no) never turns a     *)
(* finished inference into an exception, however many workers overlap on   *)
(* the event and however many of them crash.                               *)
AttemptRowsNeverCollide ==
    /\ \A a \in attempts : a.no \in 1..starts[a.event]
    /\ \A a, b \in attempts : a.event = b.event /\ a.no = b.no => a = b
    /\ \A w \in Workers : pc[w] = "infer" =>
        /\ attempt[w] \in 1..starts[event[w]]
        /\ \A a \in attempts : ~(a.event = event[w] /\ a.no = attempt[w])
    /\ \A v, w \in Workers :
        v # w /\ pc[v] = "infer" /\ pc[w] = "infer" /\ event[v] = event[w]
            => attempt[v] # attempt[w]

(* The lineage of automatic memories: an accepted candidate is linked to   *)
(* one memory of its text, which its own or an earlier event published, a  *)
(* quarantined one to none, and a memory to a candidate of the event it    *)
(* cites.  An inference repeated after a crash or a takeover may add       *)
(* candidates that quote another span, and their links; it never links a   *)
(* candidate twice, nor judges again one that the run already holds.       *)
LineageComplete ==
    /\ \A k \in candidates :
        Cardinality({l \in links : l.event = k.event /\ l.proposal = k.proposal})
            = (IF k.status = "auto" THEN 1 ELSE 0)
    /\ \A l \in links :
        /\ [content |-> Content[l.proposal], event |-> l.source] \in memories
        /\ [event |-> l.event, proposal |-> l.proposal, status |-> "auto"]
                \in candidates
        /\ Succeeded(l.event) /\ Succeeded(l.source)
    /\ \A m \in memories : \E l \in links :
        /\ Content[l.proposal] = m.content
        /\ l.event = m.event /\ l.source = m.event

(* The status view and the backlog query are two readers of one ledger:    *)
(* what the view calls pending, running or retryable is exactly what the   *)
(* next scan will pick up, so no event is shown as retryable and left      *)
(* alone for ever, and none is shown as failed and tried again.            *)
StatusAgreesWithBacklog ==
    \A e \in runs :
        e \in Pending(FALSE) <=> RunStatus(e) \in {"pending", "running", "retryable"}

(* The lease makes the backlog single-consumer (docs/architecture.md:286): *)
(* a worker that lost its lease and still works was overtaken only after   *)
(* the whole lease it was given had passed, although the clock a claim     *)
(* compares with was read before the claim got the database lock.          *)
SingleConsumer ==
    \A w \in Leased :
        pc[w] \in Working /\ owner # w => stamp[w] + LeaseTicks <= clock

(* No wakeup is lost without a fault: an event whose notify() ran and that *)
(* nobody attempted is still ahead of some worker -- one that has yet to   *)
(* claim, one that has it in its list, or the owner of the lease, which    *)
(* will scan again or will see that the generation moved.                  *)
Ahead(w, e) ==
    \/ pc[w] \in {"spawned", "claiming"}
    \/ pc[w] \in Working /\ (event[w] = e \/ e \in queue[w])
    \/ /\ owner = w /\ pc[w] \in Working
       /\ pc[w] = "scan" \/ observed[w] < generation

NoWakeupLost ==
    faults = 0 /\ due = 0 =>
        \A e \in 1..head : starts[e] = 0 => \E w \in Workers : Ahead(w, e)

(* Overlapping, repeated and crashed inference has the effect the abstract *)
(* ledger promises: memories appear only with a success of the event they  *)
(* cite, each content once, and neither a success nor a memory is undone.  *)
Promise == INSTANCE ExtractionPromise WITH
    done <- {e \in Events : Succeeded(e)},
    published <- memories

PromiseSpec == Promise!Spec

(* Every committed message is attempted in the end when no fault strikes:  *)
(* the retrying of signals, the lease and the generation counter suffice.  *)
EveryEventAttempted ==
    [](faults = 0) =>
        \A e \in Events : (head >= e) ~> (starts[e] > 0)
=============================================================================
