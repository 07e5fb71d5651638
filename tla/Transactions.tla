---------------------------- MODULE Transactions ----------------------------
(***************************************************************************)
(* The re-entrant transaction boundary of the store (transactions.py) and  *)
(* the derived projections scheduled behind it (service.derive_memory,     *)
(* ProjectionFailureManager).                                              *)
(*                                                                         *)
(* One store is shared by the threads of the HTTP server and by the        *)
(* extraction thread.  A context is entered under a re-entrant lock; only  *)
(* the outermost one begins and commits.  The depth, the failure flag and  *)
(* the callback list belong to the store, not to the thread, and           *)
(* after_commit reads the depth without taking the lock.                   *)
(*                                                                         *)
(* Abstracted: a write is one memory record, derived in a context of its   *)
(* own; every other write shares the fate of its boundary.  The callback   *)
(* of a record is the record; the order in which a boundary runs its       *)
(* callbacks is left open.  `hurt' and `foreign' only observe.             *)
(*                                                                         *)
(* An operator named X_Y is the mutant Y of X: no definition uses it.      *)
(***************************************************************************)
EXTENDS Integers, Sequences

CONSTANTS
    Threads,
    Records,    \* memory records a derive_memory may write
    Service,    \* a context that writes no record of its own
    NoThread,
    NoRecord,
    MaxDepth,   \* bound: nested contexts
    MaxFaults   \* bound: callbacks that raise

Frames == Records \cup {Service}

ASSUME NamesAssumption ==
    NoThread \notin Threads /\ NoRecord \notin Records /\ Service \notin Records
ASSUME BoundsAssumption == MaxDepth \in Nat /\ MaxFaults \in Nat

VARIABLES
    lock,       \* the thread inside the outermost context
    depth,      \* _transaction_depth
    failed,     \* _transaction_failed
    callbacks,  \* _after_commit_callbacks
    fate,       \* what became of each record
    indexed,    \* records the semantic and graph plugins hold
    failures,   \* records with a pending derived_projection_failed event
    pc,         \* where each thread is
    stack,      \* the contexts each thread is in, innermost first
    owe,        \* the record whose callback the thread is about to schedule
    todo,       \* callbacks the thread took when its boundary committed
    faults,     \* callbacks that raised so far
    hurt,       \* an exception left a context of the open boundary
    foreign     \* records queued while another thread, or nobody, had the lock

store == <<lock, depth, failed, callbacks, fate>>
derived == <<indexed, failures>>
vars == <<store, derived, pc, stack, owe, todo, faults, hurt, foreign>>

Pending == {r \in Records : fate[r] = "pending"}
Committed == {r \in Records : fate[r] = "committed"}

Init ==
    /\ lock = NoThread /\ depth = 0 /\ failed = FALSE /\ callbacks = {}
    /\ fate = [r \in Records |-> "fresh"]
    /\ indexed = {} /\ failures = {}
    /\ pc = [t \in Threads |-> "run"]
    /\ stack = [t \in Threads |-> << >>]
    /\ owe = [t \in Threads |-> NoRecord]
    /\ todo = [t \in Threads |-> {}]
    /\ faults = 0 /\ hurt = FALSE /\ foreign = {}

Settle(outcome) ==
    fate' = [r \in Records |-> IF r \in Pending THEN outcome ELSE fate[r]]

Write(f) == fate' = [r \in Records |-> IF r = f THEN "pending" ELSE fate[r]]

-----------------------------------------------------------------------------
FlagOnEntry_Reset == FALSE

\* only the outermost context resets the flag, when it begins
FlagOnEntry == failed

(* BEGIN IMMEDIATE of an outermost context.                                *)
Begin(t, f) ==
    /\ pc[t] = "run" /\ stack[t] = << >> /\ lock = NoThread
    /\ lock' = t /\ depth' = depth + 1 /\ failed' = FALSE /\ callbacks' = {}
    /\ stack' = [stack EXCEPT ![t] = <<f>>]
    /\ Write(f)
    /\ hurt' = FALSE
    /\ UNCHANGED <<derived, pc, owe, todo, faults, foreign>>

(* A nested context joins the boundary.                                    *)
Nest(t, f) ==
    /\ pc[t] = "run" /\ stack[t] # << >> /\ Len(stack[t]) < MaxDepth
    /\ depth' = depth + 1
    /\ failed' = FlagOnEntry
    /\ stack' = [stack EXCEPT ![t] = <<f>> \o @]
    /\ Write(f)
    /\ UNCHANGED <<lock, callbacks, derived, pc, owe, todo, faults, hurt, foreign>>

Pop_NoFinally(t) ==
    /\ stack' = [stack EXCEPT ![t] = Tail(@)]
    /\ depth' = IF pc[t] = "unwind" THEN depth ELSE depth - 1

\* the `finally' of a context: every way out decrements the depth once
Pop(t) ==
    /\ stack' = [stack EXCEPT ![t] = Tail(@)]
    /\ depth' = depth - 1

\* derive_memory schedules the projection once its own context is closed
Owed(t) == IF Head(stack[t]) = Service THEN NoRecord ELSE Head(stack[t])

Resume(t) == pc' = [pc EXCEPT ![t] = IF Owed(t) = NoRecord THEN "run" ELSE "schedule"]

LeaveNested(t) ==
    /\ pc[t] = "run" /\ Len(stack[t]) > 1
    /\ Pop(t) /\ Resume(t)
    /\ owe' = [owe EXCEPT ![t] = Owed(t)]
    /\ UNCHANGED <<lock, failed, callbacks, fate, derived, todo, faults, hurt, foreign>>

Taken_AfterClear == {}

\* the list is copied before it is cleared
Taken == callbacks

(* The outermost context commits and takes the callbacks with it.          *)
Commit(t) ==
    /\ pc[t] = "run" /\ Len(stack[t]) = 1 /\ ~failed
    /\ Pop(t) /\ Settle("committed")
    /\ lock' = NoThread /\ failed' = FALSE /\ callbacks' = {}
    /\ todo' = [todo EXCEPT ![t] = Taken]
    /\ owe' = [owe EXCEPT ![t] = Owed(t)]
    /\ pc' = [pc EXCEPT ![t] = "callbacks"]
    /\ UNCHANGED <<derived, faults, hurt, foreign>>

RollBack(t) ==
    /\ Pop(t) /\ Settle("undone")
    /\ lock' = NoThread /\ failed' = FALSE /\ callbacks' = {}
    /\ pc' = [pc EXCEPT ![t] = "run"]

(* "nested transaction failed": an inner failure was swallowed.            *)
CommitRefused(t) ==
    /\ pc[t] = "run" /\ Len(stack[t]) = 1 /\ failed
    /\ RollBack(t)
    /\ UNCHANGED <<derived, owe, todo, faults, hurt, foreign>>

(* An exception leaves the innermost context ...                           *)
RaiseNested(t) ==
    /\ pc[t] \in {"run", "unwind"} /\ Len(stack[t]) > 1
    /\ Pop(t)
    /\ failed' = TRUE /\ hurt' = TRUE
    /\ pc' = [pc EXCEPT ![t] = "unwind"]
    /\ UNCHANGED <<lock, callbacks, fate, derived, owe, todo, faults, foreign>>

RaiseOutermost(t) ==
    /\ pc[t] \in {"run", "unwind"} /\ Len(stack[t]) = 1
    /\ RollBack(t)
    /\ UNCHANGED <<derived, owe, todo, faults, hurt, foreign>>

(* ... and the body of the enclosing context may catch it.                 *)
Swallow(t) ==
    /\ pc[t] = "unwind"
    /\ pc' = [pc EXCEPT ![t] = "run"]
    /\ UNCHANGED <<store, derived, stack, owe, todo, faults, hurt, foreign>>

-----------------------------------------------------------------------------
Deferred_Never == FALSE

\* the test of after_commit: the depth is the store's, read without the lock
Deferred == depth > 0

CheckDepth(t) ==
    /\ pc[t] = "schedule"
    /\ \/ /\ Deferred
          /\ pc' = [pc EXCEPT ![t] = "append"]
          /\ UNCHANGED <<owe, todo>>
       \/ /\ ~Deferred
          /\ pc' = [pc EXCEPT ![t] = "callbacks"]
          /\ todo' = [todo EXCEPT ![t] = {owe[t]}]
          /\ owe' = [owe EXCEPT ![t] = NoRecord]
    /\ UNCHANGED <<store, derived, stack, faults, hurt, foreign>>

AppendCallback(t) ==
    /\ pc[t] = "append"
    /\ callbacks' = callbacks \cup {owe[t]}
    /\ foreign' = IF lock = t THEN foreign ELSE foreign \cup {owe[t]}
    /\ owe' = [owe EXCEPT ![t] = NoRecord]
    /\ pc' = [pc EXCEPT ![t] = "run"]
    /\ UNCHANGED <<lock, depth, failed, fate, derived, stack, todo, faults, hurt>>

(* project_memory: every plugin took the record.                           *)
Project(t) ==
    /\ pc[t] = "callbacks"
    /\ \E r \in todo[t] :
        /\ indexed' = indexed \cup {r}
        /\ todo' = [todo EXCEPT ![t] = @ \ {r}]
    /\ UNCHANGED <<store, failures, pc, stack, owe, faults, hurt, foreign>>

(* A plugin raised: the failure is recorded in a transaction of its own,   *)
(* whose beginning empties the callback list like every other.             *)
RecordFailure(t) ==
    /\ pc[t] = "callbacks" /\ lock = NoThread
    /\ \E r \in todo[t] :
        /\ failures' = failures \cup {r}
        /\ todo' = [todo EXCEPT ![t] = @ \ {r}]
    /\ callbacks' = {}
    /\ UNCHANGED <<lock, depth, failed, fate, indexed, pc, stack, owe, faults, hurt, foreign>>

(* The failure could not be recorded either: the exception leaves the      *)
(* loop, and with it whatever the thread had still to run or to schedule.  *)
CallbackRaises(t) ==
    /\ pc[t] = "callbacks" /\ todo[t] # {} /\ faults < MaxFaults
    /\ faults' = faults + 1
    /\ todo' = [todo EXCEPT ![t] = {}]
    /\ owe' = [owe EXCEPT ![t] = NoRecord]
    /\ pc' = [pc EXCEPT ![t] = "run"]
    /\ UNCHANGED <<store, derived, stack, hurt, foreign>>

CallbacksDone(t) ==
    /\ pc[t] = "callbacks" /\ todo[t] = {}
    /\ pc' = [pc EXCEPT ![t] = IF owe[t] = NoRecord THEN "run" ELSE "schedule"]
    /\ UNCHANGED <<store, derived, stack, owe, todo, faults, hurt, foreign>>

(* ProjectionFailureManager.retry: the plugin takes the record, then the   *)
(* recovery is recorded in a transaction.                                  *)
Retry(t) ==
    /\ pc[t] = "run" /\ stack[t] = << >> /\ lock = NoThread
    /\ \E r \in failures :
        /\ indexed' = indexed \cup {r}
        /\ failures' = failures \ {r}
    /\ callbacks' = {}
    /\ UNCHANGED <<lock, depth, failed, fate, pc, stack, owe, todo, faults, hurt, foreign>>

Next ==
    \E t \in Threads :
        \/ \E f \in {Service} \cup {r \in Records : fate[r] = "fresh"} :
            Begin(t, f) \/ Nest(t, f)
        \/ LeaveNested(t) \/ Commit(t) \/ CommitRefused(t)
        \/ RaiseNested(t) \/ RaiseOutermost(t) \/ Swallow(t)
        \/ CheckDepth(t) \/ AppendCallback(t)
        \/ Project(t) \/ RecordFailure(t) \/ CallbackRaises(t) \/ CallbacksDone(t)
        \/ Retry(t)

Spec == Init /\ [][Next]_vars

-----------------------------------------------------------------------------
TypeOK ==
    /\ lock \in Threads \cup {NoThread}
    /\ depth \in Nat /\ failed \in BOOLEAN
    /\ callbacks \subseteq Records
    /\ fate \in [Records -> {"fresh", "pending", "committed", "undone"}]
    /\ indexed \subseteq Records /\ failures \subseteq Records
    /\ pc \in [Threads -> {"run", "unwind", "schedule", "append", "callbacks"}]
    /\ stack \in [Threads -> Seq(Frames)]
    /\ owe \in [Threads -> Records \cup {NoRecord}]
    /\ todo \in [Threads -> SUBSET Records]
    /\ faults \in 0..MaxFaults /\ hurt \in BOOLEAN /\ foreign \subseteq Records

(* Whoever holds the lock is the only thread inside a context, and the     *)
(* depth the store counts is its own: an exception on any path gives the   *)
(* lock and the depth back.                                                *)
DepthIsTheOwners ==
    \A t \in Threads :
        IF lock = t THEN depth = Len(stack[t]) /\ depth > 0
        ELSE stack[t] = << >> /\ (lock = NoThread => depth = 0)

(* STAGE2_REPORT.md:23 and JM-INV-002: an inner failure marks the whole    *)
(* boundary, so nothing of a boundary in which a context failed is ever    *)
(* committed, even when the failure was swallowed and contexts followed.   *)
SpoiledNeverCommits ==
    [][\A r \in Records : fate[r] = "pending" /\ fate'[r] = "committed" => ~hurt]_vars

(* STAGE2_REPORT.md:24: a projection runs, and a failure is recorded, only *)
(* for a record that is committed for good.                                *)
ProjectedAfterCommit == indexed \cup failures \subseteq Committed

(* JM-INV-008, with its limit: while no callback raises, every committed   *)
(* record is in the index, in the failure ledger or on its way, unless its *)
(* callback was queued by a thread that did not hold the lock.             *)
AccountedUnlessForeign ==
    faults = 0 => \A r \in Committed :
        \/ r \in indexed \cup failures \cup foreign
        \/ \E t \in Threads : r \in todo[t] \/ r = owe[t]

(* STAGE2_REPORT.md:17: behind the core commit a derived system has a      *)
(* durable failure ledger; when all threads rest, no committed record is   *)
(* neither indexed nor recorded as failed.                                 *)
Quiescent == \A t \in Threads : pc[t] = "run" /\ stack[t] = << >>

EveryCommitAccounted == Quiescent => Committed \subseteq indexed \cup failures
=============================================================================
