--------------------------- MODULE Boundary_proofs ---------------------------
(***************************************************************************)
(* Proofs about the transaction boundary, for any threads, records, nesting *)
(* and faults, and about the witness of the chain, for any number of        *)
(* processes, entries and restored backups.                                 *)
(*                                                                         *)
(* The witness: a hash is given out once, so a head that some chain holds   *)
(* names the whole prefix below it.  No history variable is needed to say   *)
(* so: it is enough that the file's head is at least as far as every head   *)
(* it ever held, and that a chain which holds it holds them too.  Appending *)
(* cannot break that, for no old head has the hash of a new entry;          *)
(* restoring cannot, for the lower heads are cut last.                      *)
(***************************************************************************)
EXTENDS Transactions, Witness, TLAPS

-----------------------------------------------------------------------------
(* Transactions. *)

(* The contexts a stack holds.                                             *)
Held(s) == {s[i] : i \in 1..Len(s)}

(* What a thread has in hand fits the place it has reached.                *)
LocalsFitPc ==
    \A t \in Threads :
        /\ pc[t] \in {"run", "unwind"} => owe[t] = NoRecord
        /\ pc[t] \in {"schedule", "append"} => owe[t] # NoRecord
        /\ pc[t] # "callbacks" => todo[t] = {}
        /\ pc[t] = "callbacks" => stack[t] = << >>

(* The open boundary owns the pending records: those of the contexts the   *)
(* holder of the lock is in, and the one it is about to schedule.          *)
BoundaryOwnsPending ==
    /\ lock = NoThread => Pending = {}
    /\ lock # NoThread /\ hurt => failed
    /\ \A t \in Threads : Held(stack[t]) \subseteq Pending \cup {Service}
    /\ \A t \in Threads : owe[t] # NoRecord =>
        owe[t] \in IF lock = t THEN Pending ELSE Committed

(* A callback is queued for a written record and taken for a committed one. *)
CallbacksKnown ==
    /\ callbacks \subseteq Committed \cup Pending
    /\ \A t \in Threads : todo[t] \subseteq Committed

(* A pending record of a boundary that can still commit has its callback   *)
(* queued or its context has yet to queue it.                              *)
PendingScheduled ==
    faults = 0 /\ ~failed => \A r \in Pending :
        \/ r \in callbacks \cup foreign
        \/ \E t \in Threads : r = owe[t] \/ r \in Held(stack[t])

(* The base of all the invariants below; DepthIsTheOwners is in it.        *)
Base == TypeOK /\ DepthIsTheOwners /\ LocalsFitPc

LEMMA Pushed ==
    ASSUME NEW S, NEW f \in S, NEW s \in Seq(S)
    PROVE  /\ <<f>> \o s \in Seq(S) /\ Len(<<f>> \o s) = Len(s) + 1
           /\ Held(<<f>> \o s) = {f} \cup Held(s)
<1>. DEFINE p == <<f>> \o s
<1>1. p \in Seq(S) /\ Len(p) = Len(s) + 1 /\ p[1] = f
      /\ \A i \in 1..Len(s) : p[i + 1] = s[i]
  OBVIOUS
<1>2. ASSUME NEW x \in Held(p) PROVE x \in {f} \cup Held(s)
  <2>1. PICK i \in 1..Len(p) : x = p[i]
    BY DEF Held
  <2>2. CASE i = 1 BY <2>1, <2>2, <1>1
  <2>3. CASE i # 1
    <3>1. i - 1 \in 1..Len(s) /\ p[(i - 1) + 1] = s[i - 1]
      BY <2>3, <1>1
    <3> QED BY <3>1, <2>1 DEF Held
  <2> QED BY <2>2, <2>3
<1>3. ASSUME NEW x \in {f} \cup Held(s) PROVE x \in Held(p)
  <2>1. CASE x = f
    BY <2>1, <1>1, 1 \in 1..Len(p) DEF Held
  <2>2. CASE x \in Held(s)
    <3>1. PICK i \in 1..Len(s) : x = s[i]
      BY <2>2 DEF Held
    <3> QED BY <3>1, <1>1, i + 1 \in 1..Len(p) DEF Held
  <2> QED BY <2>1, <2>2
<1> HIDE DEF p
<1>4. Held(p) = {f} \cup Held(s)
  BY <1>2, <1>3
<1> QED BY <1>1, <1>4 DEF p

LEMMA Popped ==
    ASSUME NEW S, NEW s \in Seq(S), s # << >>
    PROVE  /\ Tail(s) \in Seq(S) /\ Len(Tail(s)) = Len(s) - 1
           /\ Head(s) \in S /\ Held(s) = {Head(s)} \cup Held(Tail(s))
<1>1. Tail(s) \in Seq(S) /\ Len(Tail(s)) = Len(s) - 1 /\ Head(s) = s[1]
      /\ Head(s) \in S /\ \A i \in 1..Len(s) - 1 : Tail(s)[i] = s[i + 1]
  OBVIOUS
<1>2. ASSUME NEW x \in Held(s) PROVE x \in {Head(s)} \cup Held(Tail(s))
  <2>1. PICK i \in 1..Len(s) : x = s[i]
    BY DEF Held
  <2>2. CASE i = 1 BY <2>1, <2>2, <1>1
  <2>3. CASE i # 1
    <3>1. i - 1 \in 1..Len(s) - 1 /\ Tail(s)[i - 1] = s[(i - 1) + 1]
      BY <2>3, <1>1
    <3> QED BY <3>1, <2>1, <1>1 DEF Held
  <2> QED BY <2>2, <2>3
<1>3. ASSUME NEW x \in {Head(s)} \cup Held(Tail(s)) PROVE x \in Held(s)
  <2>1. CASE x = Head(s)
    BY <2>1, <1>1, 1 \in 1..Len(s) DEF Held
  <2>2. CASE x \in Held(Tail(s))
    <3>1. PICK i \in 1..Len(s) - 1 : x = Tail(s)[i]
      BY <2>2, <1>1 DEF Held
    <3> QED BY <3>1, <1>1, i + 1 \in 1..Len(s) DEF Held
  <2> QED BY <2>1, <2>2
<1> QED BY <1>1, <1>2, <1>3

LEMMA EmptyHeld == Held(<< >>) = {}
BY DEF Held

-----------------------------------------------------------------------------
LEMMA BaseInit == Init => Base
<1> SUFFICES ASSUME Init PROVE Base
  OBVIOUS
<1>. USE NamesAssumption, BoundsAssumption DEF Init
<1>1. << >> \in Seq(Frames) /\ Len(<< >>) = 0
  OBVIOUS
<1>2. fate \in [Records -> {"fresh", "pending", "committed", "undone"}]
  OBVIOUS
<1>3. failed \in BOOLEAN /\ hurt \in BOOLEAN
  BY Zenon
<1>4. TypeOK
  BY <1>1, <1>2, <1>3 DEF TypeOK
<1>5. DepthIsTheOwners
  BY <1>1 DEF DepthIsTheOwners
<1>6. LocalsFitPc
  BY <1>1 DEF LocalsFitPc
<1> QED BY <1>4, <1>5, <1>6 DEF Base

(* What Next offers a context: no record, or one that was never written.   *)
Fresh == {Service} \cup {r \in Records : fate[r] = "fresh"}

LEMMA BaseEnter ==
    ASSUME Base, NEW t \in Threads, NEW f \in Fresh, Begin(t, f) \/ Nest(t, f)
    PROVE  Base'
<1>. USE NamesAssumption DEF Base, TypeOK
<1>. f \in Frames
  BY DEF Fresh, Frames
<1>1. CASE Begin(t, f)
  <2>1. stack' = [stack EXCEPT ![t] = <<f>>] /\ <<f>> \in Seq(Frames) /\ Len(<<f>>) = 1
    BY <1>1 DEF Begin
  <2>2. fate' \in [Records -> {"fresh", "pending", "committed", "undone"}]
    BY <1>1 DEF Begin, Write
  <2>3. depth = 0
    BY <1>1 DEF Begin, DepthIsTheOwners
  <2>. failed' \in BOOLEAN /\ hurt' \in BOOLEAN
    BY <1>1, Zenon DEF Begin
  <2>4. TypeOK'
    BY <1>1, <2>1, <2>2 DEF Begin, derived
  <2>5. DepthIsTheOwners'
    BY <1>1, <2>1, <2>3 DEF Begin, DepthIsTheOwners
  <2>6. LocalsFitPc'
    BY <1>1, <2>1 DEF Begin, LocalsFitPc
  <2> QED BY <2>4, <2>5, <2>6
<1>2. CASE Nest(t, f)
  <2>1. stack' = [stack EXCEPT ![t] = <<f>> \o stack[t]] /\ <<f>> \o stack[t] \in Seq(Frames)
        /\ Len(<<f>> \o stack[t]) = Len(stack[t]) + 1 /\ stack[t] # << >>
    BY <1>2, Pushed DEF Nest
  <2>2. fate' \in [Records -> {"fresh", "pending", "committed", "undone"}]
    BY <1>2 DEF Nest, Write
  <2>4. TypeOK'
    BY <1>2, <2>1, <2>2 DEF Nest, derived, FlagOnEntry
  <2>5. DepthIsTheOwners'
    BY <1>2, <2>1 DEF Nest, DepthIsTheOwners
  <2>6. LocalsFitPc'
    BY <1>2, <2>1 DEF Nest, LocalsFitPc
  <2> QED BY <2>4, <2>5, <2>6
<1> QED BY <1>1, <1>2

(* Everything that closes a context pops one frame of the holder.          *)
Leave(t) ==
    \/ LeaveNested(t) \/ Commit(t) \/ CommitRefused(t)
    \/ RaiseNested(t) \/ RaiseOutermost(t)

LEMMA LeavePops ==
    ASSUME Base, NEW t \in Threads, Leave(t)
    PROVE  /\ stack[t] # << >> /\ lock = t /\ depth = Len(stack[t])
           /\ stack' = [stack EXCEPT ![t] = Tail(stack[t])]
           /\ depth' = depth - 1
           /\ Tail(stack[t]) \in Seq(Frames)
           /\ Len(Tail(stack[t])) = Len(stack[t]) - 1
           /\ Held(stack[t]) = {Head(stack[t])} \cup Held(Tail(stack[t]))
           /\ Head(stack[t]) \in Frames
<1>1. stack[t] \in Seq(Frames)
  BY DEF Base, TypeOK
<1>2. Pop(t) /\ Len(stack[t]) >= 1 /\ stack[t] # << >>
  <2>1. Pop(t)
    BY Zenon DEF Leave, LeaveNested, Commit, CommitRefused, RaiseNested,
                 RaiseOutermost, RollBack
  <2>2. Len(stack[t]) >= 1
    <3>1. Len(stack[t]) > 1 \/ Len(stack[t]) = 1
      BY Zenon DEF Leave, LeaveNested, Commit, CommitRefused, RaiseNested,
                   RaiseOutermost
    <3>2. Len(stack[t]) \in Nat
      BY <1>1
    <3>3. \A n \in Nat : n > 1 \/ n = 1 => n >= 1
      OBVIOUS
    <3> QED BY <3>1, <3>2, <3>3, Zenon
  <2> QED BY <1>1, <2>1, <2>2
<1>3. lock = t /\ depth = Len(stack[t])
  BY <1>2 DEF Base, DepthIsTheOwners
<1> QED BY <1>1, <1>2, <1>3, Popped DEF Pop

LEMMA BaseLeave ==
    ASSUME Base, NEW t \in Threads, Leave(t)
    PROVE  Base'
<1>. USE NamesAssumption DEF Base, TypeOK
<1>1. /\ stack[t] # << >> /\ lock = t /\ depth = Len(stack[t])
      /\ stack' = [stack EXCEPT ![t] = Tail(stack[t])] /\ depth' = depth - 1
      /\ Tail(stack[t]) \in Seq(Frames) /\ Len(Tail(stack[t])) = Len(stack[t]) - 1
      /\ Head(stack[t]) \in Frames
  BY LeavePops
<1>. Len(stack[t]) \in Nat /\ stack[t] \in Seq(Frames)
  OBVIOUS
<1>2. Owed(t) \in Records \cup {NoRecord}
  BY <1>1 DEF Owed, Frames
<1>3. CASE LeaveNested(t)
  <2>1. TypeOK'
    BY <1>1, <1>2, <1>3 DEF LeaveNested, Resume, derived
  <2>2. DepthIsTheOwners'
    BY <1>1, <1>3 DEF LeaveNested, DepthIsTheOwners
  <2>3. LocalsFitPc'
    BY <1>1, <1>2, <1>3 DEF LeaveNested, Resume, LocalsFitPc
  <2> QED BY <2>1, <2>2, <2>3
<1>4. CASE Commit(t)
  <2>0. fate' \in [Records -> {"fresh", "pending", "committed", "undone"}]
    BY <1>4 DEF Commit, Settle
  <2>. failed' \in BOOLEAN /\ hurt' \in BOOLEAN
    BY <1>4, Zenon DEF Commit
  <2>1. TypeOK'
    BY <1>1, <1>2, <1>4, <2>0 DEF Commit, Taken, derived
  <2>2. DepthIsTheOwners'
    BY <1>1, <1>4 DEF Commit, DepthIsTheOwners
  <2>3. LocalsFitPc'
    BY <1>1, <1>2, <1>4 DEF Commit, LocalsFitPc
  <2> QED BY <2>1, <2>2, <2>3
<1>5. CASE CommitRefused(t) \/ RaiseOutermost(t)
  <2>1. RollBack(t) /\ Len(stack[t]) = 1 /\ pc[t] \in {"run", "unwind"}
        /\ UNCHANGED <<derived, owe, todo, faults, hurt, foreign>>
    BY <1>5 DEF CommitRefused, RaiseOutermost
  <2>0. fate' \in [Records -> {"fresh", "pending", "committed", "undone"}]
    BY <2>1 DEF RollBack, Settle
  <2>. failed' \in BOOLEAN /\ hurt' \in BOOLEAN
    BY <2>1, Zenon DEF RollBack
  <2>2. TypeOK'
    BY <1>1, <2>0, <2>1 DEF RollBack, derived
  <2>3. DepthIsTheOwners'
    BY <1>1, <2>1 DEF RollBack, DepthIsTheOwners
  <2>4. LocalsFitPc'
    BY <1>1, <2>1 DEF RollBack, LocalsFitPc
  <2> QED BY <2>2, <2>3, <2>4
<1>6. CASE RaiseNested(t)
  <2>1. TypeOK'
    BY <1>1, <1>6 DEF RaiseNested, derived
  <2>2. DepthIsTheOwners'
    BY <1>1, <1>6 DEF RaiseNested, DepthIsTheOwners
  <2>3. LocalsFitPc'
    BY <1>1, <1>6 DEF RaiseNested, LocalsFitPc
  <2> QED BY <2>1, <2>2, <2>3
<1> QED BY <1>3, <1>4, <1>5, <1>6 DEF Leave

(* The steps that leave every context alone.                               *)
Outside(t) ==
    \/ Swallow(t) \/ CheckDepth(t) \/ AppendCallback(t) \/ Project(t)
    \/ RecordFailure(t) \/ CallbackRaises(t) \/ CallbacksDone(t) \/ Retry(t)

LEMMA BaseOutside ==
    ASSUME Base, NEW t \in Threads, Outside(t)
    PROVE  Base'
<1>. USE NamesAssumption, BoundsAssumption DEF Base, TypeOK
<1>. owe[t] \in Records \cup {NoRecord}
  OBVIOUS
<1>1. UNCHANGED <<lock, depth, stack, failed, fate, hurt>>
  BY DEF Outside, Swallow, CheckDepth, AppendCallback, Project, RecordFailure,
         CallbackRaises, CallbacksDone, Retry, store
<1>2. DepthIsTheOwners'
  BY <1>1 DEF DepthIsTheOwners
<1>3. CASE Swallow(t)
  <2>1. TypeOK'
    BY <1>1, <1>3 DEF Swallow, store, derived
  <2>2. LocalsFitPc'
    BY <1>1, <1>3 DEF Swallow, LocalsFitPc
  <2> QED BY <1>2, <2>1, <2>2
<1>4. CASE CheckDepth(t)
  <2>1. owe[t] \in Records
    BY <1>4 DEF CheckDepth, LocalsFitPc
  <2>2. UNCHANGED <<store, derived, stack, faults, hurt, foreign>>
    BY <1>4 DEF CheckDepth
  <2>3. ~Deferred => stack[t] = << >>
    BY DEF Deferred, DepthIsTheOwners
  <2>4. CASE Deferred
    <3>1. pc' = [pc EXCEPT ![t] = "append"] /\ UNCHANGED <<owe, todo>>
      BY <1>4, <2>4 DEF CheckDepth
    <3>2. TypeOK'
      BY <2>2, <3>1 DEF store, derived
    <3>3. LocalsFitPc'
      BY <1>1, <1>4, <2>1, <3>1 DEF CheckDepth, LocalsFitPc
    <3> QED BY <1>2, <3>2, <3>3
  <2>5. CASE ~Deferred
    <3>1. /\ pc' = [pc EXCEPT ![t] = "callbacks"]
          /\ todo' = [todo EXCEPT ![t] = {owe[t]}]
          /\ owe' = [owe EXCEPT ![t] = NoRecord]
      BY <1>4, <2>5 DEF CheckDepth
    <3>2. TypeOK'
      BY <2>1, <2>2, <3>1 DEF store, derived
    <3>3. LocalsFitPc'
      BY <1>1, <2>3, <2>5, <3>1 DEF LocalsFitPc
    <3> QED BY <1>2, <3>2, <3>3
  <2> QED BY <2>4, <2>5
<1>5. CASE AppendCallback(t)
  <2>1. owe[t] \in Records
    BY <1>5 DEF AppendCallback, LocalsFitPc
  <2>2. TypeOK'
    BY <1>1, <1>5, <2>1 DEF AppendCallback, derived
  <2>3. LocalsFitPc'
    BY <1>1, <1>5 DEF AppendCallback, LocalsFitPc
  <2> QED BY <1>2, <2>2, <2>3
<1>6. CASE Project(t)
  <2>1. TypeOK'
    BY <1>1, <1>6 DEF Project, store
  <2>2. LocalsFitPc'
    BY <1>1, <1>6 DEF Project, LocalsFitPc
  <2> QED BY <1>2, <2>1, <2>2
<1>7. CASE RecordFailure(t)
  <2>1. TypeOK'
    BY <1>1, <1>7 DEF RecordFailure
  <2>2. LocalsFitPc'
    BY <1>1, <1>7 DEF RecordFailure, LocalsFitPc
  <2> QED BY <1>2, <2>1, <2>2
<1>8. CASE CallbackRaises(t)
  <2>1. TypeOK'
    BY <1>1, <1>8 DEF CallbackRaises, store, derived
  <2>2. LocalsFitPc'
    BY <1>1, <1>8 DEF CallbackRaises, LocalsFitPc
  <2> QED BY <1>2, <2>1, <2>2
<1>9. CASE CallbacksDone(t)
  <2>1. TypeOK'
    BY <1>1, <1>9 DEF CallbacksDone, store, derived
  <2>2. LocalsFitPc'
    BY <1>1, <1>9 DEF CallbacksDone, LocalsFitPc
  <2> QED BY <1>2, <2>1, <2>2
<1>10. CASE Retry(t)
  <2>1. TypeOK'
    BY <1>1, <1>10 DEF Retry
  <2>2. LocalsFitPc'
    BY <1>1, <1>10 DEF Retry, LocalsFitPc
  <2> QED BY <1>2, <2>1, <2>2
<1> QED BY <1>3, <1>4, <1>5, <1>6, <1>7, <1>8, <1>9, <1>10 DEF Outside

(* Every step enters a context, leaves one, or happens outside of both.    *)
LEMMA Steps ==
    ASSUME Next
    PROVE  \E t \in Threads :
            \/ \E f \in Fresh : Begin(t, f) \/ Nest(t, f)
            \/ Leave(t) \/ Outside(t)
BY DEF Next, Fresh, Leave, Outside

LEMMA BaseStep == Base /\ [Next]_vars => Base'
<1> SUFFICES ASSUME Base, [Next]_vars PROVE Base'
  OBVIOUS
<1>1. CASE Next
  BY <1>1, Steps, BaseEnter, BaseLeave, BaseOutside
<1>2. CASE UNCHANGED vars
  BY <1>2 DEF Base, TypeOK, DepthIsTheOwners, LocalsFitPc, vars, store, derived
<1> QED BY <1>1, <1>2

(* TypeOK, and a holder whose stack the depth counts, hold in every state: *)
(* on no path out of a context, by return or by exception, does the store  *)
(* keep the lock or a wrong depth (transactions.py, the finally block).    *)
THEOREM DepthAndLock == Spec => [](TypeOK /\ DepthIsTheOwners)
<1>1. Base => TypeOK /\ DepthIsTheOwners
  BY DEF Base
<1> QED BY BaseInit, BaseStep, <1>1, PTL DEF Spec

-----------------------------------------------------------------------------
(* What a write and the end of a boundary do to the fate of the records.   *)
LEMMA WriteEffect ==
    ASSUME Base, NEW f \in Fresh, Write(f)
    PROVE  /\ Pending' = Pending \cup {r \in Records : r = f}
           /\ Committed' = Committed
           /\ f \in Pending' \cup {Service}
<1>1. \A r \in Records : fate'[r] = IF r = f THEN "pending" ELSE fate[r]
  BY DEF Write
<1>2. f \in Records => fate[f] = "fresh"
  BY NamesAssumption DEF Fresh
<1>3. f \in Records \cup {Service}
  BY DEF Fresh
<1> QED BY <1>1, <1>2, <1>3 DEF Pending, Committed

LEMMA SettleEffect ==
    ASSUME NEW outcome \in {"committed", "undone"}, Settle(outcome)
    PROVE  /\ Pending' = {}
           /\ Committed' = IF outcome = "committed" THEN Committed \cup Pending
                           ELSE Committed
<1>1. \A r \in Records : fate'[r] = IF r \in Pending THEN outcome ELSE fate[r]
  BY DEF Settle
<1> QED BY <1>1 DEF Pending, Committed

LEMMA SameFate == fate' = fate => Pending' = Pending /\ Committed' = Committed
BY DEF Pending, Committed

(* Callbacks, projections and the contexts of a thread concern records     *)
(* whose fate they may concern.                                            *)
Sound == BoundaryOwnsPending /\ CallbacksKnown /\ ProjectedAfterCommit

LEMMA SoundInit == Init => Sound
BY NamesAssumption, EmptyHeld
   DEF Init, Sound, BoundaryOwnsPending, CallbacksKnown, ProjectedAfterCommit,
       Pending, Committed

LEMMA SoundEnter ==
    ASSUME Base, Sound, NEW t \in Threads, NEW f \in Fresh, Begin(t, f) \/ Nest(t, f)
    PROVE  Sound'
<1>. USE NamesAssumption DEF Sound
<1>1. /\ Pending' = Pending \cup {r \in Records : r = f}
      /\ Committed' = Committed /\ f \in Pending' \cup {Service}
  BY WriteEffect DEF Begin, Nest
<1>. UNCHANGED <<derived, owe, todo>> /\ pc[t] = "run" /\ lock' # NoThread
  BY DEF Begin, Nest, Base, DepthIsTheOwners
<1>2. owe[t] = NoRecord /\ stack \in [Threads -> Seq(Frames)] /\ f \in Frames
  BY DEF Base, LocalsFitPc, TypeOK, Fresh, Frames
<1>3. stack' = [stack EXCEPT ![t] = <<f>> \o stack[t]]
      /\ Held(<<f>> \o stack[t]) = {f} \cup Held(stack[t])
  <2>1. CASE Begin(t, f)
    <3>1. <<f>> \o << >> = <<f>> BY <1>2
    <3>2. stack[t] = << >> /\ stack' = [stack EXCEPT ![t] = <<f>>]
      BY <2>1, Zenon DEF Begin
    <3>3. stack' = [stack EXCEPT ![t] = <<f>> \o stack[t]]
      BY <3>1, <3>2, Zenon
    <3>4. stack[t] \in Seq(Frames)
      BY <1>2
    <3>5. Held(<<f>> \o stack[t]) = {f} \cup Held(stack[t])
      BY <1>2, <3>4, Pushed
    <3> QED BY <3>3, <3>5
  <2>2. CASE Nest(t, f)
    <3>1. stack' = [stack EXCEPT ![t] = <<f>> \o stack[t]]
      BY <2>2, Zenon DEF Nest
    <3>2. stack[t] \in Seq(Frames)
      BY <1>2
    <3>3. Held(<<f>> \o stack[t]) = {f} \cup Held(stack[t])
      BY <1>2, <3>2, Pushed
    <3> QED BY <3>1, <3>3
  <2> QED BY <2>1, <2>2
<1>4. \A u \in Threads : Held(stack'[u]) \subseteq Pending' \cup {Service}
  BY <1>1, <1>2, <1>3 DEF BoundaryOwnsPending
<1>5. \A u \in Threads : owe'[u] # NoRecord =>
        owe'[u] \in IF lock' = u THEN Pending' ELSE Committed'
  <2>1. CASE Begin(t, f)
    BY <1>1, <1>2, <2>1 DEF Begin, BoundaryOwnsPending
  <2>2. CASE Nest(t, f)
    BY <1>1, <1>2, <2>2 DEF Nest, BoundaryOwnsPending
  <2> QED BY <2>1, <2>2
<1>6. hurt' => failed'
  BY DEF Begin, Nest, FlagOnEntry, BoundaryOwnsPending, Base, DepthIsTheOwners
<1>7. CallbacksKnown'
  BY <1>1 DEF Begin, Nest, CallbacksKnown
<1>8. ProjectedAfterCommit'
  BY <1>1 DEF derived, ProjectedAfterCommit
<1> QED BY <1>4, <1>5, <1>6, <1>7, <1>8 DEF BoundaryOwnsPending

LEMMA SoundLeave ==
    ASSUME Base, Sound, NEW t \in Threads, Leave(t)
    PROVE  Sound'
<1>. USE NamesAssumption DEF Sound
<1>1. /\ lock = t
      /\ stack' = [stack EXCEPT ![t] = Tail(stack[t])]
      /\ Len(Tail(stack[t])) = Len(stack[t]) - 1
      /\ Held(stack[t]) = {Head(stack[t])} \cup Held(Tail(stack[t]))
      /\ Head(stack[t]) \in Frames /\ Tail(stack[t]) \in Seq(Frames)
  BY LeavePops
<1>2. stack \in [Threads -> Seq(Frames)] /\ owe \in [Threads -> Records \cup {NoRecord}]
      /\ todo \in [Threads -> SUBSET Records]
  BY DEF Base, TypeOK
<1>3. Owed(t) # NoRecord => Owed(t) \in Pending
  BY <1>1 DEF Owed, BoundaryOwnsPending, Frames
<1>4. \A u \in Threads : Held(stack'[u]) \subseteq Held(stack[u])
  BY <1>1, <1>2
<1>5. Len(stack[t]) = 1 => \A u \in Threads : Held(stack'[u]) = {}
  <2>1. Len(stack[t]) = 1 => stack'[t] = << >>
    BY <1>1, <1>2
  <2>2. \A u \in Threads : u # t => stack'[u] = << >>
    BY <1>1, <1>2 DEF Base, DepthIsTheOwners
  <2> QED BY <2>1, <2>2, EmptyHeld
<1>6. \A u \in Threads \ {t} : owe[u] # NoRecord => owe[u] \in Committed
  BY <1>1 DEF BoundaryOwnsPending
<1>7. CASE LeaveNested(t)
  <2>1. UNCHANGED <<lock, failed, callbacks, fate, derived, todo, hurt>>
        /\ owe' = [owe EXCEPT ![t] = Owed(t)]
    BY <1>7 DEF LeaveNested
  <2>2. Pending' = Pending /\ Committed' = Committed
    BY <2>1, SameFate
  <2>3. BoundaryOwnsPending'
    BY <1>1, <1>2, <1>3, <1>4, <1>6, <2>1, <2>2 DEF BoundaryOwnsPending
  <2>4. CallbacksKnown' /\ ProjectedAfterCommit'
    BY <2>1, <2>2 DEF CallbacksKnown, ProjectedAfterCommit, derived
  <2> QED BY <2>3, <2>4
<1>8. CASE Commit(t)
  <2>1. /\ UNCHANGED derived /\ lock' = NoThread /\ callbacks' = {} /\ Len(stack[t]) = 1
        /\ todo' = [todo EXCEPT ![t] = callbacks]
        /\ owe' = [owe EXCEPT ![t] = Owed(t)]
    BY <1>8 DEF Commit, Taken
  <2>2. Pending' = {} /\ Committed' = Committed \cup Pending
    BY <1>8, SettleEffect DEF Commit
  <2>3. BoundaryOwnsPending'
    BY <1>2, <1>3, <1>5, <1>6, <2>1, <2>2 DEF BoundaryOwnsPending
  <2>4. CallbacksKnown' /\ ProjectedAfterCommit'
    BY <1>2, <2>1, <2>2 DEF CallbacksKnown, ProjectedAfterCommit, derived
  <2> QED BY <2>3, <2>4
<1>9. CASE CommitRefused(t) \/ RaiseOutermost(t)
  <2>1. /\ UNCHANGED <<derived, owe, todo>> /\ lock' = NoThread /\ callbacks' = {}
        /\ Len(stack[t]) = 1 /\ pc[t] \in {"run", "unwind"}
    BY <1>9 DEF CommitRefused, RaiseOutermost, RollBack
  <2>2. Pending' = {} /\ Committed' = Committed
    BY <1>9, SettleEffect DEF CommitRefused, RaiseOutermost, RollBack
  <2>3. owe[t] = NoRecord
    BY <2>1 DEF Base, LocalsFitPc
  <2>4. BoundaryOwnsPending'
    BY <1>5, <1>6, <2>1, <2>2, <2>3 DEF BoundaryOwnsPending
  <2>5. CallbacksKnown' /\ ProjectedAfterCommit'
    BY <2>1, <2>2 DEF CallbacksKnown, ProjectedAfterCommit, derived
  <2> QED BY <2>4, <2>5
<1>10. CASE RaiseNested(t)
  <2>1. UNCHANGED <<lock, callbacks, fate, derived, owe, todo>> /\ failed'
    BY <1>10 DEF RaiseNested
  <2>2. Pending' = Pending /\ Committed' = Committed
    BY <2>1, SameFate
  <2>3. BoundaryOwnsPending'
    BY <1>1, <1>4, <2>1, <2>2 DEF BoundaryOwnsPending
  <2>4. CallbacksKnown' /\ ProjectedAfterCommit'
    BY <2>1, <2>2 DEF CallbacksKnown, ProjectedAfterCommit, derived
  <2> QED BY <2>3, <2>4
<1> QED BY <1>7, <1>8, <1>9, <1>10 DEF Leave

LEMMA OutsideKeepsStore ==
    ASSUME Base, NEW t \in Threads, Outside(t)
    PROVE  /\ UNCHANGED <<lock, depth, stack, failed, fate, hurt>>
           /\ Pending' = Pending /\ Committed' = Committed
<1>1. UNCHANGED <<lock, depth, stack, failed, fate, hurt>>
  BY DEF Outside, Swallow, CheckDepth, AppendCallback, Project, RecordFailure,
         CallbackRaises, CallbacksDone, Retry, store
<1> QED BY <1>1, SameFate

LEMMA SoundOutside ==
    ASSUME Base, Sound, NEW t \in Threads, Outside(t)
    PROVE  Sound'
<1>. USE NamesAssumption DEF Sound
<1>1. UNCHANGED <<lock, depth, stack, failed, fate, hurt>>
      /\ Pending' = Pending /\ Committed' = Committed
  BY OutsideKeepsStore
<1>2. /\ owe \in [Threads -> Records \cup {NoRecord}]
      /\ todo \in [Threads -> SUBSET Records] /\ owe[t] \in Records \cup {NoRecord}
  BY DEF Base, TypeOK
<1>3. ASSUME owe' = [owe EXCEPT ![t] = NoRecord] \/ owe' = owe
      PROVE  BoundaryOwnsPending'
  BY <1>1, <1>2, <1>3 DEF BoundaryOwnsPending
<1>4. CASE Swallow(t) \/ CallbacksDone(t)
  <2>1. UNCHANGED <<callbacks, derived, owe, todo>>
    BY <1>4 DEF Swallow, CallbacksDone, store
  <2> QED BY <1>1, <1>3, <2>1 DEF CallbacksKnown, ProjectedAfterCommit, derived
<1>5. CASE CheckDepth(t)
  <2>1. UNCHANGED <<callbacks, derived>>
    BY <1>5 DEF CheckDepth, store
  <2>2. owe[t] \in Records
    BY <1>2, <1>5 DEF CheckDepth, Base, LocalsFitPc
  <2>3. BoundaryOwnsPending'
    BY <1>3, <1>5 DEF CheckDepth
  <2>4. ASSUME ~Deferred PROVE owe[t] \in Committed
    <3>1. lock # t
      BY <2>4 DEF Deferred, Base, TypeOK, DepthIsTheOwners
    <3> QED BY <2>2, <3>1 DEF BoundaryOwnsPending
  <2>5. \A u \in Threads : todo'[u] \subseteq Committed
    BY <1>2, <1>5, <2>4 DEF CheckDepth, CallbacksKnown
  <2> QED BY <1>1, <2>1, <2>3, <2>5 DEF CallbacksKnown, ProjectedAfterCommit, derived
<1>6. CASE AppendCallback(t)
  <2>1. UNCHANGED <<derived, todo>> /\ callbacks' = callbacks \cup {owe[t]}
    BY <1>6 DEF AppendCallback
  <2>2. owe[t] \in Committed \cup Pending
    BY <1>6 DEF AppendCallback, Base, LocalsFitPc, BoundaryOwnsPending
  <2>3. BoundaryOwnsPending'
    BY <1>3, <1>6 DEF AppendCallback
  <2> QED BY <1>1, <2>1, <2>2, <2>3 DEF CallbacksKnown, ProjectedAfterCommit, derived
<1>7. CASE Project(t) \/ RecordFailure(t)
  <2>1. PICK r \in todo[t] :
          /\ indexed' \cup failures' = indexed \cup failures \cup {r}
          /\ todo' = [todo EXCEPT ![t] = @ \ {r}]
    BY <1>7 DEF Project, RecordFailure
  <2>2. owe' = owe /\ callbacks' \in {callbacks, {}}
    BY <1>7 DEF Project, RecordFailure, store
  <2> QED BY <1>1, <1>2, <1>3, <2>1, <2>2 DEF CallbacksKnown, ProjectedAfterCommit
<1>8. CASE CallbackRaises(t)
  <2>1. UNCHANGED <<callbacks, derived>> /\ todo' = [todo EXCEPT ![t] = {}]
        /\ owe' = [owe EXCEPT ![t] = NoRecord]
    BY <1>8 DEF CallbackRaises, store
  <2> QED BY <1>1, <1>2, <1>3, <2>1 DEF CallbacksKnown, ProjectedAfterCommit, derived
<1>9. CASE Retry(t)
  <2>1. UNCHANGED <<owe, todo>> /\ callbacks' = {}
        /\ indexed' \cup failures' \subseteq indexed \cup failures
    BY <1>9 DEF Retry
  <2> QED BY <1>1, <1>3, <2>1 DEF CallbacksKnown, ProjectedAfterCommit
<1> QED BY <1>4, <1>5, <1>6, <1>7, <1>8, <1>9 DEF Outside

LEMMA SoundStep == Base /\ Sound /\ [Next]_vars => Sound'
<1> SUFFICES ASSUME Base, Sound, [Next]_vars PROVE Sound'
  OBVIOUS
<1>1. CASE Next
  BY <1>1, Steps, SoundEnter, SoundLeave, SoundOutside
<1>2. CASE UNCHANGED vars
  BY <1>2 DEF Sound, BoundaryOwnsPending, CallbacksKnown, ProjectedAfterCommit,
              Pending, Committed, vars, store, derived
<1> QED BY <1>1, <1>2

(* A derived index or a recorded failure never refers to a record that was *)
(* rolled back: projections run behind the commit of the outermost context *)
(* (transactions.py, the loop after the lock is released), whichever       *)
(* thread queued them.                                                     *)
THEOREM NothingDerivedIsUndone == Spec => []ProjectedAfterCommit
<1>1. Sound => ProjectedAfterCommit
  BY DEF Sound
<1> QED BY BaseInit, BaseStep, SoundInit, SoundStep, <1>1, PTL DEF Spec

(* A boundary in which some context failed commits nothing, even when the  *)
(* failure was swallowed and further contexts were entered and left.       *)
THEOREM FailureSpoilsBoundary == Spec => SpoiledNeverCommits
<1>. DEFINE A == \A r \in Records :
                    fate[r] = "pending" /\ fate'[r] = "committed" => ~hurt
<1>1. ASSUME Base, Sound, [Next]_vars PROVE A
  <2>1. ASSUME NEW r \in Records, fate[r] = "pending", fate'[r] = "committed"
        PROVE  ~hurt
    <3>1. Next
      BY <1>1, <2>1 DEF vars, store
    <3>2. PICK t \in Threads : \/ \E f \in Fresh : Begin(t, f) \/ Nest(t, f)
                               \/ Leave(t) \/ Outside(t)
      BY <3>1, Steps
    <3>3. Commit(t) \/ \E f \in Fresh : Begin(t, f) \/ Nest(t, f)
      BY <2>1, <3>2 DEF Leave, LeaveNested, CommitRefused, RaiseNested,
        RaiseOutermost, RollBack, Settle, Pending, Outside, Swallow, CheckDepth,
        AppendCallback, Project, RecordFailure, CallbackRaises, CallbacksDone,
        Retry, store
    <3>4. Commit(t)
      <4>1. ASSUME NEW f \in Fresh, Begin(t, f) \/ Nest(t, f) PROVE FALSE
        BY <2>1, <4>1 DEF Begin, Nest, Write
      <4> QED BY <3>3, <4>1
    <3>5. ~failed /\ lock # NoThread
      BY <1>1, <3>4, LeavePops, NamesAssumption DEF Commit, Leave
    <3> QED BY <1>1, <3>5 DEF Sound, BoundaryOwnsPending
  <2> QED BY <2>1
<1>2. SpoiledNeverCommits <=> [][A]_vars
  BY DEF SpoiledNeverCommits
<1> QED BY BaseInit, BaseStep, SoundInit, SoundStep, <1>1, <1>2, PTL DEF Spec

-----------------------------------------------------------------------------
(* Where a record that was written can be found until it is projected.     *)
Account == PendingScheduled /\ AccountedUnlessForeign

LEMMA AccountInit == Init => Account
BY DEF Init, Account, PendingScheduled, AccountedUnlessForeign, Pending, Committed

LEMMA AccountEnter ==
    ASSUME Base, Sound, Account, NEW t \in Threads, NEW f \in Fresh,
           Begin(t, f) \/ Nest(t, f)
    PROVE  Account'
<1>. USE NamesAssumption DEF Account
<1>1. Pending' = Pending \cup {r \in Records : r = f} /\ Committed' = Committed
  BY WriteEffect DEF Begin, Nest
<1>2. UNCHANGED <<derived, owe, todo, faults, foreign>>
  BY DEF Begin, Nest
<1>3. stack \in [Threads -> Seq(Frames)] /\ f \in Frames
  BY DEF Base, TypeOK, Fresh, Frames
<1>4. AccountedUnlessForeign'
  BY <1>1, <1>2 DEF AccountedUnlessForeign, derived
<1>5. CASE Begin(t, f)
  <2>1. 1 \in 1..Len(<<f>>) /\ <<f>>[1] = f
    OBVIOUS
  <2>2. stack' = [stack EXCEPT ![t] = <<f>>] /\ f \in Held(<<f>>)
    BY <1>5, <2>1 DEF Begin, Held
  <2>3. Pending = {}
    BY <1>5 DEF Begin, Sound, BoundaryOwnsPending
  <2>4. f \in Held(stack'[t])
    BY <1>3, <2>2
  <2>5. PendingScheduled'
    BY <1>1, <2>3, <2>4 DEF PendingScheduled
  <2> QED BY <1>4, <2>5
<1>6. CASE Nest(t, f)
  <2>1. stack' = [stack EXCEPT ![t] = <<f>> \o stack[t]]
        /\ Held(<<f>> \o stack[t]) = {f} \cup Held(stack[t])
        /\ UNCHANGED <<failed, callbacks>>
    BY <1>3, <1>6, Pushed DEF Nest, FlagOnEntry
  <2>2. f \in Held(stack'[t]) /\ \A u \in Threads : Held(stack[u]) \subseteq Held(stack'[u])
    BY <1>3, <2>1
  <2>3. PendingScheduled'
    BY <1>1, <1>2, <2>1, <2>2 DEF PendingScheduled
  <2> QED BY <1>4, <2>3
<1> QED BY <1>5, <1>6

LEMMA AccountLeave ==
    ASSUME Base, Sound, Account, NEW t \in Threads, Leave(t)
    PROVE  Account'
<1>. USE NamesAssumption DEF Account
<1>1. /\ lock = t /\ stack[t] # << >>
      /\ stack' = [stack EXCEPT ![t] = Tail(stack[t])]
      /\ Len(Tail(stack[t])) = Len(stack[t]) - 1
      /\ Held(stack[t]) = {Head(stack[t])} \cup Held(Tail(stack[t]))
      /\ Tail(stack[t]) \in Seq(Frames)
  BY LeavePops
<1>2. stack \in [Threads -> Seq(Frames)] /\ owe \in [Threads -> Records \cup {NoRecord}]
      /\ todo \in [Threads -> SUBSET Records]
  BY DEF Base, TypeOK
<1>3. Held(stack[t]) \subseteq {Owed(t), Service} \cup Held(stack'[t])
  BY <1>1, <1>2 DEF Owed
<1>4. \A u \in Threads \ {t} : stack'[u] = stack[u]
  BY <1>1, <1>2
<1>5. UNCHANGED <<derived, faults, foreign>>
  BY DEF Leave, LeaveNested, Commit, CommitRefused, RaiseNested, RaiseOutermost
<1>6. Leave(t) => pc[t] \in {"run", "unwind"}
  BY DEF Leave, LeaveNested, Commit, CommitRefused, RaiseNested, RaiseOutermost
<1>7. owe[t] = NoRecord /\ todo[t] = {}
  BY <1>6 DEF Base, LocalsFitPc
<1>8. CASE LeaveNested(t)
  <2>1. UNCHANGED <<failed, callbacks, fate, todo>> /\ owe' = [owe EXCEPT ![t] = Owed(t)]
    BY <1>8 DEF LeaveNested
  <2>2. Pending' = Pending /\ Committed' = Committed
    BY <2>1, SameFate
  <2>3. Service \notin Pending /\ NoRecord \notin Pending /\ NoRecord \notin Committed
    BY DEF Pending, Committed
  <2>4. owe'[t] = Owed(t) /\ \A u \in Threads \ {t} : owe'[u] = owe[u]
    BY <1>2, <2>1
  <2>5. PendingScheduled'
    <3>1. ASSUME faults = 0, ~failed, NEW r \in Pending, r \notin callbacks \cup foreign
          PROVE  \E u \in Threads : r = owe'[u] \/ r \in Held(stack'[u])
      <4>1. PICK u \in Threads : r = owe[u] \/ r \in Held(stack[u])
        BY <3>1 DEF PendingScheduled
      <4>2. CASE u = t
        BY <1>3, <1>7, <2>3, <2>4, <4>1, <4>2
      <4>3. CASE u # t
        BY <1>4, <2>4, <4>1, <4>3
      <4> QED BY <4>2, <4>3
    <3> QED BY <1>5, <2>1, <2>2, <3>1 DEF PendingScheduled
  <2>6. AccountedUnlessForeign'
    BY <1>5, <1>7, <2>1, <2>2, <2>3, <2>4 DEF AccountedUnlessForeign, derived
  <2> QED BY <2>5, <2>6
<1>9. CASE Commit(t)
  <2>1. /\ ~failed /\ Len(stack[t]) = 1
        /\ todo' = [todo EXCEPT ![t] = callbacks]
        /\ owe' = [owe EXCEPT ![t] = Owed(t)]
    BY <1>9 DEF Commit, Taken
  <2>2. Pending' = {} /\ Committed' = Committed \cup Pending
    BY <1>9, SettleEffect DEF Commit
  <2>3. Service \notin Pending /\ NoRecord \notin Pending /\ NoRecord \notin Committed
    BY DEF Pending, Committed
  <2>4. owe'[t] = Owed(t) /\ todo'[t] = callbacks
        /\ \A u \in Threads \ {t} : owe'[u] = owe[u] /\ todo'[u] = todo[u]
    BY <1>2, <2>1
  <2>5. Held(stack[t]) \subseteq {Owed(t), Service}
    <3>1. stack'[t] = << >>
      BY <1>1, <1>2, <2>1
    <3> QED BY <1>3, <3>1, EmptyHeld
  <2>6. \A u \in Threads \ {t} : Held(stack[u]) = {} /\ owe[u] \notin Pending
    <3>1. \A u \in Threads \ {t} : stack[u] = << >>
      BY <1>1 DEF Base, DepthIsTheOwners
    <3>2. ASSUME NEW u \in Threads \ {t}, owe[u] \in Pending PROVE FALSE
      <4>1. owe[u] \in Committed
        BY <1>1, <2>3, <3>2 DEF Sound, BoundaryOwnsPending
      <4> QED BY <3>2, <4>1 DEF Pending, Committed
    <3> QED BY <3>1, <3>2, EmptyHeld
  <2>7. ASSUME faults = 0, NEW r \in Pending
        PROVE  r \in foreign \/ r \in todo'[t] \/ r = owe'[t]
    <3>1. CASE r \in callbacks \cup foreign
      BY <2>4, <3>1
    <3>2. CASE \E u \in Threads : r = owe[u] \/ r \in Held(stack[u])
      BY <1>7, <2>3, <2>4, <2>5, <2>6, <3>2
    <3> QED BY <2>1, <2>7, <3>1, <3>2 DEF PendingScheduled
  <2>8. ASSUME faults = 0, NEW r \in Committed
        PROVE  \/ r \in indexed \cup failures \cup foreign
               \/ \E u \in Threads : r \in todo'[u] \/ r = owe'[u]
    BY <1>7, <2>3, <2>4, <2>8 DEF AccountedUnlessForeign
  <2>9. AccountedUnlessForeign'
    BY <1>5, <2>2, <2>7, <2>8 DEF AccountedUnlessForeign, derived
  <2>10. PendingScheduled'
    BY <2>2 DEF PendingScheduled
  <2> QED BY <2>9, <2>10
<1>10. CASE CommitRefused(t) \/ RaiseOutermost(t)
  <2>1. UNCHANGED <<owe, todo>>
    BY <1>10 DEF CommitRefused, RaiseOutermost
  <2>2. Pending' = {} /\ Committed' = Committed
    BY <1>10, SettleEffect DEF CommitRefused, RaiseOutermost, RollBack
  <2> QED BY <1>5, <2>1, <2>2 DEF PendingScheduled, AccountedUnlessForeign, derived
<1>11. CASE RaiseNested(t)
  <2>1. UNCHANGED <<fate, owe, todo>> /\ failed'
    BY <1>11 DEF RaiseNested
  <2>2. Committed' = Committed
    BY <2>1, SameFate
  <2> QED BY <1>5, <2>1, <2>2 DEF PendingScheduled, AccountedUnlessForeign, derived
<1> QED BY <1>8, <1>9, <1>10, <1>11 DEF Leave

LEMMA AccountOutside ==
    ASSUME Base, Sound, Account, NEW t \in Threads, Outside(t)
    PROVE  Account'
<1>. USE NamesAssumption DEF Account
<1>1. UNCHANGED <<lock, depth, stack, failed, fate, hurt>>
      /\ Pending' = Pending /\ Committed' = Committed
  BY OutsideKeepsStore
<1>2. /\ owe \in [Threads -> Records \cup {NoRecord}]
      /\ todo \in [Threads -> SUBSET Records]
  BY DEF Base, TypeOK
<1>3. NoRecord \notin Pending /\ NoRecord \notin Committed
      /\ \A r \in Committed : r \notin Pending
  BY DEF Pending, Committed
<1>4. lock = NoThread => Pending = {}
  BY DEF Sound, BoundaryOwnsPending
<1>5. CASE Swallow(t) \/ CallbacksDone(t)
  BY <1>1, <1>5 DEF Swallow, CallbacksDone, PendingScheduled,
                    AccountedUnlessForeign, store, derived
<1>6. CASE CheckDepth(t)
  <2>1. UNCHANGED <<callbacks, derived, faults, foreign>>
    BY <1>6 DEF CheckDepth, store
  <2>2. CASE Deferred
    <3>1. UNCHANGED <<owe, todo>>
      BY <1>6, <2>2 DEF CheckDepth
    <3> QED BY <1>1, <2>1, <3>1 DEF PendingScheduled, AccountedUnlessForeign, derived
  <2>3. CASE ~Deferred
    <3>1. lock # t /\ todo[t] = {} /\ owe[t] \notin Pending
      BY <1>3, <1>6, <2>3 DEF CheckDepth, Deferred, Base, TypeOK, DepthIsTheOwners,
        LocalsFitPc, Sound, BoundaryOwnsPending
    <3>2. /\ owe'[t] = NoRecord /\ todo'[t] = {owe[t]}
          /\ \A u \in Threads \ {t} : owe'[u] = owe[u] /\ todo'[u] = todo[u]
      BY <1>2, <1>6, <2>3 DEF CheckDepth
    <3>3. PendingScheduled'
      BY <1>1, <2>1, <3>1, <3>2 DEF PendingScheduled
    <3>4. AccountedUnlessForeign'
      BY <1>1, <1>3, <2>1, <3>1, <3>2 DEF AccountedUnlessForeign, derived
    <3> QED BY <3>3, <3>4
  <2> QED BY <2>2, <2>3
<1>7. CASE AppendCallback(t)
  <2>1. /\ UNCHANGED <<derived, todo, faults>>
        /\ callbacks' = callbacks \cup {owe[t]}
        /\ foreign' = IF lock = t THEN foreign ELSE foreign \cup {owe[t]}
    BY <1>7 DEF AppendCallback
  <2>2. /\ owe'[t] = NoRecord
        /\ \A u \in Threads \ {t} : owe'[u] = owe[u]
    BY <1>2, <1>7 DEF AppendCallback
  <2>3. lock = t => owe[t] \in Pending
    BY <1>7 DEF AppendCallback, Base, LocalsFitPc, Sound, BoundaryOwnsPending
  <2>4. PendingScheduled'
    BY <1>1, <2>1, <2>2 DEF PendingScheduled
  <2>5. AccountedUnlessForeign'
    BY <1>1, <1>3, <2>1, <2>2, <2>3 DEF AccountedUnlessForeign, derived
  <2> QED BY <2>4, <2>5
<1>8. CASE Project(t) \/ RecordFailure(t)
  <2>1. PICK r \in todo[t] :
          /\ indexed' \cup failures' = indexed \cup failures \cup {r}
          /\ todo' = [todo EXCEPT ![t] = @ \ {r}]
    BY <1>8 DEF Project, RecordFailure
  <2>2. /\ UNCHANGED <<owe, faults, foreign>>
        /\ callbacks' = callbacks \/ Pending = {}
    BY <1>4, <1>8 DEF Project, RecordFailure, store
  <2>3. todo'[t] = todo[t] \ {r} /\ \A u \in Threads \ {t} : todo'[u] = todo[u]
    BY <1>2, <2>1
  <2>4. PendingScheduled'
    BY <1>1, <2>2 DEF PendingScheduled
  <2>5. ASSUME faults' = 0, NEW q \in Committed'
        PROVE  \/ q \in indexed' \cup failures' \cup foreign'
               \/ \E u \in Threads : q \in todo'[u] \/ q = owe'[u]
    <3>1. CASE q \in indexed \cup failures \cup foreign \cup {r}
      BY <2>1, <2>2, <3>1
    <3>2. CASE q # r /\ \E u \in Threads : q \in todo[u] \/ q = owe[u]
      BY <2>2, <2>3, <3>2
    <3> QED BY <1>1, <2>2, <2>5, <3>1, <3>2 DEF AccountedUnlessForeign
  <2>6. AccountedUnlessForeign'
    BY <2>5, Zenon DEF AccountedUnlessForeign
  <2> QED BY <2>4, <2>6
<1>9. CASE CallbackRaises(t)
  <2>1. faults' # 0
    BY <1>9, BoundsAssumption DEF CallbackRaises, Base, TypeOK
  <2> QED BY <2>1 DEF PendingScheduled, AccountedUnlessForeign
<1>10. CASE Retry(t)
  <2>1. UNCHANGED <<owe, todo, faults, foreign>> /\ lock = NoThread
        /\ indexed \cup failures \subseteq indexed' \cup failures'
    BY <1>10 DEF Retry
  <2>2. PendingScheduled'
    BY <1>1, <1>4, <2>1 DEF PendingScheduled
  <2>3. AccountedUnlessForeign'
    BY <1>1, <2>1 DEF AccountedUnlessForeign
  <2> QED BY <2>2, <2>3
<1> QED BY <1>5, <1>6, <1>7, <1>8, <1>9, <1>10 DEF Outside

LEMMA AccountStep == Base /\ Sound /\ Account /\ [Next]_vars => Account'
<1> SUFFICES ASSUME Base, Sound, Account, [Next]_vars PROVE Account'
  OBVIOUS
<1>1. CASE Next
  BY <1>1, Steps, AccountEnter, AccountLeave, AccountOutside
<1>2. CASE UNCHANGED vars
  BY <1>2 DEF Account, PendingScheduled, AccountedUnlessForeign,
              Pending, Committed, vars, store, derived
<1> QED BY <1>1, <1>2

(* While no callback raises, a committed record is indexed, recorded as    *)
(* failed, or on its way, unless its callback was queued without the lock: *)
(* the unlocked test of after_commit is the only way a projection is lost. *)
THEOREM OnlyForeignIsLost == Spec => []AccountedUnlessForeign
<1>1. Account => AccountedUnlessForeign
  BY DEF Account
<1> QED BY BaseInit, BaseStep, SoundInit, SoundStep, AccountInit, AccountStep,
           <1>1, PTL DEF Spec

-----------------------------------------------------------------------------
(* The witness. *)

Heads == [seq : Nat, hash : Nat]
Kinds == {"history_rollback", "history_divergence"}
Alarms == [kind : Kinds, witness : Heads, current : Nat]
Rows == [hash : Nat, finding : Alarms \cup {NoFinding}]
Places == {"idle", "read", "compare", "write", "report"}

\* The whole chain, the open transaction included.
All == chain \o tail

\* A head that some chain had: its hash was given out.
Known(w) == w \in Heads /\ w.hash \in 1..born

IsChain ==
  /\ chain \in Seq(Rows) /\ Len(chain) > 0 /\ All \in Seq(Rows)
  /\ born \in Nat /\ \A i \in 1..Len(All) : All[i].hash \in 1..born
  /\ restores \in Nat

WriterTyped ==
  /\ tail \in Seq(Rows)
  /\ writer \in Processes \cup {NoProcess} /\ (writer = NoProcess => tail = << >>)

ChecksTyped ==
  /\ checking \in [Processes -> Places]
  /\ head \in [Processes -> Heads] /\ seen \in [Processes -> Heads]
  /\ finding \in [Processes -> Alarms \cup {NoFinding}]

FileTyped ==
  /\ overlapped \in BOOLEAN /\ early \in BOOLEAN
  /\ shard \in witnessed /\ \A w \in witnessed : Known(w)

WitnessTypes == IsChain /\ WriterTyped /\ ChecksTyped /\ FileTyped

\* What a running check has read is what it takes it for: its own view holds the
\* head, and the file still has what was read there unless another check wrote.
CheckOK(p) ==
  /\ checking[p] # "idle" => Known(head[p]) /\ Holds(View(p), head[p])
  /\ checking[p] \in {"compare", "write"} =>
       /\ seen[p] \in witnessed /\ seen[p].seq <= head[p].seq
       /\ ~overlapped => seen[p] = shard
  /\ checking[p] = "write" => Holds(View(p), seen[p])

\* Nothing has happened that may lose a witnessed head.
Kept == restores = 0 /\ ~early
Cause(f) == \/ ~Kept
            \/ overlapped /\ f.kind = "history_rollback"

AlarmsOK ==
  /\ Kept => \A w \in witnessed : Holds(chain, w)
  /\ \A p \in Processes :
       /\ checking[p] = "read" /\ ~overlapped /\ Kept => shard.seq <= head[p].seq
       /\ checking[p] = "report" => finding[p] \in Alarms /\ Cause(finding[p])
  /\ \A i \in 1..Len(All) : All[i].finding # NoFinding => Cause(All[i].finding)

\* The file names the last of the heads it held: a chain that holds it holds all.
LastOK ==
  ~overlapped =>
    \A w \in witnessed : w.seq <= shard.seq /\ (Holds(All, shard) => Holds(All, w))

IInv == WitnessTypes /\ (\A p \in Processes : CheckOK(p)) /\ AlarmsOK /\ LastOK

----------------------------------------------------------------------------
(* Chains and the heads they hold.                                         *)

LEMMA HoldsIs ==
  ASSUME NEW c \in Seq(Rows), NEW w \in Heads, w.hash # 0
  PROVE  Holds(c, w) <=> w.seq \in 1..Len(c) /\ c[w.seq].hash = w.hash
  BY DEF Holds, HashAt, Heads

\* A head stays in a chain that grows.
LEMMA HoldsLonger ==
  ASSUME NEW c \in Seq(Rows), NEW d \in Seq(Rows), NEW w \in Heads, w.hash # 0, Holds(c, w)
  PROVE  Holds(c \o d, w)
<1>1. c \o d \in Seq(Rows) /\ Len(c \o d) = Len(c) + Len(d)
  OBVIOUS
<1>2. \A i \in 1..Len(c) : (c \o d)[i] = c[i]
  OBVIOUS
<1>3. w.seq \in 1..Len(c) /\ c[w.seq].hash = w.hash
  BY HoldsIs
<1>4. Holds(c \o d, w) <=> w.seq \in 1..Len(c \o d) /\ (c \o d)[w.seq].hash = w.hash
  BY <1>1, HoldsIs
<1> QED BY <1>1, <1>2, <1>3, <1>4

\* A new entry is not a head that was known before.
LEMMA HoldsFresh ==
  ASSUME NEW c \in Seq(Rows), NEW e \in Rows, NEW w \in Heads, w.hash # 0, w.hash # e.hash,
         Holds(c \o <<e>>, w)
  PROVE  Holds(c, w)
<1>1. c \o <<e>> \in Seq(Rows) /\ Len(c \o <<e>>) = Len(c) + 1
  OBVIOUS
<1>2. (c \o <<e>>)[Len(c) + 1] = e /\ \A i \in 1..Len(c) : (c \o <<e>>)[i] = c[i]
  OBVIOUS
<1>3. w.seq \in 1..Len(c) + 1 /\ (c \o <<e>>)[w.seq].hash = w.hash
  BY <1>1, HoldsIs
<1>4. w.seq \in 1..Len(c) /\ c[w.seq].hash = w.hash
  BY <1>2, <1>3
<1> QED BY <1>4, HoldsIs

\* A restored chain holds the heads below the cut.
LEMMA HoldsShorter ==
  ASSUME NEW c \in Seq(Rows), NEW n \in 1..Len(c), NEW w \in Heads, w.hash # 0
  PROVE  Holds(SubSeq(c, 1, n), w) <=> w.seq <= n /\ Holds(c, w)
<1>1. /\ SubSeq(c, 1, n) \in Seq(Rows) /\ Len(SubSeq(c, 1, n)) = n
      /\ \A i \in 1..n : SubSeq(c, 1, n)[i] = c[i]
  OBVIOUS
<1>2. w.seq \in Nat
  BY DEF Heads
<1>3. Holds(SubSeq(c, 1, n), w) <=> w.seq \in 1..n /\ SubSeq(c, 1, n)[w.seq].hash = w.hash
  BY <1>1, HoldsIs
<1>4. Holds(c, w) <=> w.seq \in 1..Len(c) /\ c[w.seq].hash = w.hash
  BY HoldsIs
<1> QED BY <1>1, <1>2, <1>3, <1>4

\* The head of a chain is held by it.
LEMMA HeadHeld ==
  ASSUME NEW c \in Seq(Rows), Len(c) > 0, NEW n \in Nat, \A i \in 1..Len(c) : c[i].hash \in 1..n
  PROVE  HeadOf(c) \in Heads /\ HeadOf(c).hash \in 1..n /\ HeadOf(c).seq = Len(c) /\ Holds(c, HeadOf(c))
<1>1. c[Len(c)].hash \in 1..n /\ Len(c) \in 1..Len(c)
  OBVIOUS
<1> QED BY <1>1 DEF HeadOf, Heads, Holds, HashAt

\* What a process sees lies between the committed chain and the whole.
LEMMA ViewIs ==
  ASSUME WitnessTypes, NEW p \in Processes
  PROVE  /\ All \in Seq(Rows) /\ View(p) \in Seq(Rows)
         /\ View(p) \in {chain, All} /\ Len(chain) <= Len(View(p)) /\ Len(View(p)) <= Len(All)
         /\ writer = NoProcess => All = chain
         /\ \A i \in 1..Len(View(p)) : View(p)[i].hash \in 1..born
<1>1. All \in Seq(Rows) /\ Len(All) = Len(chain) + Len(tail)
  BY DEF All, WitnessTypes, WriterTyped, ChecksTyped, FileTyped, IsChain
<1>2. \A i \in 1..Len(chain) : All[i] = chain[i]
  BY DEF All, WitnessTypes, WriterTyped, ChecksTyped, FileTyped, IsChain
<1>3. writer = NoProcess => All = chain
  BY DEF All, WitnessTypes, WriterTyped, ChecksTyped, FileTyped, IsChain
<1> QED BY <1>1, <1>2, <1>3 DEF View, All, WitnessTypes, WriterTyped, ChecksTyped, FileTyped, IsChain

----------------------------------------------------------------------------
(* What a step does to the chain: one of four things.                      *)

Same == /\ All' = All /\ chain' \in {chain, All}
        /\ born' = born /\ restores' = restores

Grown(e) ==
  /\ All' = All \o <<e>> /\ chain' \in {chain, chain \o <<e>>}
  /\ e.hash = born + 1 /\ born' = born + 1 /\ restores' = restores
  /\ e.finding = NoFinding
       \/ \E p \in Processes : checking[p] = "report" /\ e.finding = finding[p]

Dropped == All' = chain /\ chain' = chain /\ born' = born /\ restores' = restores

Lost(n) ==
  /\ writer = NoProcess /\ chain' = SubSeq(chain, 1, n) /\ All' = chain'
  /\ born' = born /\ restores' = restores + 1

Written == \E p \in Processes : WriteShard(p)
FileKept == UNCHANGED <<shard, overlapped, early, witnessed>>

LEMMA ChainStep ==
  ASSUME WitnessTypes, NextWitness
  PROVE  /\ Same \/ Dropped \/ (\E e \in Rows : Grown(e))
               \/ (\E n \in 1..(Len(chain) - 1) : Lost(n) /\ FileKept)
         /\ FileKept \/ (Written /\ Same)
<1>1. /\ chain \in Seq(Rows) /\ tail \in Seq(Rows) /\ born \in Nat
      /\ writer = NoProcess => tail = << >> /\ All = chain
  BY DEF WitnessTypes, WriterTyped, ChecksTyped, FileTyped, IsChain, All
<1> USE DEF FileKept, witnessVars, database, check, observers
<1>2. ASSUME NEW p \in Processes, OpenTransaction(p) PROVE Same /\ FileKept
  BY <1>2 DEF OpenTransaction, Same, All
<1>3. ASSUME NEW p \in Processes, AppendEntry(p) PROVE (\E e \in Rows : Grown(e)) /\ FileKept
  <2> DEFINE e == Entry(born + 1, NoFinding)
  <2>1. e \in Rows /\ e.hash = born + 1 /\ e.finding = NoFinding
    BY <1>1 DEF Entry, Rows
  <2>2. chain \o (tail \o <<e>>) = (chain \o tail) \o <<e>>
    BY <1>1, <2>1
  <2>3. Grown(e)
    BY <1>3, <2>1, <2>2 DEF AppendEntry, Grown, All
  <2> QED BY <1>3, <2>1, <2>3 DEF AppendEntry
<1>4. ASSUME NEW p \in Processes, CommitTransaction(p) PROVE Same /\ FileKept
  <2>1. chain' \o << >> = chain \o tail
    BY <1>1, <1>4 DEF CommitTransaction
  <2> QED BY <1>4, <2>1 DEF CommitTransaction, Same, All
<1>5. ASSUME NEW p \in Processes, AbortTransaction(p) PROVE Dropped /\ FileKept
  <2>1. chain \o << >> = chain
    BY <1>1
  <2> QED BY <1>5, <2>1 DEF AbortTransaction, Dropped, All
<1>6. ASSUME NEW p \in Processes, RecordFinding(p)
      PROVE (Same \/ \E e \in Rows : Grown(e)) /\ FileKept
  <2>1. CASE UNCHANGED <<chain, tail, born>>
    BY <1>6, <2>1 DEF RecordFinding, Same, All
  <2>2. CASE ~UNCHANGED <<chain, tail, born>>
    <3> DEFINE e == Entry(born + 1, finding[p])
    <3>1. finding[p] \in Alarms \cup {NoFinding}
      BY DEF WitnessTypes, WriterTyped, ChecksTyped, FileTyped
    <3>2. e \in Rows /\ e.hash = born + 1 /\ e.finding = finding[p]
      BY <1>1, <3>1 DEF Entry, Rows
    <3>3. /\ checking[p] = "report" /\ born' = born + 1 /\ restores' = restores
          /\ \/ tail' = tail \o <<e>> /\ chain' = chain
             \/ writer = NoProcess /\ chain' = chain \o <<e>> /\ tail' = tail
      BY <1>6, <2>2 DEF RecordFinding
    <3>4. chain \o (tail \o <<e>>) = (chain \o tail) \o <<e>>
      BY <1>1, <3>2
    <3>5. writer = NoProcess => (chain \o <<e>>) \o tail = chain \o <<e>>
      BY <1>1, <3>2
    <3>6. Grown(e)
      BY <1>1, <3>2, <3>3, <3>4, <3>5 DEF Grown, All
    <3> QED BY <1>6, <3>2, <3>6 DEF RecordFinding
  <2> QED BY <2>1, <2>2
<1>7. ASSUME NEW p \in Processes, ReadHead(p) \/ ReadShard(p) \/ Compare(p) \/ WriteFails(p) \/ ReportOnly(p)
      PROVE Same /\ FileKept
  BY <1>7 DEF ReadHead, ReadShard, Compare, WriteFails, ReportOnly, Same, All
<1>8. ASSUME NEW p \in Processes, WriteShard(p) PROVE Same /\ Written
  BY <1>8 DEF WriteShard, Same, All, Written
<1>9. CASE Restore
  <2>1. PICK n \in 1..(Len(chain) - 1) : chain' = SubSeq(chain, 1, n)
    BY <1>9 DEF Restore
  <2>2. /\ writer = NoProcess /\ tail' = << >> /\ born' = born /\ restores' = restores + 1
        /\ FileKept
    BY <1>1, <1>9 DEF Restore
  <2>3. chain' \in Seq(Rows)
    BY <1>1, <2>1
  <2>4. All' = chain'
    BY <2>2, <2>3 DEF All
  <2> QED BY <2>1, <2>2, <2>4 DEF Lost
<1> QED BY <1>2, <1>3, <1>4, <1>5, <1>6, <1>7, <1>8, <1>9 DEF NextWitness, Check

\* The chain stays a chain, of hashes that were given out.
LEMMA ChainTyped ==
  ASSUME WitnessTypes, NextWitness
  PROVE  IsChain'
<1>1. /\ chain \in Seq(Rows) /\ Len(chain) > 0 /\ All \in Seq(Rows) /\ born \in Nat
      /\ \A i \in 1..Len(All) : All[i].hash \in 1..born
      /\ Len(All) = Len(chain) + Len(tail) /\ Len(tail) \in Nat
      /\ \A i \in 1..Len(chain) : All[i] = chain[i]
      /\ restores \in Nat
  BY DEF WitnessTypes, WriterTyped, ChecksTyped, FileTyped, IsChain, All
<1>2. CASE Same
  BY <1>1, <1>2 DEF Same, IsChain
<1>3. CASE Dropped
  BY <1>1, <1>3 DEF Dropped, IsChain
<1>4. ASSUME NEW e \in Rows, Grown(e) PROVE IsChain'
  <2>1. All' \in Seq(Rows) /\ Len(All') = Len(All) + 1 /\ All'[Len(All) + 1] = e
        /\ \A i \in 1..Len(All) : All'[i] = All[i]
    BY <1>1, <1>4 DEF Grown
  <2>2. chain' \in Seq(Rows) /\ Len(chain') > 0
    <3>1. CASE chain' = chain
      BY <1>1, <3>1
    <3>2. CASE chain' = chain \o <<e>>
      BY <1>1, <3>2
    <3> QED BY <1>4, <3>1, <3>2 DEF Grown
  <2>3. ASSUME NEW i \in 1..Len(All') PROVE All'[i].hash \in 1..born'
    BY <1>1, <1>4, <2>1 DEF Grown
  <2> QED BY <1>1, <1>4, <2>1, <2>2, <2>3 DEF Grown, IsChain
<1>5. ASSUME NEW n \in 1..(Len(chain) - 1), Lost(n) PROVE IsChain'
  <2>1. chain' \in Seq(Rows) /\ Len(chain') = n /\ \A i \in 1..n : chain'[i] = chain[i]
    BY <1>1, <1>5 DEF Lost
  <2>2. All' = chain' /\ born' = born /\ restores' \in Nat
    BY <1>1, <1>5 DEF Lost
  <2>3. ASSUME NEW i \in 1..n PROVE All'[i].hash \in 1..born
    <3>1. All'[i] = All[i] /\ i \in 1..Len(All)
      BY <1>1, <2>1, <2>2
    <3> QED BY <1>1, <3>1
  <2> QED BY <1>1, <2>1, <2>2, <2>3 DEF IsChain
<1> QED BY <1>2, <1>3, <1>4, <1>5, ChainStep

LEMMA Monotone ==
  ASSUME WitnessTypes, NextWitness
  PROVE  /\ born \in Nat /\ born' \in Nat /\ born <= born'
         /\ restores \in Nat /\ restores' \in Nat /\ restores <= restores'
         /\ (overlapped => overlapped') /\ (early => early')
<1>1. born' \in {born, born + 1} /\ restores' \in {restores, restores + 1}
  <2>1. Same \/ Dropped \/ (\E e \in Rows : Grown(e))
          \/ (\E n \in 1..(Len(chain) - 1) : Lost(n))
    BY ChainStep
  <2> QED BY <2>1 DEF Same, Dropped, Grown, Lost
<1>2. (overlapped => overlapped') /\ (early => early')
  <2>1. FileKept => overlapped' = overlapped /\ early' = early
    BY DEF FileKept
  <2>2. ASSUME NEW p \in Processes, WriteShard(p)
        PROVE  (overlapped => overlapped') /\ (early => early')
    BY <2>2, Zenon DEF WriteShard
  <2> QED BY <2>1, <2>2, ChainStep DEF Written
<1> QED BY <1>1, <1>2 DEF WitnessTypes, WriterTyped, ChecksTyped, FileTyped, IsChain

\* A check goes on by one of its own steps, or it is over, or it stays as it is.
LEMMA CheckFrame ==
  ASSUME WitnessTypes, NextWitness, NEW q \in Processes
  PROVE  \/ checking'[q] = "idle"
         \/ ReadHead(q) \/ ReadShard(q) \/ Compare(q)
         \/ /\ checking'[q] = checking[q] /\ head'[q] = head[q]
            /\ seen'[q] = seen[q] /\ finding'[q] = finding[q]
<1> USE DEF WitnessTypes, WriterTyped, ChecksTyped, FileTyped, check
<1>1. ASSUME NEW p \in Processes,
             OpenTransaction(p) \/ AppendEntry(p) \/ CommitTransaction(p) \/ Restore
      PROVE  UNCHANGED check
  BY <1>1 DEF OpenTransaction, AppendEntry, CommitTransaction, Restore
<1>2. ASSUME NEW p \in Processes,
             AbortTransaction(p) \/ WriteShard(p) \/ WriteFails(p) \/ RecordFinding(p) \/ ReportOnly(p)
      PROVE  Return(p)
  BY <1>2 DEF AbortTransaction, WriteShard, WriteFails, RecordFinding, ReportOnly
<1>3. ASSUME NEW p \in Processes, Return(p), p # q
      PROVE  /\ checking'[q] = checking[q] /\ head'[q] = head[q]
             /\ seen'[q] = seen[q] /\ finding'[q] = finding[q]
  BY <1>3 DEF Return
<1>4. Return(q) => checking'[q] = "idle"
  BY DEF Return
<1>5. ASSUME NEW p \in Processes, ReadHead(p) \/ ReadShard(p) \/ Compare(p), p # q
      PROVE  /\ checking'[q] = checking[q] /\ head'[q] = head[q]
             /\ seen'[q] = seen[q] /\ finding'[q] = finding[q]
  BY <1>5 DEF ReadHead, ReadShard, Compare
<1> QED BY <1>1, <1>2, <1>3, <1>4, <1>5 DEF NextWitness, Check

\* While a check runs, what it sees only grows.
LEMMA ViewGrows ==
  ASSUME WitnessTypes, NextWitness, NEW q \in Processes, checking'[q] # "idle"
  PROVE  View(q)' = View(q) \/ \E d \in Seq(Rows) : View(q)' = View(q) \o d
<1>1. /\ chain \in Seq(Rows) /\ tail \in Seq(Rows) /\ q # NoProcess
      /\ writer = NoProcess => tail = << >>
      /\ checking \in [Processes -> Places] /\ finding \in [Processes -> Alarms \cup {NoFinding}]
      /\ born \in Nat
  BY ProcessesAssumption DEF WitnessTypes, WriterTyped, ChecksTyped, FileTyped, IsChain
<1> USE <1>1 DEF View, database
<1>2. ASSUME NEW p \in Processes, OpenTransaction(p) PROVE View(q)' = View(q)
  BY <1>2 DEF OpenTransaction, check
<1>3. ASSUME NEW p \in Processes, AppendEntry(p) PROVE View(q)' = View(q)
  BY <1>3 DEF AppendEntry, check
<1>4. ASSUME NEW p \in Processes, CommitTransaction(p) PROVE View(q)' = View(q) \o tail
  BY <1>4 DEF CommitTransaction, check
<1>5. ASSUME NEW p \in Processes, AbortTransaction(p) PROVE View(q)' = View(q)
  BY <1>5 DEF AbortTransaction, Return
<1>6. ASSUME NEW p \in Processes, RecordFinding(p)
      PROVE  View(q)' = View(q) \/ \E e \in Rows : View(q)' = View(q) \o <<e>>
  <2>1. p # q
    BY <1>6 DEF RecordFinding, Return
  <2>2. Entry(born + 1, finding[p]) \in Rows
    BY DEF Entry, Rows
  <2> QED BY <1>6, <2>1, <2>2 DEF RecordFinding
<1>7. ASSUME NEW p \in Processes,
             ReadHead(p) \/ ReadShard(p) \/ Compare(p) \/ WriteShard(p) \/ WriteFails(p) \/ ReportOnly(p)
      PROVE  View(q)' = View(q)
  BY <1>7 DEF ReadHead, ReadShard, Compare, WriteShard, WriteFails, ReportOnly
<1>8. ~Restore
  BY DEF Restore, check
<1>9. \A e \in Rows : <<e>> \in Seq(Rows)
  OBVIOUS
<1> QED BY <1>2, <1>3, <1>4, <1>5, <1>6, <1>7, <1>8, <1>9 DEF NextWitness, Check

----------------------------------------------------------------------------
(* The invariant is inductive, part by part.                               *)

LEMMA TypeStep ==
  ASSUME IInv, NextWitness
  PROVE  WitnessTypes'
<1> USE DEF IInv
<1>1. IsChain'
  BY ChainTyped
<1>2. FileTyped'
  <2>1. CASE FileKept
    BY <2>1, Monotone DEF FileKept, WitnessTypes, FileTyped, Known
  <2>2. ASSUME NEW p \in Processes, WriteShard(p) PROVE FileTyped'
    <3>1. Known(head[p])
      BY <2>2 DEF CheckOK, WriteShard
    <3>2. \A w \in witnessed \cup {head[p]} : Known(w)'
      BY <3>1, Monotone DEF WitnessTypes, FileTyped, Known
    <3>3. overlapped' \in BOOLEAN /\ early' \in BOOLEAN
      BY <2>2, Zenon DEF WriteShard
    <3> QED BY <2>2, <3>2, <3>3 DEF WriteShard, Witnessed, FileTyped
  <2> QED BY <2>1, <2>2, ChainStep DEF Written
<1>3. WriterTyped'
  <2> USE ProcessesAssumption DEF WitnessTypes, WriterTyped, database
  <2>1. ASSUME NEW p \in Processes, AppendEntry(p) PROVE WriterTyped'
    <3>1. Entry(born + 1, NoFinding) \in Rows
      BY DEF Entry, Rows, IsChain
    <3> QED BY <2>1, <3>1 DEF AppendEntry
  <2>2. ASSUME NEW p \in Processes, RecordFinding(p) PROVE WriterTyped'
    <3>1. Entry(born + 1, finding[p]) \in Rows
      BY DEF Entry, Rows, IsChain, ChecksTyped
    <3> QED BY <2>2, <3>1 DEF RecordFinding
  <2>3. ASSUME NEW p \in Processes,
               OpenTransaction(p) \/ CommitTransaction(p) \/ AbortTransaction(p)
        PROVE  WriterTyped'
    <3>1. CASE OpenTransaction(p)
      BY <3>1 DEF OpenTransaction
    <3>2. << >> \in Seq(Rows)
      OBVIOUS
    <3> QED BY <2>3, <3>1, <3>2 DEF CommitTransaction, AbortTransaction
  <2>4. ASSUME NEW p \in Processes,
               ReadHead(p) \/ ReadShard(p) \/ Compare(p) \/ WriteShard(p) \/ WriteFails(p) \/ ReportOnly(p)
        PROVE  WriterTyped'
    BY <2>4 DEF ReadHead, ReadShard, Compare, WriteShard, WriteFails, ReportOnly
  <2>5. Restore => WriterTyped'
    BY DEF Restore
  <2> QED BY <2>1, <2>2, <2>3, <2>4, <2>5 DEF NextWitness, Check
<1>4. ChecksTyped'
  <2> USE DEF WitnessTypes, ChecksTyped, Places, check
  <2>1. NoHead \in Heads
    BY DEF NoHead, Heads
  <2>2. ASSUME NEW p \in Processes, Return(p) PROVE ChecksTyped'
    BY <2>1, <2>2 DEF Return
  <2>3. ASSUME NEW p \in Processes, ReadHead(p) PROVE ChecksTyped'
    <3>1. View(p) \in Seq(Rows) /\ Len(View(p)) > 0 /\ born \in Nat
          /\ \A i \in 1..Len(View(p)) : View(p)[i].hash \in 1..born
      <4>1. Len(chain) \in Nat /\ Len(chain) > 0 /\ born \in Nat
        BY DEF IsChain
      <4> HIDE DEF WitnessTypes, ChecksTyped, Places, check
      <4> QED BY <4>1, ViewIs DEF IInv
    <3>2. HeadOf(View(p)) \in Heads
      BY <3>1, HeadHeld
    <3> QED BY <2>3, <3>2 DEF ReadHead
  <2>4. ASSUME NEW p \in Processes, ReadShard(p) PROVE ChecksTyped'
    <3>1. shard \in Heads /\ head[p].seq \in Nat
      BY DEF FileTyped, Known, Heads
    <3>2. [kind |-> "history_rollback", witness |-> shard, current |-> head[p].seq] \in Alarms
      BY <3>1 DEF Alarms, Kinds
    <3> QED BY <2>4, <3>1, <3>2 DEF ReadShard
  <2>5. ASSUME NEW p \in Processes, Compare(p) PROVE ChecksTyped'
    <3>1. HashAt(View(p), seen[p].seq) \in Nat
      BY ViewIs DEF HashAt, Rows
    <3>2. [kind |-> "history_divergence", witness |-> seen[p],
           current |-> HashAt(View(p), seen[p].seq)] \in Alarms
      BY <3>1 DEF Alarms, Kinds
    <3> QED BY <2>5, <3>1, <3>2 DEF Compare
  <2>6. ASSUME NEW p \in Processes,
               AbortTransaction(p) \/ WriteShard(p) \/ WriteFails(p) \/ RecordFinding(p) \/ ReportOnly(p)
        PROVE  Return(p)
    BY <2>6 DEF AbortTransaction, WriteShard, WriteFails, RecordFinding, ReportOnly
  <2>7. ASSUME NEW p \in Processes,
               OpenTransaction(p) \/ AppendEntry(p) \/ CommitTransaction(p)
        PROVE  UNCHANGED check
    BY <2>7 DEF OpenTransaction, AppendEntry, CommitTransaction
  <2>8. Restore => UNCHANGED check
    BY DEF Restore
  <2> QED BY <2>2, <2>3, <2>4, <2>5, <2>6, <2>7, <2>8 DEF NextWitness, Check
<1> QED BY <1>1, <1>2, <1>3, <1>4 DEF WitnessTypes

\* What a running check has read stays what it takes it for.
LEMMA CheckStep ==
  ASSUME IInv, NextWitness, NEW q \in Processes
  PROVE  CheckOK(q)'
<1>1. WitnessTypes /\ CheckOK(q) /\ WitnessTypes'
  BY TypeStep DEF IInv
<1>2. CASE checking'[q] = "idle"
  BY <1>2 DEF CheckOK
<1>3. ASSUME NEW w, Known(w), Holds(View(q), w), checking'[q] # "idle"
      PROVE  Known(w)' /\ Holds(View(q), w)'
  <2>1. w \in Heads /\ w.hash # 0 /\ View(q) \in Seq(Rows)
    BY <1>1, <1>3, ViewIs DEF Known
  <2>2. \A d \in Seq(Rows) : Holds(View(q) \o d, w)
    BY <1>3, <2>1, HoldsLonger
  <2>3. View(q)' = View(q) \/ \E d \in Seq(Rows) : View(q)' = View(q) \o d
    BY <1>1, <1>3, ViewGrows
  <2>4. Holds(View(q)', w)
    BY <1>3, <2>2, <2>3
  <2> QED BY <1>1, <1>3, <2>4, Monotone DEF Known, Holds, HashAt
<1>4. CASE ReadHead(q)
  <2>1. /\ checking'[q] = "read" /\ head'[q] = HeadOf(View(q)) /\ View(q)' = View(q) /\ born' = born
    BY <1>1, <1>4 DEF ReadHead, WitnessTypes, ChecksTyped, database, View
  <2>2. View(q) \in Seq(Rows) /\ Len(View(q)) > 0 /\ born \in Nat
        /\ \A i \in 1..Len(View(q)) : View(q)[i].hash \in 1..born
    BY <1>1, ViewIs DEF WitnessTypes, IsChain
  <2>3. Known(HeadOf(View(q))) /\ Holds(View(q), HeadOf(View(q)))
    BY <2>2, HeadHeld DEF Known
  <2>4. Known(head[q])' /\ Holds(View(q)', head'[q])
    BY <2>1, <2>3 DEF Known
  <2> QED BY <2>1, <2>4 DEF CheckOK, Holds, HashAt
<1>5. CASE ReadShard(q)
  <2>1. /\ checking[q] = "read" /\ checking'[q] \in {"report", "compare"}
        /\ checking'[q] = "compare" => ~RolledBack(q)
        /\ head'[q] = head[q] /\ seen'[q] = shard /\ UNCHANGED <<shard, overlapped, witnessed>>
    BY <1>1, <1>5 DEF ReadShard, WitnessTypes, ChecksTyped, observers
  <2>2. shard \in witnessed /\ shard.seq \in Nat /\ head[q].seq \in Nat
    BY <1>1 DEF WitnessTypes, FileTyped, ChecksTyped, Known, Heads
  <2>3. Known(head[q])' /\ Holds(View(q), head[q])'
    BY <1>1, <1>3, <2>1 DEF CheckOK
  <2> QED BY <2>1, <2>2, <2>3 DEF CheckOK, RolledBack
<1>6. CASE Compare(q)
  <2>1. /\ checking[q] = "compare" /\ checking'[q] \in {"report", "write"}
        /\ checking'[q] = "write" => Holds(View(q), seen[q])
        /\ head'[q] = head[q] /\ seen'[q] = seen[q] /\ UNCHANGED <<shard, overlapped, witnessed>>
    BY <1>1, <1>6 DEF Compare, Diverged, WitnessTypes, ChecksTyped, observers
  <2>2. Known(head[q])' /\ Holds(View(q), head[q])'
    BY <1>1, <1>3, <2>1 DEF CheckOK
  <2>3. Known(seen[q])
    BY <1>1, <2>1 DEF CheckOK, WitnessTypes, FileTyped
  <2>4. checking'[q] = "write" => Holds(View(q), seen[q])'
    BY <1>3, <2>1, <2>3
  <2> QED BY <1>1, <2>1, <2>2, <2>4 DEF CheckOK
<1>7. CASE /\ checking'[q] = checking[q] /\ head'[q] = head[q] /\ seen'[q] = seen[q]
           /\ checking'[q] # "idle"
  <2>1. Known(head[q])' /\ Holds(View(q), head[q])'
    BY <1>1, <1>3, <1>7 DEF CheckOK
  <2>2. CASE FileKept
    <3>1. checking[q] = "write" => Holds(View(q), seen[q])'
      BY <1>1, <1>3, <1>7 DEF CheckOK, WitnessTypes, FileTyped
    <3> QED BY <1>1, <1>7, <2>1, <2>2, <3>1 DEF CheckOK, FileKept
  <2>3. ASSUME NEW p \in Processes, WriteShard(p) PROVE CheckOK(q)'
    <3>1. p # q
      BY <1>1, <1>7, <2>3 DEF WriteShard, Return, WitnessTypes, ChecksTyped
    <3>2. overlapped' /\ witnessed \subseteq witnessed'
      BY <1>7, <2>3, <3>1 DEF WriteShard
    <3>3. checking[q] = "write" => Holds(View(q), seen[q])'
      BY <1>1, <1>3, <1>7 DEF CheckOK, WitnessTypes, FileTyped
    <3> QED BY <1>1, <1>7, <2>1, <3>2, <3>3 DEF CheckOK
  <2> QED BY <1>1, <2>2, <2>3, ChainStep DEF Written
<1> QED BY <1>1, <1>2, <1>4, <1>5, <1>6, <1>7, CheckFrame

\* A cause does not go away.
LEMMA CauseStays ==
  ASSUME WitnessTypes, NextWitness
  PROVE  /\ Kept' => Kept
         /\ \A f : Cause(f) => Cause(f)'
<1>1. restores \in Nat /\ restores' \in Nat /\ restores <= restores' /\ (early => early')
      /\ (overlapped => overlapped')
  BY Monotone
<1>2. Kept' => Kept
  BY <1>1 DEF Kept
<1> QED BY <1>1, <1>2 DEF Cause

\* While nothing is lost, every witnessed head is in the committed chain.
LEMMA KeptStep ==
  ASSUME IInv, NextWitness, Kept'
  PROVE  \A w \in witnessed' : Holds(chain, w)'
<1>1. WitnessTypes /\ Kept /\ chain \in Seq(Rows) /\ tail \in Seq(Rows) /\ restores' = 0 /\ restores = 0
  BY CauseStays DEF IInv, WitnessTypes, IsChain, WriterTyped, Kept
<1>2. \A w \in witnessed : w \in Heads /\ w.hash # 0 /\ Holds(chain, w)
  BY <1>1 DEF IInv, WitnessTypes, FileTyped, Known, AlarmsOK
<1>3. chain' = chain \/ chain' = chain \o tail \/ \E e \in Rows : chain' = chain \o <<e>>
  <2>1. Same \/ Dropped \/ (\E e \in Rows : Grown(e))
          \/ (\E n \in 1..(Len(chain) - 1) : Lost(n))
    BY <1>1, ChainStep
  <2>2. ~ \E n \in 1..(Len(chain) - 1) : Lost(n)
    BY <1>1 DEF Lost
  <2> QED BY <2>1, <2>2 DEF Same, Dropped, Grown, All
<1>4. \A w \in witnessed : Holds(chain', w)
  <2>1. CASE chain' = chain
    BY <1>2, <2>1
  <2>2. CASE chain' = chain \o tail
    BY <1>1, <1>2, <2>2, HoldsLonger
  <2>3. ASSUME NEW e \in Rows, chain' = chain \o <<e>> PROVE <1>4
    <3>1. <<e>> \in Seq(Rows)
      OBVIOUS
    <3> QED BY <1>1, <1>2, <2>3, <3>1, HoldsLonger
  <2> QED BY <1>3, <2>1, <2>2, <2>3
<1>5. ASSUME NEW p \in Processes, WriteShard(p) PROVE \A w \in witnessed' : Holds(chain', w)
  <2>1. witnessed' = witnessed \cup {head[p]} /\ chain' = chain /\ Holds(chain, head[p])
    BY <1>1, <1>5 DEF WriteShard, Witnessed, database, Kept
  <2> QED BY <1>4, <2>1
<1>6. \A w \in witnessed' : Holds(chain', w)
  BY <1>1, <1>4, <1>5, ChainStep DEF Written, FileKept
<1> QED BY <1>6 DEF Holds, HashAt

LEMMA AlarmsStep ==
  ASSUME IInv, NextWitness
  PROVE  AlarmsOK'
<1>1. WitnessTypes /\ AlarmsOK /\ WitnessTypes'
  BY TypeStep DEF IInv
<1>2. ASSUME NEW p \in Processes, checking'[p] = "read", ~overlapped', Kept'
      PROVE  shard'.seq <= head'[p].seq
  <2>1. Kept /\ ~overlapped
    BY <1>1, <1>2, CauseStays, Monotone
  <2>2. CASE ReadHead(p)
    <3>1. head'[p] = HeadOf(View(p)) /\ shard' = shard
      BY <1>1, <2>2 DEF ReadHead, WitnessTypes, ChecksTyped
    <3>2. shard.seq \in 1..Len(chain)
      BY <1>1, <2>1, HoldsIs DEF AlarmsOK, WitnessTypes, FileTyped, IsChain, Known
    <3>3. HeadOf(View(p)).seq = Len(View(p)) /\ Len(chain) <= Len(View(p)) /\ Len(View(p)) \in Nat
      BY <1>1, ViewIs DEF HeadOf
    <3> QED BY <3>1, <3>2, <3>3
  <2>3. CASE checking[p] = "read" /\ head'[p] = head[p]
    <3>1. ASSUME NEW r \in Processes, WriteShard(r) PROVE FALSE
      <4>1. r # p
        BY <2>3, <3>1 DEF WriteShard
      <4> QED BY <1>2, <2>3, <3>1, <4>1 DEF WriteShard
    <3>2. shard' = shard
      BY <1>1, <3>1, ChainStep DEF Written, FileKept
    <3> QED BY <1>1, <2>1, <2>3, <3>2 DEF AlarmsOK
  <2> QED BY <1>1, <1>2, <2>2, <2>3, CheckFrame DEF ReadShard, Compare, WitnessTypes, ChecksTyped
<1>3. ASSUME NEW p \in Processes, checking'[p] = "report"
      PROVE  finding'[p] \in Alarms /\ Cause(finding[p])'
  <2>1. CASE ReadShard(p)
    <3>1. /\ checking[p] = "read" /\ RolledBack(p)
          /\ finding'[p] = [kind |-> "history_rollback", witness |-> shard, current |-> head[p].seq]
      BY <1>1, <1>3, <2>1 DEF ReadShard, WitnessTypes, ChecksTyped
    <3>2. shard.seq \in Nat /\ head[p].seq \in Nat /\ shard \in Heads
      BY <1>1 DEF WitnessTypes, FileTyped, ChecksTyped, Known, Heads
    <3>3. overlapped \/ ~Kept
      BY <1>1, <3>1, <3>2 DEF AlarmsOK, RolledBack
    <3>4. Cause(finding'[p])
      BY <3>1, <3>3 DEF Cause
    <3>5. finding'[p] \in Alarms
      BY <3>1, <3>2 DEF Alarms, Kinds
    <3> QED BY <1>1, <3>4, <3>5, CauseStays DEF Cause
  <2>2. CASE Compare(p)
    <3>1. /\ checking[p] = "compare" /\ Diverged(p)
          /\ finding'[p] = [kind |-> "history_divergence", witness |-> seen[p],
                            current |-> HashAt(View(p), seen[p].seq)]
      BY <1>1, <1>3, <2>2 DEF Compare, WitnessTypes, ChecksTyped
    <3>2. seen[p] \in witnessed /\ seen[p] \in Heads /\ seen[p].hash # 0
      BY <1>1, <3>1 DEF IInv, CheckOK, WitnessTypes, FileTyped, Known
    <3>3. ~Holds(chain, seen[p])
      <4>1. View(p) = chain \/ View(p) = chain \o tail
        BY DEF View
      <4>2. chain \in Seq(Rows) /\ tail \in Seq(Rows)
        BY <1>1 DEF WitnessTypes, IsChain, WriterTyped
      <4> QED BY <3>1, <3>2, <4>1, <4>2, HoldsLonger DEF Diverged
    <3>4. Cause(finding'[p])
      BY <1>1, <3>2, <3>3 DEF AlarmsOK, Cause
    <3>5. HashAt(View(p), seen[p].seq) \in Nat
      BY <1>1, ViewIs DEF HashAt, Rows
    <3>6. finding'[p] \in Alarms
      BY <3>1, <3>2, <3>5 DEF Alarms, Kinds
    <3> QED BY <1>1, <3>4, <3>6, CauseStays DEF Cause
  <2>3. CASE checking[p] = "report" /\ finding'[p] = finding[p]
    BY <1>1, <2>3, CauseStays DEF AlarmsOK, Cause
  <2> QED BY <1>1, <1>3, <2>1, <2>2, <2>3, CheckFrame DEF ReadHead, WitnessTypes, ChecksTyped
<1>4. ASSUME NEW i \in 1..Len(All'), All'[i].finding # NoFinding
      PROVE  Cause(All'[i].finding)
  <2>1. /\ chain \in Seq(Rows) /\ All \in Seq(Rows) /\ Len(chain) <= Len(All)
        /\ \A j \in 1..Len(chain) : All[j] = chain[j]
    BY <1>1 DEF WitnessTypes, IsChain, WriterTyped, All
  <2>2. \A j \in 1..Len(All) : All[j].finding # NoFinding => Cause(All[j].finding)
    BY <1>1 DEF AlarmsOK
  <2>3. CASE All' = All
    BY <1>4, <2>2, <2>3
  <2>4. CASE All' = chain
    BY <1>4, <2>1, <2>2, <2>4
  <2>5. ASSUME NEW e \in Rows, Grown(e) PROVE Cause(All'[i].finding)
    <3>1. All'[Len(All) + 1] = e /\ i \in 1..Len(All) + 1 /\ \A j \in 1..Len(All) : All'[j] = All[j]
      BY <1>4, <2>1, <2>5 DEF Grown
    <3>2. e.finding # NoFinding => Cause(e.finding)
      BY <1>1, <2>5 DEF Grown, AlarmsOK
    <3> QED BY <1>4, <2>1, <2>2, <3>1, <3>2
  <2>6. ASSUME NEW n \in 1..(Len(chain) - 1), Lost(n) PROVE Cause(All'[i].finding)
    <3>1. All' = SubSeq(chain, 1, n)
      BY <2>6 DEF Lost
    <3>2. All'[i] = chain[i] /\ i \in 1..Len(chain)
      BY <1>4, <2>1, <3>1
    <3> QED BY <1>4, <2>1, <2>2, <3>2
  <2> QED BY <1>1, <2>3, <2>4, <2>5, <2>6, ChainStep DEF Same, Dropped
<1>5. \A i \in 1..Len(All') : All'[i].finding # NoFinding => Cause(All[i].finding)'
  <2>1. (Kept' => Kept) /\ (overlapped => overlapped')
    BY <1>1, CauseStays, Monotone
  <2> QED BY <1>4, <2>1 DEF Cause
<1> QED BY <1>2, <1>3, <1>5, KeptStep DEF AlarmsOK

\* Whatever happens to the chain, a chain that holds the last head holds the others.
LEMMA LastStep ==
  ASSUME IInv, NextWitness
  PROVE  LastOK'
<1> SUFFICES ASSUME ~overlapped'
             PROVE  \A w \in witnessed' : w.seq <= shard'.seq
                                          /\ (Holds(All', shard') => Holds(All', w))
  BY DEF LastOK, Holds, HashAt
<1>1. WitnessTypes /\ WitnessTypes' /\ ~overlapped
  BY TypeStep, Monotone DEF IInv
<1>2. /\ chain \in Seq(Rows) /\ tail \in Seq(Rows) /\ All \in Seq(Rows)
      /\ Len(chain) > 0 /\ born \in Nat
      /\ All = chain \o tail /\ Len(All) = Len(chain) + Len(tail)
  BY <1>1 DEF WitnessTypes, IsChain, WriterTyped, All
<1>3. /\ shard \in witnessed /\ shard \in Heads /\ shard.hash \in 1..born /\ shard.hash # 0
      /\ \A w \in witnessed : w \in Heads /\ w.hash \in 1..born /\ w.hash # 0 /\ w.seq \in Nat
  BY <1>1 DEF WitnessTypes, FileTyped, Known, Heads
<1>4. \A w \in witnessed : w.seq <= shard.seq /\ (Holds(All, shard) => Holds(All, w))
  BY <1>1 DEF IInv, LastOK
<1>5. ASSUME NEW p \in Processes, WriteShard(p), Same
      PROVE  \A w \in witnessed' : w.seq <= shard'.seq /\ (Holds(All', shard') => Holds(All', w))
  <2>1. shard' = head[p] /\ witnessed' = witnessed \cup {head[p]} /\ All' = All
    BY <1>5 DEF WriteShard, Witnessed, Same
  <2>2. seen[p] = shard /\ shard.seq <= head[p].seq /\ Holds(View(p), shard)
    BY <1>1, <1>5 DEF IInv, CheckOK, WriteShard
  <2>3. View(p) = chain \/ View(p) = All
    BY <1>1, ViewIs
  <2>4. Holds(All, shard)
    BY <1>2, <1>3, <2>2, <2>3, HoldsLonger
  <2>5. head[p].seq \in Nat
    BY <1>1 DEF WitnessTypes, ChecksTyped, Heads
  <2> QED BY <1>3, <1>4, <2>1, <2>2, <2>4, <2>5
<1>6. ASSUME FileKept, NEW w \in witnessed
      PROVE  Holds(All', shard) => Holds(All', w)
  <2> SUFFICES ASSUME Holds(All', shard) PROVE Holds(All', w)
    OBVIOUS
  <2>1. w.seq <= shard.seq /\ (Holds(All, shard) => Holds(All, w))
    BY <1>4
  <2>2. CASE Same
    BY <2>1, <2>2 DEF Same
  <2>3. CASE Dropped
    <3>1. Holds(chain, shard) /\ Holds(All, w)
      BY <1>2, <1>3, <2>1, <2>3, HoldsLonger DEF Dropped
    <3>2. w.seq \in 1..Len(All) /\ All[w.seq].hash = w.hash /\ shard.seq \in 1..Len(chain)
      BY <1>2, <1>3, <3>1, HoldsIs
    <3>3. w.seq \in 1..Len(chain)
      BY <1>2, <1>3, <2>1, <3>2
    <3>4. chain[w.seq] = All[w.seq]
      BY <1>2, <3>3
    <3>5. Holds(chain, w)
      BY <1>2, <1>3, <3>2, <3>3, <3>4, HoldsIs
    <3> QED BY <2>3, <3>5 DEF Dropped
  <2>4. ASSUME NEW e \in Rows, Grown(e) PROVE Holds(All', w)
    <3>1. All' = All \o <<e>> /\ shard.hash # e.hash /\ shard.hash # 0 /\ w.hash # 0
      BY <1>2, <1>3, <2>4 DEF Grown
    <3>2. Holds(All, w)
      BY <1>2, <1>3, <2>1, <3>1, HoldsFresh
    <3>3. <<e>> \in Seq(Rows)
      OBVIOUS
    <3> QED BY <1>2, <1>3, <3>1, <3>2, <3>3, HoldsLonger
  <2>5. ASSUME NEW n \in 1..(Len(chain) - 1), Lost(n) PROVE Holds(All', w)
    <3>1. All' = SubSeq(chain, 1, n) /\ All = chain /\ n \in 1..Len(chain) /\ n \in Nat
      BY <1>1, <1>2, <2>5 DEF Lost, WitnessTypes, WriterTyped
    <3>2. shard.seq <= n /\ Holds(chain, shard)
      BY <1>2, <1>3, <3>1, HoldsShorter
    <3>3. w.seq <= n /\ Holds(chain, w)
      BY <1>3, <2>1, <3>1, <3>2
    <3> QED BY <1>2, <1>3, <3>1, <3>3, HoldsShorter
  <2>6. Same \/ Dropped \/ (\E e \in Rows : Grown(e))
          \/ (\E n \in 1..(Len(chain) - 1) : Lost(n))
    BY <1>1, ChainStep
  <2> QED BY <2>2, <2>3, <2>4, <2>5, <2>6
<1>7. CASE FileKept
  BY <1>4, <1>6, <1>7 DEF FileKept
<1> QED BY <1>1, <1>5, <1>7, ChainStep DEF Written

----------------------------------------------------------------------------
(* The first state, the steps and what follows.                            *)

LEMMA InitInvariant == InitWitness => IInv
<1> SUFFICES ASSUME InitWitness PROVE IInv
  OBVIOUS
<1> USE DEF InitWitness
<1>1. Entry(1, NoFinding) \in Rows /\ Entry(1, NoFinding).hash = 1
      /\ Entry(1, NoFinding).finding = NoFinding
  BY DEF Entry, Rows
<1>2. /\ chain \in Seq(Rows) /\ Len(chain) = 1 /\ chain[1] = Entry(1, NoFinding)
      /\ tail \in Seq(Rows) /\ All = chain
  BY <1>1 DEF All
<1>3. shard = [seq |-> 1, hash |-> 1] /\ Holds(chain, shard)
  BY <1>1, <1>2 DEF HeadOf, Holds, HashAt
<1>4. NoHead \in Heads /\ shard \in Heads
  BY <1>3 DEF NoHead, Heads
<1>5. WitnessTypes
  <2>1. IsChain
    BY <1>1, <1>2 DEF IsChain
  <2>2. WriterTyped
    BY <1>2 DEF WriterTyped
  <2>3. ChecksTyped
    BY <1>4 DEF ChecksTyped, Places
  <2>4. FileTyped
    <3>1. Known(shard)
      BY <1>3, <1>4 DEF Known
    <3> QED BY <3>1 DEF FileTyped
  <2> QED BY <2>1, <2>2, <2>3, <2>4 DEF WitnessTypes
<1>6. \A p \in Processes : CheckOK(p)
  BY DEF CheckOK
<1>7. AlarmsOK
  BY <1>1, <1>2, <1>3 DEF AlarmsOK
<1>8. LastOK
  BY <1>2, <1>3 DEF LastOK
<1> QED BY <1>5, <1>6, <1>7, <1>8 DEF IInv

LEMMA NextInvariant == IInv /\ [NextWitness]_witnessVars => IInv'
<1> SUFFICES ASSUME IInv, [NextWitness]_witnessVars PROVE IInv'
  OBVIOUS
<1>1. CASE NextWitness
  BY <1>1, TypeStep, CheckStep, AlarmsStep, LastStep DEF IInv
<1>2. CASE UNCHANGED witnessVars
  <2> USE <1>2 DEF witnessVars, database, check, observers
  <2>1. WitnessTypes'
    BY DEF IInv, WitnessTypes, IsChain, WriterTyped, ChecksTyped, FileTyped, All, Known
  <2>2. \A p \in Processes : CheckOK(p)'
    BY DEF IInv, CheckOK, Known, View, Holds, HashAt
  <2>3. AlarmsOK'
    BY DEF IInv, AlarmsOK, Kept, Cause, All, Holds, HashAt
  <2>4. LastOK'
    BY DEF IInv, LastOK, All, Holds, HashAt
  <2> QED BY <2>1, <2>2, <2>3, <2>4 DEF IInv
<1> QED BY <1>1, <1>2

LEMMA CausesFollow == IInv => AlarmsHaveCauses
<1> SUFFICES ASSUME IInv, NEW f \in Findings(chain \o tail)
             PROVE  restores > 0 \/ early \/ (overlapped /\ f.kind = "history_rollback")
  BY DEF AlarmsHaveCauses
<1>1. PICK i \in 1..Len(All) : f = All[i].finding /\ f # NoFinding
  BY DEF Findings, All
<1>2. Cause(f)
  BY <1>1 DEF IInv, AlarmsOK
<1>3. restores \in Nat
  BY DEF IInv, WitnessTypes, IsChain
<1> QED BY <1>2, <1>3 DEF Cause, Kept

LEMMA VisibleFollows == IInv => LossStaysVisible
<1> SUFFICES ASSUME IInv, ~overlapped, NEW w \in witnessed, Holds(chain, shard)
             PROVE  Holds(chain, w)
  BY DEF LossStaysVisible
<1>1. /\ chain \in Seq(Rows) /\ tail \in Seq(Rows) /\ All \in Seq(Rows) /\ All = chain \o tail
      /\ born \in Nat
  BY DEF IInv, WitnessTypes, IsChain, WriterTyped, All
<1>2. shard \in Heads /\ w \in Heads /\ shard.hash # 0 /\ w.hash # 0
      /\ w.seq \in Nat /\ shard.seq \in Nat
  BY <1>1 DEF IInv, WitnessTypes, FileTyped, Known, Heads
<1>3. Holds(All, shard)
  BY <1>1, <1>2, HoldsLonger
<1>4. w.seq <= shard.seq /\ Holds(All, w)
  BY <1>3 DEF IInv, LastOK
<1>5. shard.seq \in 1..Len(chain) /\ w.seq \in 1..Len(All) /\ All[w.seq].hash = w.hash
  BY <1>1, <1>2, <1>4, HoldsIs
<1>6. w.seq \in 1..Len(chain) /\ chain[w.seq] = All[w.seq]
  BY <1>1, <1>2, <1>4, <1>5
<1> QED BY <1>1, <1>2, <1>5, <1>6, HoldsIs

\* Whatever the interleaving of checks, transactions and restored backups, every
\* recorded alarm of rollback or divergence has a cause (check_and_update).
THEOREM AlarmsAreCaused == SpecWitness => []AlarmsHaveCauses
<1>1. SpecWitness => []IInv
  BY InitInvariant, NextInvariant, PTL DEF SpecWitness
<1> QED BY <1>1, CausesFollow, PTL

\* While checks do not overlap, the file that replaced a lost head goes on naming a
\* lost head, however many entries the new history gets.
THEOREM LossesStayVisible == SpecWitness => []LossStaysVisible
<1>1. SpecWitness => []IInv
  BY InitInvariant, NextInvariant, PTL DEF SpecWitness
<1> QED BY <1>1, VisibleFollows, PTL
=============================================================================
