----------------------------- MODULE Settlement -----------------------------
(***************************************************************************)
(* Settlement of task closures (reconciler.py, settlement.py and the       *)
(* settlement primitives of storage.py): open tasks are closed by evidence *)
(* found in the canonical log, every closure is a candidate with a         *)
(* consume-once status, and a closure can be reverted or contested.        *)
(*                                                                         *)
(* A hook delivery is one transaction: it captures its event, consolidates *)
(* it and reconciles the branch.  Reconciling first sweeps the closures    *)
(* whose evidence file is gone -- the candidates of every branch -- and    *)
(* then looks for completed tasks of the delivery's own branch.            *)
(*                                                                         *)
(* Abstracted: an entry is a task line, the task memories with its content *)
(* and the one file or command that completes it.  Events of a delivery    *)
(* take the numbers seq+1 (captured), seq+2 (sweep) and seq+3 (detection). *)
(* Forks start at the tip of Main.  Every closure is inside the hygiene    *)
(* window.  A settlement request is the operator's, or an agent's that the *)
(* policy allows.  A line or a memory may also be changed by hand, past    *)
(* settlement: byHand keeps the entries that this left irregular.  A write *)
(* that the byte limit of the protected blocks refuses fails its whole     *)
(* transaction and is no step, except a marker's, which goes on without.   *)
(*                                                                         *)
(* An operator named X_Y is the mutant Y of X: no definition uses it.      *)
(***************************************************************************)
EXTENDS Integers, FiniteSets

CONSTANTS
    Main,           \* the main branch
    Forks,          \* branches that may be created from it
    Strong,         \* entries completed by a host write of their file
    Medium,         \* entries completed by a command
    MaxDeliveries   \* bound: deliveries, requests and repairs

Branches == {Main} \cup Forks
Entries == Strong \cup Medium
NoClosure == << >>

ASSUME NamesAssumption == Main \notin Forks /\ Strong \cap Medium = {}
ASSUME BoundsAssumption == MaxDeliveries \in Nat

VARIABLES
    seq,        \* the last event number
    cut,        \* fork_event_seq of the branches created so far
    lines,      \* lines of the open_tasks block a branch sees
    tasks,      \* live task memories a branch sees
    evidence,   \* host tool outputs that complete an entry
    ledger,     \* task_closure candidates with their latest status
    files,      \* strong entries whose file exists
    autoMedium, \* policy flag automatic_task_closure_enabled
    refused,    \* branches one of whose deliveries a sweep rolled back
    byHand      \* history: <<branch, entry>> changed by hand and irregular since

vars == <<seq, cut, lines, tasks, evidence, ledger, files, autoMedium, refused, byHand>>

Alive == DOMAIN cut

\* the lineage of a branch shows its own events and those up to its fork point
Shows(b, branch, n) == branch = b \/ (branch = Main /\ n <= cut[b])

Key(c) == <<c.branch, c.evidence>>

Init ==
    /\ seq = 0 /\ cut = [b \in {Main} |-> 0]
    /\ lines = [b \in Branches |-> {}] /\ tasks = [b \in Branches |-> {}]
    /\ evidence = {} /\ ledger = {} /\ files = {}
    /\ autoMedium = FALSE /\ refused = {} /\ byHand = {}

-----------------------------------------------------------------------------
(* What a transaction of one branch works on: its block, its memories and  *)
(* the ledger, which is shared by all branches.                            *)

View(b) == [lines |-> lines[b], tasks |-> tasks[b], ledger |-> ledger,
            evidence |-> evidence]

Restated(led, C, status, n) ==
    (led \ C) \cup {[c EXCEPT !.status = status, !.at = n] : c \in C}

AppliedTo(v, x) == {c \in v.ledger : c.status = "applied" /\ c.entry = x}

(* A TODO marker writes a memory.  One that is listed finds the line there *)
(* or adds it, and adding it contests the applied closures of the entry.   *)
Contested_Never(v, x) == {}

Contested(v, x) == IF x \in v.lines THEN {} ELSE AppliedTo(v, x)

Noted(v, x, n, listed) ==
    [v EXCEPT !.tasks = @ \cup {[entry |-> x, id |-> n, anchor |-> n, status |-> "open",
                                by |-> NoClosure, listed |-> listed]}]

Marked(v, x, n) ==
    [Noted(v, x, n, TRUE) EXCEPT
        !.lines = @ \cup {x},
        !.ledger = Restated(@, Contested(v, x), "contested", n)]

(* undo_closure, for a set of candidates: the line returns and the memory  *)
(* that the closure completed gets a reopened version.                     *)
Completed(v, C) ==
    {r \in v.tasks : r.status = "completed" /\ \E c \in C : r.by = Key(c)}

Undone_KeepsMemory(v, C, n) ==
    [v EXCEPT !.lines = @ \cup {c.entry : c \in C},
              !.ledger = Restated(@, C, "reverted", n)]

Undone_NoLine(v, C, n) ==
    [v EXCEPT
        !.tasks = (@ \ Completed(v, C)) \cup
            {[r EXCEPT !.id = n, !.anchor = n, !.status = "reopened"]
                : r \in Completed(v, C)},
        !.ledger = Restated(@, C, "reverted", n)]

Undone(v, C, n) ==
    [v EXCEPT
        !.lines = @ \cup {c.entry : c \in C},
        !.tasks = (@ \ Completed(v, C)) \cup
            {[r EXCEPT !.id = n, !.anchor = n, !.status = "reopened"]
                : r \in Completed(v, C)},
        !.ledger = Restated(@, C, "reverted", n)]

\* invalidated_closures: applied closures of any branch whose file is gone
Lapsed(v) ==
    {c \in v.ledger : c.status = "applied" /\ c.entry \in Strong \ files}

(* detect_completions: the oldest live memory of a line anchors it, and    *)
(* the first matching event after the anchor is its evidence.              *)
Oldest(v, x) ==
    {r \in v.tasks : r.entry = x /\ \A q \in v.tasks : q.entry = x => r.id <= q.id}

Matching(b, v, x) ==
    {e \in v.evidence : /\ e.entry = x /\ Shows(b, e.branch, e.seq)
                        /\ \E r \in Oldest(v, x) : r.anchor < e.seq}

First(S) == {e \in S : \A f \in S : e.seq <= f.seq}

Detections(b, v) ==
    UNION {{[branch |-> b, entry |-> x, evidence |-> e.seq]
                : e \in First(Matching(b, v, x))} : x \in v.lines}

Of(c) == [branch |-> c.branch, entry |-> c.entry, evidence |-> c.evidence]

\* create_settlement_candidate: the receipt of a detection finds its candidate
Candidate(d, r, n) ==
    [branch |-> d.branch, entry |-> d.entry, evidence |-> d.evidence,
     detected |-> n, task |-> r.id, status |-> "pending", at |-> n]

Known(v, D) == {c \in v.ledger : Of(c) \in D}

Found_NoReceipt(b, v, n) ==
    UNION {{Candidate(d, r, n) : r \in Oldest(v, d.entry)} : d \in Detections(b, v)}

Found(b, v, n) ==
    LET D == Detections(b, v)
    IN Known(v, D) \cup
       UNION {{Candidate(d, r, n) : r \in Oldest(v, d.entry)}
                : d \in {d \in D : Known(v, {d}) = {}}}

AutoApply(c) == c.entry \in Strong \/ autoMedium

\* consume-once: only a candidate that was never settled is applied
Unsettled(c) == c.status = "pending"

(* _apply_closure, for a set of candidates whose lines are present: the    *)
(* line goes and the memory is superseded by a completed version.          *)
Finished(v, C) ==
    {p \in C \X v.tasks : /\ p[2].id = p[1].task /\ p[2].entry = p[1].entry
                          /\ p[2].status # "completed"}

Closed(v, C, n) ==
    [v EXCEPT
        !.lines = @ \ {c.entry : c \in C},
        !.tasks = (@ \ {p[2] : p \in Finished(v, C)}) \cup
            {[entry |-> p[1].entry, id |-> n, anchor |-> p[1].detected,
              status |-> "completed", by |-> Key(p[1]), listed |-> p[2].listed]
                : p \in Finished(v, C)},
        !.ledger = Restated(@, C, "applied", n)]

Appliable(D) == {c \in D : Unsettled(c) /\ AutoApply(c)}

Recorded(v, D) == [v EXCEPT !.ledger = @ \cup D]

-----------------------------------------------------------------------------
(* What settlement leaves of an entry it has nothing to say about.         *)
Open(v, x) == \E r \in v.tasks : r.entry = x /\ r.status # "completed"

Regular(b, v, x) ==
    x \in v.lines /\ Open(v, x) /\ \A c \in AppliedTo(v, x) : c.branch # b

Irregular(b, v, P) == P \ ({b} \X {x \in Entries : Regular(b, v, x)})

\* a transaction of b that sees v at its end and changed X by hand
Commit(b, v, X) ==
    /\ byHand' = Irregular(b, v, byHand \cup ({b} \X X))
    /\ lines' = [lines EXCEPT ![b] = v.lines]
    /\ tasks' = [tasks EXCEPT ![b] = v.tasks]
    /\ ledger' = v.ledger
    /\ evidence' = v.evidence
    /\ seq' = seq + 3
    /\ UNCHANGED <<cut, autoMedium, refused>>

\* a settlement event of one branch is visible only in that branch
SettlesIn(b, C) == \A c \in C : c.branch = b

Refuse(b) ==
    /\ refused' = refused \cup {b}
    /\ UNCHANGED <<seq, cut, lines, tasks, evidence, ledger, autoMedium, byHand>>

(* The reconcile stage of a delivery that captured its event as v.         *)
Reconciled(b, v) ==
    LET swept == Undone(v, Lapsed(v), seq + 2)
        D == Found(b, swept, seq + 3)
    IN Closed(Recorded(swept, D), Appliable(D), seq + 3)

Turn(b) == b \in Alive /\ seq < 3 * MaxDeliveries

(* A host hook delivers a prompt with a TODO marker.  One that would       *)
(* contest a closure of another branch fails, and is no step.              *)
Marker(b, x) ==
    /\ Turn(b)
    /\ SettlesIn(b, Contested(View(b), x))
    /\ UNCHANGED files
    /\ LET v == Marked(View(b), x, seq + 1)
       IN IF SettlesIn(b, Lapsed(v))
          THEN Commit(b, Reconciled(b, v), {})
          ELSE Refuse(b)

(* It writes the memory only, when the line has no room in the protected   *)
(* blocks, or the marker is a question and its line a request.             *)
UnlistedMarker(b, x) ==
    /\ Turn(b)
    /\ x \notin lines[b]
    /\ UNCHANGED files
    /\ LET v == Noted(View(b), x, seq + 1, FALSE)
       IN IF SettlesIn(b, Lapsed(v))
          THEN Commit(b, Reconciled(b, v), {})
          ELSE Refuse(b)

(* service.append_event takes the same text from a caller that may not     *)
(* write blocks, and reconciles nothing.                                   *)
Note(b, x) ==
    /\ Turn(b)
    /\ UNCHANGED files
    /\ Commit(b, Noted(View(b), x, seq + 1, FALSE), {})

(* The host reports the write or the command that completes an entry.  Of  *)
(* a delivery rolled back only the host's own write remains.               *)
Work(b, x) ==
    /\ Turn(b)
    /\ x \in Strong => x \in files
    /\ UNCHANGED files
    /\ LET v == [View(b) EXCEPT
                    !.evidence = @ \cup {[seq |-> seq + 1, branch |-> b, entry |-> x]}]
       IN IF SettlesIn(b, Lapsed(v))
          THEN Commit(b, Reconciled(b, v), {})
          ELSE Refuse(b)

(* `reconcile' on the command line: every step is a transaction of its own, *)
(* so it may stop between two of them, or at one it may not undo.  Run to  *)
(* the end it does what a delivery without marker or work does.            *)
ReconcileCommand(b) ==
    /\ Turn(b)
    /\ UNCHANGED files
    /\ \/ /\ SettlesIn(b, Lapsed(View(b)))
          /\ LET swept == Undone(View(b), Lapsed(View(b)), seq + 2)
             IN \E D \in SUBSET Found(b, swept, seq + 3) :
                \E C \in SUBSET Appliable(D) :
                    Commit(b, Closed(Recorded(swept, D), C, seq + 3), {})
       \/ \E C \in SUBSET {c \in Lapsed(View(b)) : c.branch = b} :
            Commit(b, Undone(View(b), C, seq + 2), {})

(* SettlementSurface.settle: a request event, then the transition.         *)
Request(b) == Turn(b) /\ UNCHANGED files

ApplyRequested(b, c) ==
    /\ Request(b)
    /\ c.branch = b /\ c.status = "pending" /\ c.entry \in lines[b]
    /\ Commit(b, Closed(View(b), {c}, seq + 3), {})

UndoRequested(b, c) ==
    /\ Request(b)
    /\ c.branch = b /\ c.status = "applied"
    /\ Commit(b, Undone(View(b), {c}, seq + 2), {})

ContestRequested(b, c) ==
    /\ Request(b)
    /\ c.branch = b /\ c.status \in {"pending", "applied"}
    /\ Commit(b, [View(b) EXCEPT !.ledger = Restated(@, {c}, "contested", seq + 2)], {})

(* By hand: set_active_block writes the block anew, a block change that an *)
(* operator applies or reverts adds or removes one line, and derive_memory *)
(* replaces a memory.  None of them looks at a closure.                    *)
WriteTasks(b, L) ==
    /\ Request(b)
    /\ L # lines[b]
    /\ Commit(b, [View(b) EXCEPT !.lines = L], (L \ lines[b]) \cup (lines[b] \ L))

Supersede(b, r) ==
    /\ Request(b)
    /\ Commit(b, [View(b) EXCEPT !.tasks = @ \ {r}], {r.entry})

(* create_branch: the fork sees what its parent shows at the tip.          *)
ForkPoint == seq

Fork(b) ==
    /\ b \in Forks \ Alive
    /\ cut' = [a \in Alive \cup {b} |-> IF a = b THEN ForkPoint ELSE cut[a]]
    /\ lines' = [lines EXCEPT ![b] = lines[Main]]
    /\ tasks' = [tasks EXCEPT ![b] = tasks[Main]]
    /\ byHand' = Irregular(b, View(Main),
                    byHand \cup ({b} \X {x \in Entries : <<Main, x>> \in byHand}))
    /\ UNCHANGED <<seq, evidence, ledger, files, autoMedium, refused>>

\* the host tool runs before its report, and a file may vanish at any time
ChangeFile(x) ==
    /\ files' = IF x \in files THEN files \ {x} ELSE files \cup {x}
    /\ UNCHANGED <<seq, cut, lines, tasks, evidence, ledger, autoMedium, refused, byHand>>

ActivatePolicy ==
    /\ autoMedium' = ~autoMedium
    /\ UNCHANGED <<seq, cut, lines, tasks, evidence, ledger, files, refused, byHand>>

Next ==
    \/ \E b \in Branches, x \in Entries :
        Marker(b, x) \/ UnlistedMarker(b, x) \/ Note(b, x) \/ Work(b, x)
    \/ \E b \in Branches : ReconcileCommand(b) \/ Fork(b)
    \/ \E b \in Branches : \E c \in ledger :
        ApplyRequested(b, c) \/ UndoRequested(b, c) \/ ContestRequested(b, c)
    \/ \E b \in Branches : \E L \in SUBSET Entries : WriteTasks(b, L)
    \/ \E b \in Branches : \E r \in tasks[b] : Supersede(b, r)
    \/ \E x \in Strong : ChangeFile(x)
    \/ ActivatePolicy

Spec == Init /\ [][Next]_vars

-----------------------------------------------------------------------------

(* One detection is one candidate, settled at most once each way, however  *)
(* often the same evidence is seen again (docs/security.md:152-156).  A    *)
(* second closure is applied beside an applied one only where somebody put *)
(* the line back by hand.                                                  *)
ConsumedOnce ==
    /\ \A c, d \in ledger : Of(c) = Of(d) => c = d
    /\ \A b \in Branches : \A x \in Entries : <<b, x>> \notin byHand =>
        Cardinality({c \in ledger : c.branch = b /\ c.entry = x
                                    /\ c.status = "applied"}) <= 1

(* While a closure is applied its line is not in the block: a marker, a    *)
(* sweep and a request settle the closure as they bring the line back.     *)
(* Only hands put it back beside its closure (api.py:198).                 *)
ClosedLinesStayOut ==
    \A c \in ledger : c.status = "applied" /\ <<c.branch, c.entry>> \notin byHand
        => c.entry \notin lines[c.branch]

(* Nothing that was listed is lost: its line is in the block unless it was *)
(* taken out by hand or by a closure -- one of the branch that is applied  *)
(* or was contested where it was, or one of Main detected before the fork. *)
NoEntryVanishes ==
    \A b \in Alive : \A r \in tasks[b] : r.listed =>
        \/ r.entry \in lines[b]
        \/ <<b, r.entry>> \in byHand
        \/ \E c \in ledger :
            /\ c.entry = r.entry
            /\ \/ c.branch = b /\ c.status \in {"applied", "contested"}
               \/ b # Main /\ c.branch = Main /\ c.detected <= cut[b]

(* A line that settlement alone moved in and out has a live task memory    *)
(* that is not completed, whatever duplicates, notes without a line,       *)
(* closures and reverts it went through.                                   *)
OpenLineHasOpenTask ==
    \A b \in Branches : \A x \in lines[b] : <<b, x>> \in byHand \/ Open(View(b), x)

(* reconciler.py:586: an applied closure whose file is gone is reverted by *)
(* the next reconcile, and a delivery is not refused on its account.       *)
DeliveriesAreAccepted == refused = {}
=============================================================================
