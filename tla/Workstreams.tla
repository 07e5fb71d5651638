---------------------------- MODULE Workstreams ----------------------------
(***************************************************************************)
(* Task boundaries (tasks.py, task_storage.py): a task is a branch forked  *)
(* from its parent, a list of versions with a status each, and the         *)
(* sessions bound to it.  Every operation is one transaction, so it is one *)
(* action; a refused operation rolls back and is no step.                  *)
(*                                                                         *)
(* Simplifications.  Titles, notes and metadata are left out.  A branch is *)
(* named by its task.  Instead of walking the lineage of a branch, a       *)
(* branch keeps the events it inherited when it forked: the past of the    *)
(* log never changes.  Of the snapshots of a branch the cursor of the      *)
(* newest is kept: a task branch takes its own when it starts.  Closure    *)
(* candidates belong to Settlement; here they open and close at will.      *)
(***************************************************************************)
EXTENDS Naturals, Sequences, FiniteSets

CONSTANTS
  Main,         \* the branch every store starts with
  Tasks,        \* task keys, and the names of their branches
  Sessions,     \* native sessions of the host
  None,         \* no session, no branch, no task
  Delegation,   \* agent_settlement_delegation_enabled of the active policy
  MaxEvents,    \* bound: events in the log
  MaxVersions   \* bound: versions of one task

ASSUME NamesDistinct == Main \notin Tasks /\ None \notin Tasks \cup Sessions \cup {Main}
ASSUME DelegationAssumption == Delegation \in BOOLEAN
ASSUME BoundsPositive == MaxEvents \in Nat /\ MaxVersions \in Nat

VARIABLES
  log,            \* canonical events: branch, session and origin evidence
  inherited,      \* branch -> the events of its ancestors that it sees
  cursor,         \* branch -> cursor of its newest snapshot, 0 without one
  versions,       \* task -> its versions, oldest first
  sessionBranch,  \* session -> the branch of its core session, or None
  taskOf,         \* session -> the task it is bound to, or None
  open,           \* source events of closure candidates that are not applied
  closed          \* source events of applied closure candidates

taskVars == <<versions, taskOf>>
storeVars == <<log, inherited, cursor>>
wsVars == <<log, inherited, cursor, versions, sessionBranch, taskOf, open, closed>>

Branches == Tasks \cup {Main}
Statuses == {"active", "blocked", "completed", "cancelled"}
Terminal == {"completed", "cancelled"}
Trusted == {"user", "operator", "agent"}
Numbers == 1..MaxEvents

Row(b, s, o) == [branch |-> b, session |-> s, origin |-> o]
Started(b) == b \in Tasks => versions[b] # <<>>
Visible(b) == inherited[b] \cup {n \in DOMAIN log : log[n].branch = b}
Current(t) == versions[t][Len(versions[t])]

\* What must be overridden to complete a task: the closure candidates its
\* branch sees and that are not applied, reverted and contested ones included.
\* The lines of its open_tasks block, named in the same way, are left out.
Obligations(t) == open \cap Visible(t)

----------------------------------------------------------------------------
WsInit ==
  /\ log = <<>>
  /\ inherited = [b \in Branches |-> {}]
  /\ cursor = [b \in Branches |-> 0]
  /\ versions = [t \in Tasks |-> <<>>]
  /\ sessionBranch = [s \in Sessions |-> None]
  /\ taskOf = [s \in Sessions |-> None]
  /\ open = {} /\ closed = {}

----------------------------------------------------------------------------
\* A session bound to a task keeps it; binding it again to the same is a no-op.
Bindable(s, t) == taskOf[s] \in {None, t}

\* The first version of a task: a branch at the tip of the parent, the event
\* that says so, and a snapshot.
FirstVersion(n) ==
  [status |-> "active", sources |-> {n}, evidence |-> n, override |-> {}]

\* start() of a task that does not exist, with the rows it appends first.  A
\* session cannot be named: it belongs to another branch, and the event of the
\* new branch refuses it.
StartWith(t, parent) ==
  /\ versions[t] = <<>>
  /\ Started(parent)
  /\ Len(log) < MaxEvents
  /\ log' = Append(log, Row(t, None, "untrusted"))
  /\ inherited' = [inherited EXCEPT ![t] = Visible(parent)]
  /\ cursor' = [cursor EXCEPT ![t] = Len(log) + 1]
  /\ versions' = [versions EXCEPT ![t] = <<FirstVersion(Len(log) + 1)>>]

Start(t, parent) ==
  /\ StartWith(t, parent)
  /\ UNCHANGED <<sessionBranch, taskOf, open, closed>>

\* start() of a task that is active or blocked binds the session it names,
\* whatever the branch of that session.
StartExisting(t, s) ==
  /\ versions[t] # <<>> /\ Current(t).status \in {"active", "blocked"}
  /\ sessionBranch[s] # None /\ taskOf[s] = None
  /\ taskOf' = [taskOf EXCEPT ![s] = t]
  /\ UNCHANGED <<log, inherited, cursor, versions, sessionBranch, open, closed>>

----------------------------------------------------------------------------
Flow == [active |-> {"blocked", "completed", "cancelled"},
         blocked |-> {"active", "completed", "cancelled"},
         completed |-> {}, cancelled |-> {}]

\* validate_transition under WORKSTREAM_RULE.
Allowed(from, to, origin, reopen) ==
  /\ origin = "agent" => Delegation
  /\ IF reopen THEN to = "active" /\ from \in Terminal /\ origin \in Trusted
               ELSE to \in Flow[from] /\ (to \in Terminal => origin \in Trusted)

Unused_Latest(t, n) == n # Current(t).evidence
\* Each source event moves a task at most once.
Unused(t, n) == n \notin Current(t).sources

\* The override names exactly what is open, and only when completing.
Overridden(t, status, override) ==
  override = IF status = "completed" THEN Obligations(t) ELSE {}

\* set_status(): rows are what the caller appended before it (the request of
\* an operator, or the event written when no source is named), evidence is the
\* source event; the transition event, the snapshot and the version follow.
Move(t, status, reopen, rows, evidence, override) ==
  LET events == Append(log \o rows, Row(t, None, "untrusted"))
      last == Len(events)
  IN /\ versions[t] # <<>> /\ Len(versions[t]) < MaxVersions
     /\ last <= MaxEvents
     /\ Current(t).status # status
     /\ Overridden(t, status, override)
     /\ evidence \in Visible(t) \cup (Len(log) + 1)..Len(log \o rows)
     /\ Unused(t, evidence)
     /\ Allowed(Current(t).status, status, events[evidence].origin, reopen)
     /\ log' = events
     /\ cursor' = [cursor EXCEPT ![t] = last]
     /\ versions' = [versions EXCEPT ![t] = Append(@,
          [status |-> status, sources |-> Current(t).sources \cup {evidence, last},
           evidence |-> evidence, override |-> override])]
     /\ UNCHANGED <<inherited, sessionBranch, taskOf, open, closed>>

\* A caller of the API or of MCP names the event that justifies the change.
SetStatus(t, status, n, override) == Move(t, status, FALSE, <<>>, n, override)

\* Without a source the change writes its own event, which proves nothing.
SetStatusUnproved(t, status) ==
  /\ status \notin Terminal
  /\ Move(t, status, FALSE, <<Row(t, None, "untrusted")>>, Len(log) + 1, {})

\* The command line appends the request of the local operator first.
SetStatusAsOperator(t, status, override) ==
  Move(t, status, FALSE, <<Row(t, None, "operator")>>, Len(log) + 1, override)

Reopen(t, n) == Move(t, "active", TRUE, <<>>, n, {})

ReopenAsOperator(t) ==
  /\ versions[t] # <<>> /\ Current(t).status \in Terminal
  /\ Move(t, "active", TRUE, <<Row(t, None, "operator")>>, Len(log) + 1, {})

----------------------------------------------------------------------------
\* What other components do to the obligations of a task: a detection writes
\* an event and opens a candidate, which is applied, and undone or contested.
Detect(b) ==
  /\ Started(b) /\ Len(log) < MaxEvents
  /\ log' = Append(log, Row(b, None, "untrusted"))
  /\ open' = open \cup {Len(log) + 1}
  /\ UNCHANGED <<inherited, cursor, versions, sessionBranch, taskOf, closed>>

Settle(n) ==
  /\ n \in open
  /\ open' = open \ {n} /\ closed' = closed \cup {n}
  /\ UNCHANGED <<log, inherited, cursor, versions, sessionBranch, taskOf>>

Undo(n) ==
  /\ n \in closed
  /\ closed' = closed \ {n} /\ open' = open \cup {n}
  /\ UNCHANGED <<log, inherited, cursor, versions, sessionBranch, taskOf>>

\* An event of the public API, which no one trusts, or the request to settle a
\* candidate, which an agent may write only under delegation.
AppendOther(b, origin) ==
  /\ Started(b) /\ Len(log) < MaxEvents
  /\ origin = "agent" => Delegation
  /\ log' = Append(log, Row(b, None, origin))
  /\ UNCHANGED <<inherited, cursor, versions, sessionBranch, taskOf, open, closed>>

WsNext ==
  \/ \E t \in Tasks, parent \in Branches : Start(t, parent)
  \/ \E t \in Tasks, s \in Sessions : StartExisting(t, s)
  \/ \E t \in Tasks, status \in Statuses, override \in SUBSET open :
       \/ \E n \in DOMAIN log : SetStatus(t, status, n, override)
       \/ SetStatusAsOperator(t, status, override)
  \/ \E t \in Tasks, status \in Statuses : SetStatusUnproved(t, status)
  \/ \E t \in Tasks : ReopenAsOperator(t) \/ \E n \in DOMAIN log : Reopen(t, n)
  \/ \E b \in Branches : Detect(b)
  \/ \E b \in Branches, o \in {"untrusted", "operator", "agent"} : AppendOther(b, o)
  \/ \E n \in Numbers : Settle(n) \/ Undo(n)

WsSpec == WsInit /\ [][WsNext]_wsVars

----------------------------------------------------------------------------
\* One piece of evidence moves a task once: what a later version cites was not
\* among the sources of any earlier one, whatever is said, repeated, started and
\* settled in between.  (create_task_version, set_status.)
EvidenceMovesOnce ==
  \A t \in Tasks : \A i, j \in DOMAIN versions[t] :
    i < j => versions[t][j].evidence \notin versions[t][i].sources
=============================================================================
