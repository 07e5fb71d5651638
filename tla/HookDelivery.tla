--------------------------- MODULE HookDelivery ----------------------------
(***************************************************************************)
(* One hook delivery (hooks.py, process_hook) and what it writes: session  *)
(* and task binding, the capture under a receipt, finalizations, views of  *)
(* tool output, native failures, provider usage, the context counter, the  *)
(* checkpoint, consolidation and the governor's actions.  The whole        *)
(* delivery is one transaction, so Deliver is one action.  The host        *)
(* repeats a delivery whose answer it did not get, and nothing orders the  *)
(* deliveries of two sessions.                                             *)
(*                                                                         *)
(* Simplifications.  A delivery is a record of what the code reads of it:  *)
(* session, kind, what identifies it, the task it names, its size in       *)
(* tokens, the usage the provider reports, its finalization tag, whether a *)
(* precheck warns, whether its text has markers, and whether what it says  *)
(* of a failure holds a secret or no information.  Replay-tail bytes, and  *)
(* the text of a summary, are counted in events.  What consolidation and   *)
(* reconciliation do is TrustLedgers's and Settlement's: here they only    *)
(* add rows.  Projections after the commit are Transactions's.             *)
(***************************************************************************)
EXTENDS Workstreams, ContextLimits

CONSTANTS
  Deliveries,  \* the native events the hosts may send
  Limits,      \* session -> the limits of its agent
  KeepGroups,  \* interaction groups that compaction leaves alone
  SummarySize, \* how many events the text of a summary holds
  MaxSends,    \* bound: how often the hosts send a delivery
  MaxAsides    \* bound: rows that consolidation and reconciliation add at once

VARIABLES
  receipts,  \* receipt -> last event of the capture
  summaries, \* summaries of compaction: the event of each and what it covers
  derived,   \* kind of derived row -> event -> how many rows
  reported,  \* session -> context the provider last reported, 0 without
  counters,  \* rows of hook_context_counters
  actions,   \* rows of governor_actions
  sends,     \* how often the hosts have sent one
  answer     \* delivery -> what its last answer said

hookVars == <<receipts, summaries, derived, reported, counters, actions, sends, answer>>
vars == <<wsVars, hookVars>>

Kinds == {"start", "prompt", "pre", "tool", "failure", "stop", "compact"}
Counted == {"prompt", "tool"}
Tags == {"none", "confirmed", "rejected", "malformed"}
DerivedKinds == {"memory", "record", "quarantine", "reduction", "failure",
                 "usage", "consolidated"}

ASSUME DeliveriesAssumption ==
  Deliveries \subseteq
    [session : Sessions, kind : Kinds, key : Nat, task : Tasks \cup {None},
     tokens : Nat, reported : Nat, tag : Tags, warns : BOOLEAN,
     markers : BOOLEAN, secret : BOOLEAN, vague : BOOLEAN]
ASSUME SizesAssumption ==
  KeepGroups \in Nat /\ SummarySize \in Nat /\ MaxSends \in Nat /\ MaxAsides \in Nat
ASSUME LimitsAssumption ==
  \A s \in Sessions :
    AcceptedLimits(Limits[s]) /\ Computable(Limits[s]) /\ Limits[s].width > 0

----------------------------------------------------------------------------
\* The task a delivery belongs to: the one it names, else its session's.
TaskFor(d) == IF d.task # None THEN d.task ELSE taskOf[d.session]
BranchFor(d) == IF TaskFor(d) = None THEN Main ELSE TaskFor(d)
StartsTask(d) == d.task # None /\ versions[d.task] = <<>>

\* A session stays in the branch and in the task it was first seen in.
SessionFits(d) ==
  /\ sessionBranch[d.session] \in {None, BranchFor(d)}
  /\ TaskFor(d) # None => Bindable(d.session, TaskFor(d))

\* What identifies a delivery: agent and session, event, call or message.
Receipt(d) == <<d.session, d.kind, d.key>>
ASSUME ReceiptsIdentify == \A d, e \in Deliveries : Receipt(d) = Receipt(e) => d = e
Repeated_Never(d) == d.key < 0
Repeated(d) == Receipt(d) \in DOMAIN receipts

HostRows(d) ==
  LET row(o) == Row(BranchFor(d), d.session, o)
  IN CASE d.kind = "prompt" -> <<row("user")>>
       [] d.kind \in {"tool", "failure"} -> <<row("untrusted"), row("untrusted")>>
       [] d.kind = "stop" -> <<row("assistant")>>
       [] OTHER -> <<row("untrusted")>>

\* How many events a kind of delivery is stored as.
SizeOf(kind) == IF kind \in {"tool", "failure"} THEN 2 ELSE 1

\* A row that something derived from others, in the session they have in common.
DerivedRow(b, s) == Row(b, s, "derived")

\* The log once the task exists.
Resolved(d) ==
  IF StartsTask(d) THEN Append(log, Row(d.task, None, "untrusted")) ELSE log

\* Everything the branch of a delivery sees in a log.
SeenIn(d, events) ==
  (IF StartsTask(d) THEN Visible(Main) ELSE inherited[BranchFor(d)])
    \cup {n \in DOMAIN events : events[n].branch = BranchFor(d)}

----------------------------------------------------------------------------
\* compact(): what a branch was told before its newest interaction groups, but
\* for the prose of the assistant, as far as the text of a summary reaches.
Spoken == {"prompt", "tool", "failure", "stop"}
Groups(captured, seen) == {r \in DOMAIN captured : r[2] \in Spoken /\ captured[r] \in seen}
OldGroups(captured, seen) ==
  {r \in Groups(captured, seen) :
     Cardinality({q \in Groups(captured, seen) : captured[q] > captured[r]}) >= KeepGroups}
OldEvents(captured, seen) ==
  UNION {(captured[r] - SizeOf(r[2]) + 1)..captured[r] :
           r \in {q \in OldGroups(captured, seen) : q[2] # "stop"}}
Covered(captured, seen) ==
  {n \in OldEvents(captured, seen) :
     Cardinality({m \in OldEvents(captured, seen) : m <= n}) <= SummarySize}

\* A summary and its index, unless one of the same events is there.
SummaryDue(known, covered, seen) ==
  covered # {} /\ \A x \in known : x.of = covered => x.event \notin seen
CommonSession(events, numbers) ==
  LET common(s) == \A n \in numbers : events[n].session = s
  IN IF \E s \in Sessions : common(s) THEN CHOOSE s \in Sessions : common(s) ELSE None
SummaryRows(b, events, known, covered, seen) ==
  IF SummaryDue(known, covered, seen)
  THEN LET row == DerivedRow(b, CommonSession(events, covered)) IN <<row, row>>
  ELSE <<>>
SummariesAfter(known, covered, seen, last) ==
  IF SummaryDue(known, covered, seen)
  THEN known \cup {[event |-> last + 1, of |-> covered]} ELSE known

\* A compaction of the host first compacts what the branch sees.
HostCovers(d) ==
  IF d.kind = "compact" THEN Covered(receipts, SeenIn(d, Resolved(d))) ELSE {}
Prepared(d) ==
  Resolved(d) \o SummaryRows(BranchFor(d), Resolved(d), summaries, HostCovers(d),
                             SeenIn(d, Resolved(d)))
SummariesPrepared(d) ==
  SummariesAfter(summaries, HostCovers(d), SeenIn(d, Resolved(d)), Len(Resolved(d)))

\* The log once the event is captured.
Captured(d) == IF Repeated(d) THEN Prepared(d) ELSE Prepared(d) \o HostRows(d)
Source(d) == IF Repeated(d) THEN receipts[Receipt(d)] ELSE Len(Captured(d))
SourceEvents(d) == (Source(d) - Len(HostRows(d)) + 1)..Source(d)
ReceiptsAfter(d) ==
  [r \in DOMAIN receipts \cup {Receipt(d)} |->
     IF r = Receipt(d) THEN Source(d) ELSE receipts[r]]

\* Newest snapshot before the capture: a task starts with one, and a
\* compaction of the host takes one first.
CursorBefore(d) ==
  IF StartsTask(d) \/ d.kind = "compact" THEN Len(Prepared(d)) ELSE cursor[BranchFor(d)]
TailSize(d, events) == Cardinality({n \in SeenIn(d, events) : n > CursorBefore(d)})

----------------------------------------------------------------------------
\* Each derived row is looked up before it is written.  A failure is looked up
\* by what it says, and found only as long as nothing of that was redacted.
OneRow(count) == IF count = 0 THEN 1 ELSE count
RowsOf(d, k, count) == IF k = "failure" /\ d.secret THEN count + 1 ELSE OneRow(count)

Finalized(d) ==
  IF d.kind # "stop" THEN {}
  ELSE CASE d.tag = "confirmed" -> {"memory", "record"}
         [] d.tag = "rejected" -> {"record"}
         [] d.tag = "malformed" -> {"quarantine"}
         [] OTHER -> {}
Reduced(d) == IF d.kind \in {"tool", "failure"} THEN {"reduction"} ELSE {}
FailureDerived(d) == IF d.kind = "failure" /\ ~d.vague THEN {"failure"} ELSE {}
UsageReported(d) == IF d.reported > 0 THEN {"usage"} ELSE {}

\* What the last event of a delivery gives rise to.
Wanted(d) == Finalized(d) \cup Reduced(d) \cup FailureDerived(d) \cup UsageReported(d)

\* Consolidation of a set of events: each once, whoever asks.
Consolidated(events) ==
  [n \in Numbers |-> IF n \in events THEN OneRow(derived["consolidated"][n])
                     ELSE derived["consolidated"][n]]

\* A finalization and a failure are memories: each adds an event to the log.
Remembered(d) ==
  {k \in Wanted(d) \cap {"memory", "failure"} :
     RowsOf(d, k, derived[k][Source(d)]) > derived[k][Source(d)]}
Derived(d) ==
  IF Remembered(d) = {} THEN Captured(d)
  ELSE Append(Captured(d), DerivedRow(BranchFor(d), d.session))

\* What consolidation and reconciliation add after that: memories and lines of
\* the markers of a prompt, one of a confirmed candidate in the branch and in
\* the session it came from, if that is the prompt's; and closures.
Beside(d) ==
  LET marked == IF d.kind = "prompt" /\ d.markers /\ ~Repeated(d)
                THEN {b \in Branches : Started(b)} \cup {BranchFor(d)} ELSE {}
  IN {DerivedRow(b, s) : b \in marked, s \in {None, d.session}}
       \cup {DerivedRow(BranchFor(d), None)}
Asides(d) == UNION {[1..n -> Beside(d)] : n \in 0..MaxAsides}

ToConsolidate_CompactOnly(d, compacts, events) ==
  IF compacts THEN SeenIn(d, events) ELSE {}

\* The events a delivery consolidates: its own, and all that its branch sees
\* when the host or the governor compacts.
ToConsolidate(d, compacts, events) ==
  SourceEvents(d)
    \cup (IF d.kind = "compact" THEN SeenIn(d, Resolved(d)) ELSE {})
    \cup (IF compacts THEN SeenIn(d, events) ELSE {})

DerivedAfter(d, compacts, events) ==
  [k \in DerivedKinds |->
     IF k = "consolidated" THEN Consolidated(ToConsolidate(d, compacts, events))
     ELSE [derived[k] EXCEPT ![Source(d)] = IF k \in Wanted(d) THEN RowsOf(d, k, @) ELSE @]]

\* The provider's report is a usage row of its own receipt.
ReportedAfter(d) ==
  IF d.reported > 0 /\ derived["usage"][Source(d)] = 0 THEN d.reported
  ELSE reported[d.session]

----------------------------------------------------------------------------
\* The cumulative counter of a session: one row per receipt.
Total(rows, s) ==
  LET mine == {i \in DOMAIN rows : rows[i].session = s}
  IN IF mine = {} THEN 0
     ELSE rows[CHOOSE i \in mine : \A j \in mine : j <= i].total
HasCounter(d) == \E i \in DOMAIN counters : counters[i].receipt = Receipt(d)
CountersAfter(d) ==
  IF d.kind \notin Counted \/ HasCounter(d) THEN counters
  ELSE Append(counters, [receipt |-> Receipt(d), session |-> d.session,
                         total |-> Total(counters, d.session) + d.tokens])
Cumulative(d) ==
  LET rows == CountersAfter(d)
  IN rows[CHOOSE i \in DOMAIN rows : rows[i].receipt = Receipt(d)].total

\* Context of a session: the larger of report and counter, and the size of the
\* visible history when there is neither.
Context(s, reportedNow, rows, seen) ==
  IF reportedNow > 0 \/ Total(rows, s) > 0 THEN Greatest(reportedNow, Total(rows, s))
  ELSE Cardinality(seen)

----------------------------------------------------------------------------
ActionRow(receipt, b, action, policy, source) ==
  [receipt |-> receipt, branch |-> b, action |-> action, policy |-> policy,
   source |-> source]
Recorded(rows, receipt) == \E i \in DOMAIN rows : rows[i].receipt = receipt

\* register_context_checkpoint: once per session and policy, and again only in
\* the answer to a retry of the delivery that crossed the threshold.
CheckpointReceipt(d) == <<"context-checkpoint", d.session, Limits[d.session].id>>
CheckpointOwned_Never(d) == d.key < 0
CheckpointOwned(d) ==
  \E i \in DOMAIN actions :
    actions[i].receipt = CheckpointReceipt(d) /\ actions[i].source = Source(d)
CheckpointDue(d) ==
  /\ TailSize(d, Derived(d)) >= Limits[d.session].tail
  /\ ~Recorded(actions, CheckpointReceipt(d))
Warning(d) ==
  /\ d.kind \in Counted
  /\ Cumulative(d) >= SnapshotAt(Limits[d.session])
  /\ CheckpointOwned(d) \/ CheckpointDue(d)
ActionsWarned(d) ==
  IF ~Warning(d) \/ CheckpointOwned(d) THEN actions
  ELSE Append(actions, ActionRow(CheckpointReceipt(d), BranchFor(d),
                "context_checkpoint", Limits[d.session].id, Source(d)))

\* evaluate_and_apply: receipts name the branch, the policy, the action and a
\* bucket of the context size, and the newest row of an action limits its rate.
GovernorReceipt(b, policy, action, context) ==
  <<b, policy.id, action, context \div policy.width>>
LastRows(rows, b, policy, action) ==
  {i \in DOMAIN rows :
     rows[i].branch = b /\ rows[i].action = action /\ rows[i].policy = policy.id}
LastSource(rows, b, policy, action) ==
  LET mine == LastRows(rows, b, policy, action)
  IN IF mine = {} THEN 0 ELSE rows[CHOOSE i \in mine : \A j \in mine : j <= i].source
RateLimited(rows, b, policy, action, now) ==
  /\ LastSource(rows, b, policy, action) > 0
  /\ now < LastSource(rows, b, policy, action) + policy.interval
Applies(a, rows, b, s, context, tailDue, now) ==
  /\ context >= Thresholds(Limits[s])[a]
  /\ a = "snapshot" => tailDue
  /\ ~RateLimited(rows, b, Limits[s], a, now)
  /\ ~Recorded(rows, GovernorReceipt(b, Limits[s], a, context))
AppliedActions(rows, b, s, context, tailDue, now) ==
  LET applied(a) == IF Applies(a, rows, b, s, context, tailDue, now) THEN <<a>> ELSE <<>>
  IN applied("snapshot") \o applied("compact") \o applied("handoff") \o applied("handoff_required")
GovernorRows(applied, b, s, context, source) ==
  [i \in DOMAIN applied |->
     ActionRow(GovernorReceipt(b, Limits[s], applied[i], context), b, applied[i],
               Limits[s].id, source)]
InSeq(x, seq) == \E i \in DOMAIN seq : seq[i] = x

\* A snapshot is due by its own action, or before a compaction of a branch
\* without one or with a long tail.
TakesSnapshot(applied, tailDue, newest) ==
  \/ InSeq("snapshot", applied)
  \/ InSeq("compact", applied) /\ (tailDue \/ newest = 0)

----------------------------------------------------------------------------
Silence == [refused |-> FALSE, checkpoint |-> FALSE, text |-> "none"]

HookInit ==
  /\ WsInit
  /\ receipts = [r \in {} |-> 0]
  /\ summaries = {}
  /\ derived = [k \in DerivedKinds |-> [n \in Numbers |-> 0]]
  /\ reported = [s \in Sessions |-> 0]
  /\ counters = <<>> /\ actions = <<>>
  /\ sends = 0
  /\ answer = [d \in Deliveries |-> Silence]

\* The checkpoint and one handoff text ride the injected context; a precheck
\* warning of a tool call is answered instead of them.
Text(applied) == IF InSeq("handoff_required", applied) THEN "handoff_required"
                 ELSE IF InSeq("handoff", applied) THEN "handoff" ELSE "none"
AnswerTo(d, applied) ==
  IF d.kind = "pre" /\ d.warns THEN Silence
  ELSE [refused |-> FALSE, checkpoint |-> Warning(d), text |-> Text(applied)]

\* The governor's compaction adds the summary of what was told by then.
Deliver(d) ==
  /\ sends < MaxSends
  /\ SessionFits(d)
  /\ Len(Captured(d)) <= MaxEvents
  /\ \E aside \in Asides(d) :
     LET b == BranchFor(d)
         s == d.session
         events == Derived(d) \o aside
         seen == SeenIn(d, events)
         context == Context(s, ReportedAfter(d), CountersAfter(d), seen)
         tailDue == TailSize(d, events) >= Limits[s].tail
         applied == AppliedActions(ActionsWarned(d), b, s, context, tailDue, Source(d))
         compacts == InSeq("compact", applied)
         covered == IF compacts THEN Covered(ReceiptsAfter(d), seen) ELSE {}
     IN /\ log' = events \o SummaryRows(b, events, SummariesPrepared(d), covered, seen)
        /\ Len(log') <= MaxEvents
        /\ inherited' = IF StartsTask(d) THEN [inherited EXCEPT ![b] = Visible(Main)]
                        ELSE inherited
        /\ versions' = IF StartsTask(d)
                       THEN [versions EXCEPT ![b] = <<FirstVersion(Len(Resolved(d)))>>]
                       ELSE versions
        /\ sessionBranch' = [sessionBranch EXCEPT ![s] = b]
        /\ taskOf' = [taskOf EXCEPT ![s] = TaskFor(d)]
        /\ receipts' = ReceiptsAfter(d)
        /\ summaries' = SummariesAfter(SummariesPrepared(d), covered, seen, Len(events))
        /\ derived' = DerivedAfter(d, compacts, events)
        /\ reported' = [reported EXCEPT ![s] = ReportedAfter(d)]
        /\ counters' = CountersAfter(d)
        /\ actions' = ActionsWarned(d) \o GovernorRows(applied, b, s, context, Source(d))
        /\ cursor' = [cursor EXCEPT ![b] =
                        IF TakesSnapshot(applied, tailDue, CursorBefore(d))
                        THEN Len(events) ELSE CursorBefore(d)]
        /\ sends' = sends + 1
        /\ answer' = [answer EXCEPT ![d] = AnswerTo(d, applied)]
        /\ UNCHANGED <<open, closed>>

\* A delivery whose session is bound elsewhere raises and rolls back.
Refuse(d) ==
  /\ sends < MaxSends
  /\ ~SessionFits(d)
  /\ sends' = sends + 1
  /\ answer' = [answer EXCEPT ![d] = [Silence EXCEPT !.refused = TRUE]]
  /\ UNCHANGED <<wsVars, receipts, summaries, derived, reported, counters, actions>>

\* The governor applied by hand for a session: its rows have no source event.
EvaluateByHand(s) ==
  LET b == sessionBranch[s]
      seen == Visible(b)
      context == Context(s, reported[s], counters, seen)
      tailDue == Cardinality({n \in seen : n > cursor[b]}) >= Limits[s].tail
      now == CHOOSE n \in seen : \A m \in seen : m <= n
      applied == AppliedActions(actions, b, s, context, tailDue, now)
      compacts == InSeq("compact", applied)
      covered == IF compacts THEN Covered(receipts, seen) ELSE {}
  IN /\ b # None /\ applied # <<>>
     /\ log' = log \o SummaryRows(b, log, summaries, covered, seen)
     /\ Len(log') <= MaxEvents
     /\ summaries' = SummariesAfter(summaries, covered, seen, Len(log))
     /\ actions' = actions \o GovernorRows(applied, b, s, context, 0)
     /\ cursor' = [cursor EXCEPT ![b] =
                     IF TakesSnapshot(applied, tailDue, @) THEN Len(log) ELSE @]
     /\ derived' = [derived EXCEPT !["consolidated"] =
                      Consolidated(IF compacts THEN seen ELSE {})]
     /\ UNCHANGED <<inherited, taskVars, sessionBranch, open, closed,
                    receipts, reported, counters, sends, answer>>

\* What else moves a session or a branch: tasks started by hand.
StartedByHand ==
  /\ \/ \E t \in Tasks, parent \in Branches : Start(t, parent)
     \/ \E t \in Tasks, s \in Sessions : StartExisting(t, s)
  /\ UNCHANGED hookVars

Next ==
  \/ StartedByHand
  \/ \E d \in Deliveries : Deliver(d) \/ Refuse(d)
  \/ \E s \in Sessions : EvaluateByHand(s)

Spec == HookInit /\ [][Next]_vars

----------------------------------------------------------------------------
\* A captured delivery has each row derived from it exactly once, after any
\* number of retries, compactions and other deliveries; only a failure whose
\* text holds a secret is derived again by each retry.
DerivedRowsOnce ==
  \A d \in Deliveries : Repeated(d) =>
    \A k \in DerivedKinds :
      LET rows == derived[k][receipts[Receipt(d)]]
      IN IF k = "failure" /\ k \in Wanted(d) /\ d.secret THEN rows >= 1
         ELSE rows = IF k \in Wanted(d) \cup {"consolidated"} THEN 1 ELSE 0

\* The answer to a retry repeats the checkpoint of the delivery it retries,
\* unless the session has been bound elsewhere and the retry is refused.
RetryKeepsCheckpoint ==
  [][\A d \in Deliveries :
       answer[d].checkpoint => answer'[d].checkpoint \/ answer'[d].refused]_vars

Names == {Receipt(d) : d \in Deliveries}
Named(r) == CHOOSE d \in Deliveries : Receipt(d) = r
TokensOf(d) == IF d.kind \in Counted THEN d.tokens ELSE 0

\* What the deliveries promise: DeliveryPromise, with the receipts as what is
\* captured, the counters as the context and the checkpoints as warnings.  A
\* delivery stores its native events in the log of its own session and adds its
\* tokens to the context of that session, once, whatever is derived from it or
\* from others; and no session is warned below the snapshot threshold of its
\* limits.
Promise == INSTANCE DeliveryPromise WITH
  Owner <- [r \in Names |-> Named(r).session],
  Events <- [r \in Names |-> SizeOf(Named(r).kind)],
  Tokens <- [r \in Names |-> TokensOf(Named(r))],
  WarnAt <- [s \in Sessions |-> SnapshotAt(Limits[s])],
  captured <- DOMAIN receipts,
  stored <- [s \in Sessions |->
     Cardinality({n \in DOMAIN log : log[n].session = s /\ log[n].origin # "derived"})],
  context <- [s \in Sessions |-> Total(counters, s)],
  warned <- {s \in Sessions : \E i \in DOMAIN actions :
               actions[i].receipt = <<"context-checkpoint", s, Limits[s].id>>}
PromiseSpec == Promise!Spec
=============================================================================
