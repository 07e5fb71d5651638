# Joiny Mnemonic: TLA+ models, checks and proofs

This directory models the parts of Joiny Mnemonic (`src/src/joiny_mnemonic`) whose
correctness depends on the order of things: transactions shared by threads, a
worker under an expiring lease, consume-once settlement, an external witness,
branch-isolated snapshots, repeated hook deliveries, ledgers that only trusted events
settle, databases that several processes open at once, reads as of a time, and what
hosts are given: their packets and their configuration. Modules are checked on small
instances with TLC; fifteen are proved about, for every value of their constants, with
TLAPS. `PROJECT.json` is the index: which definition stands for which source lines,
which run checks which property, which mutation of the code each property notices,
and where the code and its documents disagree.

    tlc -workers 2 -config Extraction.cfg MCExtraction     # one run
    tlapm ExtractionWorker_proofs.tla                      # one proof module

## 1. The system

Joiny Mnemonic keeps the memory of coding agents in one SQLite file per project. Its
documents distinguish three classes of data (`docs/architecture.md`): canonical events
(append-only, hash-chained), an interpretation ledger (what extractors proposed,
append-only), and derived views (rebuildable). Everything is written through one
store object behind a re-entrant transaction boundary; the HTTP server's threads and
the extraction thread share that object, while hooks and the command line are
processes of their own on the same file.

| Component | State it keeps | Operations | Talks to | What is hard | What makes it correct |
|---|---|---|---|---|---|
| Transaction boundary (`transactions.py`) | depth, failure flag, callback list, all of the store | enter, leave, fail, `after_commit` | every writer; projections as callbacks | threads sharing the depth; swallowed failures; callbacks against rollback | a failed part undoes the whole; callbacks run after the commit, and run |
| Extraction worker (`extraction.py`, `storage.py`) | wakeup row (generation, owner, lease), runs, starts, attempts, candidates, links, auto memories | signal, claim, scan, attempt, commit, fail, release | hooks notify it; API threads drain beside it | lease expiry, late commits, crashes, lost signals, retries | each message interpreted once, nothing published twice, nothing forgotten |
| Task-closure settlement (`reconciler.py`, `settlement.py`, `consolidation.py`) | `open_tasks` block, task memories, settlement candidates | mark, detect, apply, undo, contest, sweep | runs in the hook delivery; requests from CLI and API | repeated evidence, forks, sweep across branches, partial command runs | evidence is consumed once; no task is lost |
| Witness (`witness.py`, `service.py`) | one small file outside the database; findings in the log | check and update, record finding | resume inside a delivery, status commands | stale reads, concurrent replacement, uncommitted heads, restored backups | every loss is noticed, every alarm has a cause |
| Branch store and snapshots (`storage.py`, `snapshots.py`) | events, branches, memories, block versions, snapshots | append, fork, derive, supersede, set block, snapshot, restore, prune | tasks, governor, prompt | fork points, stale reads before a write, replay against live state | branches are isolated; restoring equals rebuilding |
| Integrity and migrations (`storage.py`) | schema version, migration ledger, backups, verified data version | open, back up, migrate, verify, guard a read | every read; other processes | concurrent openers, crashes between steps, damage during a verification | a copy before a change, a complete ledger, no trust in damaged data |
| Candidate lifecycle (`storage.py`, `candidate_confirmation.py`) | candidate transitions, links to memories | commit, request, settle, confirm by a marker | extraction, consolidation | who may settle; markers that repeat a candidate | only trusted events settle; no marker is lost |
| Policy and findings (`storage.py`) | policy versions, findings | bootstrap, activate, record, acknowledge | witness, settlement | repeated bootstrap, delegation | findings are permanent, settled by people |
| Projection failures (`projection_failures.py`) | failure and recovery events | record, retry, recover | callbacks of the boundary | episodes, branches | no failure hidden, retries bounded |
| Hook ingestion (`hooks.py`, `adapters.py`) | ingest receipts, session bindings | deliver, normalise, resume | all of the above in one transaction | repeated deliveries, two sessions, stages in order | a delivery has its effect once or not at all |
| Tasks (`tasks.py`, `task_storage.py`) | task versions, bindings | start, change status, reopen, bind | branches, snapshots | evidence used again, open obligations | each change has new, sufficient evidence |
| Governor (`governor.py`, `context_limits.py`, `usage.py`) | counters, governor actions | decide, apply, warn | snapshots, consolidation | intervals, receipts, lost answers | not more often than the policy, warned once |
| Finalization (`finalization*.py`) | finalized memories, quarantine | observe, finalise | hooks | authority, repeats | once per message |
| Temporal validity (`temporal.py`, `retrieval.py`) | none of its own | normalise, compare, read as of a time | search | open bounds, precision, retroactive corrections | certainty is exact, replays do not change |
| Prompt assembly (`prompt.py`, `transcript.py`, `context.py`) | none | pair, cut, fold, pack | resume | rounding, overlapping calls | within budget, nothing misrepresented |
| Installer (`installer.py`, `hooks.py`) | hook files, registrations, configuration | set up, remove, reconcile | hosts' own files and tools | failures half way, others' content, shared registrations | nothing of others is lost, cleanup is complete |
| Precheck, reducers, backends, plugins, telemetry, evaluation, API, MCP, CLI | none that the others decide by | match, compress, infer, parse, print, measure | service | see their callers | - |

A prompt or tool report arrives as a hook delivery: one transaction that binds the
session, appends the event under a receipt, derives what follows from it, counts its
context, consolidates markers into blocks and memories, reconciles tasks, applies the
governor and may resume a session, which checks the witness and restores the newest
snapshot into a packet. After its commit, projections run as callbacks, and a message
wakes the extraction worker, which later writes interpretations in transactions of its
own.

## 2. Modules

| Module | Models | Checked by | Proved |
|---|---|---|---|
| `ExtractionWorker` | the extraction worker and its ledger | `MCExtraction` | `ExtractionWorker_proofs` |
| `ExtractionPromise` | abstract: what automatic extraction promises | `PromiseSpec` of `ExtractionWorker` | refinement |
| `Transactions` | the transaction boundary and projection callbacks | `MCBoundary` | `Boundary_proofs` |
| `Witness` | the witness of the chain | `MCBoundary` | `Boundary_proofs` |
| `Settlement` | task closures | `MCSettlement` | `Settlement_proofs` |
| `BranchStore` | branches, derived state, snapshots | `MCBranchStore` | `BranchStore_proofs` |
| `BranchPromise` | abstract: branches as private copies | `PromiseSpec` of `BranchStore` | refinement |
| `StoreOpening` | opening, migrating and verifying one database | `MCLedgers` | `Ledgers_proofs` |
| `Workstreams` | tasks, their versions and evidence | `MCLedgers`, `MCHookDelivery` | `Ledgers_proofs` |
| `TrustLedgers` | candidates, findings, policy and who may settle them | `MCLedgers` | `Ledgers_proofs` |
| `ContextLimits` | accepted limits and the four thresholds (pure) | `MCHookDelivery` | `HookDelivery_proofs` |
| `HookDelivery` | a delivery with everything it writes; EXTENDS `Workstreams` and `ContextLimits` | `MCHookDelivery` | `HookDelivery_proofs` |
| `DeliveryPromise` | abstract: what deliveries promise | `PromiseSpec` of `HookDelivery` | refinement |
| `Temporal` | envelopes, three-valued order, normalisation (pure) | `MCAsOf` | `AsOfReads_proofs` |
| `AsOfReads` | searches as of a time over versions and branches; EXTENDS `Temporal` | `MCAsOf` | `AsOfReads_proofs` |
| `PromptPacket` | interaction groups, folding, the budget of a packet | `MCHost` | `Host_proofs` |
| `HookFile` | the hook file of one host | `MCHost` | `Host_proofs` |
| `Setup` | setup and removal of projects | `MCHost` | `Host_proofs` |

`MCBoundary`, `MCLedgers` and `MCHost` check parts that share no state. Each part is
explored from the initial state of the others, so that the graph is the sum of
the parts and not their product, and each keeps its own next-state relation.

The atomic step is what the code makes atomic: one SQLite transaction
(`BEGIN IMMEDIATE`, one writer), one read outside of them, one call of the file system.
Where a function reads, leaves the transaction and writes later, the model has two
actions and a variable that keeps what was read. A definition named `X_Y` is a mutation
`Y` of the definition `X` after it: no specification uses it, and putting it in the
place of `X` breaks the property that `PROJECT.json` names with it.

**ExtractionWorker.** `generation`, `owner`, `leaseUntil` are the row of
`extraction_wakeups`; `runs`, `starts`, `attempts`, `candidates`, `memories`, `links`
are the tables of those names. `pc` follows `run_worker`: `spawned`, `claiming` (the
clock is read before the transaction of the claim), `scan`, `work`, `ensured`,
`infer` (the model runs outside every transaction). A lost lease does not stop a
worker: it goes on and commits, and only `complete_extraction_worker_cycle` tells it
(`Leave`). Foreground callers (`reprocess`, `POST /v1/extraction/process`) take no lease.
The model's answer is any set of proposals, each accepted automatically or not. A
proposal is one key of `extraction_candidates`, evidence span included: the same text
quoted from another span is a candidate of its own, with its own link, to the one memory
of its text (`Fresh`, `ExistingMemory`).

**Transactions.** `lock` is the re-entrant lock, `depth`, `failed`, `callbacks` are the
store's fields; `stack[t]` the contexts of a thread. A context of a record is
`derive_memory`, which registers its projection after its own context
closed, so that `CheckDepth` and `AppendCallback` read and write the store's fields
without the lock, as `after_commit` does.

**Settlement.** `lines[b]`, `tasks[b]` are what branch `b` sees of the block and the task
memories; `ledger` holds the `task_closure` candidates with their status. `Marker`
and `Work` are whole deliveries: capture, consolidation, hygiene sweep, detection,
application; or, when the sweep raises, nothing but the mark in `refused`. A marker whose line
the byte limit refuses, or that is a question, leaves a memory without a line
(`UnlistedMarker`), and so does one that comes through the public API (`Note`).
`ReconcileCommand` is the command line, whose steps are transactions of their own. The block
and the memories are also changed past settlement: `WriteTasks` is `set_active_block` or a
block change that an operator applies or reverts, `Supersede` is `derive_memory`. None of them looks at
closures, so `byHand`, a history variable that the code does not have, keeps the
entries of a branch that were changed so, until they are `Regular` again.

**Witness.** `chain` is committed, `tail` belongs to the open transaction of `writer`.
`ReadHead`, `ReadShard`, `Compare`, `WriteShard` are the steps of
`check_and_update`; `Restore` puts a backup in place.

**BranchStore.** `log` numbers events; an entry carries the memory or block version derived with it.
`limit[b][a]` is the cut-off of ancestor `a` in the lineage of `b`. `Live` and `Block` are
`list_memories` and `get_active_blocks`; `RestoredMemories` and `RestoredBlock` are the tail replay
of a snapshot. `ReadMemories`, `ReadBlocks`, `StoreSnapshot` are the three steps of
`SnapshotManager.create`. `WriteBlock` supersedes the version that `ReadBlock` read before, and is
refused when that has a successor (`Numbered`). `History(b)` is what `b` shows of each length of the
log: the entries, the live memories and the newest block version.

**StoreOpening.** `db` is the schema version with the parts of the schema that exist,
`ledger` the rows of `schema_migrations`, `backups` the verified copies. `at[p]` follows
the constructor: `connected`, `copying`, `copied`, `base`, `unseal`, `hash`, `seal`,
`migrate`, and then the guard (`guard`, `events`, `compare`), which `_guard_read` enters
again. `moved[p]` is the difference of `PRAGMA data_version` before and after;
`Damage` is somebody who changes events or artifacts behind the store, and may put
them right again. `FallBack` is the exclusive rollback-journal mode.

**Workstreams.** A task is named by its branch. `versions[t]` are the rows of its
versions with the sources each cites; `Move` is `set_status` with the rows its caller
wrote before it (`SetStatus` of API and MCP, `SetStatusAsOperator` of the command line,
`SetStatusUnproved`). `open` and `closed` are the closure candidates a completion has
to override; they belong to `Settlement` and open and close at will here.

**TrustLedgers.** The origin of an event (`user`, `operator`, `agent`, `untrusted`,
`bootstrap`) decides what it may settle: `Settles` is `validate_transition` with the
three rules of `transition_rules.py`. `Extract` is one candidate of
`commit_extraction_success`, `MarkNew` and `MarkMatch` the two ways
`consolidate_event` takes with a marker.

**HookDelivery.** `Deliver(d)` is `process_hook` from the binding of the session to the
answer, in its order: task (`Resolved`), the compaction that the host announces (`Prepared`),
capture (`Captured`), derived rows (`DerivedAfter`), counter (`CountersAfter`), checkpoint
(`ActionsWarned`), consolidation (`ToConsolidate`), governor (`AppliedActions`, each of its four
actions when it `Applies`). `derived[k][n]` counts the rows of kind `k` of event `n`: each is looked
up before it is written (`RowsOf`), a failure by its text as it was before redaction. What is derived
is an event of the log too, of origin `derived`, in the session that its sources have in common: the
memory of a finalization or of a failure (`Derived`), the summary of a compaction and its index
(`SummaryRows`, for what `Covered` finds old enough, kept in `summaries`), and what
consolidation and reconciliation add, in the branch of the delivery or for older markers in others
(`Beside`, `Asides`). `Refuse` is a delivery whose session is bound elsewhere.
`EvaluateByHand` is the governor applied through API, MCP or command line.

**Temporal, AsOfReads.** An envelope is the pair of bounds and the singleton flag of
`temporal.py`, and `Definitely` and `Possibly` are the two tests of `lt3`. In `AsOfReads`
the position of an entry in `log` is its `seq`, and a version cites the version it
supersedes. `Matching` is what the full text or `list_memories` looks through, `Found` what it proposes:
the full text hands over `Candidates` matches of all versions at most, later ones included,
before anything is asked about time. `Answers` is what `_apply_temporal_controls` makes of
a proposal, with `AncestorAsOf` down to a version known then, and `Search` what the final `Limit`
may leave of it; which matches are the best is left open (`Cuts`).

**PromptPacket.** `Groups` is `interaction_groups`, `Folded` the folding of
`_render_transcript`. A `Shape` is all that `assemble` looks at when it cuts: the bytes of
the blocks, of each longer transcript and of each longer list of memories. `Reserve`,
`ChosenGroups`, `ChosenEntries` and `Restated` are its cuts, `PacketBytes` what is printed.

**HookFile, Setup.** `pc` of `HookFile` follows `_write_json`: keep a backup, replace or
overwrite in place, read again, restore. `Setup` has the four steps of `run_setup`
and `run_uninstall` (hooks, registrations, configuration, data), each of which may be the last.
Only the hosts in `Inspected` are asked whose registration they hold, and the answer is searched for
the path of the project: it is also found inside the longer path of another one (`EndsIn`).

## 3. Runs

| Run | Question | Bounds and why they are enough |
|---|---|---|
| `extraction` | Is the ledger sound, and does it keep the abstract promise, under overlap, retries and a fault? | 2 leased workers and 1 foreground caller (takeover needs two, a lease-free third collides with both), 2 messages (publishing by one, supporting by the other), 2 retries, a lease of 1 tick and a clock of 1 (one expiry), 1 fault |
| `extraction_liveness` | Is every message attempted, and the lineage kept by inference that is repeated from other spans? | the same without foreground and faults, one text quoted from 2 spans (a repetition may find the same key or another); the expired lease makes two workers infer one message, which is how inference is repeated |
| `boundary` | Do nested contexts and callbacks keep their promises between threads? Are alarms caused and losses kept? | 3 threads, 3 records, depth 3 (an inner failure below a swallowing middle), 1 raising callback; 2 processes, 4 entries, 1 restored backup: a witnessed head is lost and the new history overtakes it |
| `settlement` | Are closures consumed once and tasks never lost? | main and a fork, a strong and a medium task, 5 deliveries or requests: mark, complete, revert, mark again, complete again. After what leaves an entry irregular (a change by hand, a memory without a line) only 3: the change, a closure, a sweep or an undo. Without such changes 6 were checked once (17 million states) |
| `branch_store` | Is a branch a private copy of its parent, and does a restore agree with the live state? | main and 2 forks (a grandchild or siblings), 3 entries (message, derivation and its supersession, or a block beside it), 1 caller that reads first, 1 snapshot: no property relates two of them. Checked once by hand: 2 snapshots (1.8 million states), 4 entries (4.0 million), 2 callers (3.6 million) |
| `ledgers` | Is evidence used once, who settles, and is a database never changed without a copy or trusted while damaged? | 2 tasks (a task forked from a task), 5 events, 3 versions of each (a piece of evidence, another one, the first again); main and a fork, 4 events, 2 candidates of 1 content (candidates of different contents never meet), agents and untrusted callers beside the user, whose events come with the markers; 2 openers and 2 openings (a race, or an opening after one that died; the theorems of `Ledgers_proofs` hold for any number), databases that are new, older than the migration ledger, half way, and newer |
| `delivery` | Does a delivery have its effect once, and does its retry get the same answer? | 8 native events of 2 sessions (prompt with markers, tool, a failure with a secret and one without information, compaction, finalization, a warned tool call, a task), sent 3 times in any order with repeats (two deliveries and a retry of either); 9 events in the log, of which consolidation and reconciliation add at most 1 in each delivery; summaries of 3 events (600 tokens in the code) that leave 1 group alone (8 in the code), so that 2 deliveries are enough for one; limits that all four thresholds lie in reach of 2 deliveries |
| `asof` | Are reads as of a time exact and repeatable, and is the three-valued logic right? | 2 topics, main and a fork at any earlier point, 4 entries (message, version, its successor and one below the cut-off), 2 clock values in any order, searches by words, file or everything, of which the full text hands over 2 and 2 are answered, fewer than the 3 versions that may match; envelopes over 4 instants with all open sides, compared with their moments, two to a tick |
| `host` | Do packets fit and represent the conversation? Do installers lose nothing? | 4 events out of 12 kinds (two overlapping calls with outputs, missing ids, repeated bodies, memories), 5 budgets on both sides of every cut, blocks of 0 and 41 bytes; 5 configurations of 2 events with foreign, own, old and malformed handlers, failures and crashes at every step; 2 projects, the path of one ending in that of the other; 3 hosts, of which two keep a registration per user and one of these is never asked whose it is; setups of both surfaces |

Deadlock is checked in `boundary`, `settlement` and `branch_store`. The other systems
stop in their models: a worker when the backlog is drained, logs and deliveries at
their bounds, an installer that refuses a torn file until somebody repairs it.

*Fairness.* Only `extraction_liveness` needs it: `WF(WorkerStep(w))`, because a started
process or thread runs until it ends, and weak fairness of `Notify`, because a delivery that
committed goes on to `notify()`. Nothing is assumed of faults, clock, new messages or
foreground callers. The property speaks of fault-free behaviours: after a crash between
commit and signal the code itself waits for the next message (or a foreground caller), which is
listed as a hazard. No other component promises progress that the code's scheduling would
justify: deliveries, retries and installers wait for a host or a person.

*Refinement.* Three modules implement an abstract one; all three are checked and proved.
- `ExtractionWorker` implements `ExtractionPromise`: one settled interpretation of a message.
- `HookDelivery` implements `DeliveryPromise`: whatever is repeated, compacted or applied by hand,
  the log and the counter of a session grow by exactly what is delivered, once, and the session
  is warned once, not below its threshold.
- `BranchStore` implements `BranchPromise`. The code keeps one log for all branches and decides by
  lineage and cut-offs what a branch shows; the promise keeps a history for each branch, which a fork
  copies up to its fork point and a write extends for its own branch only. `size` maps to the length
  of the log and `history` to `History`; callers, snapshots and pruning are stutters.

Three runs are expected to end in a violation: each states what a document says and
shows the behaviour of the code that differs.

| Run | The document says | The code |
|---|---|---|
| `transactions_foreign` | a failed projection is durably visible and can be retried (`STAGE2_REPORT.md:17`) | a callback put into another thread's boundary can vanish with it |
| `settlement_sweep` | the sweep reverts closures whose file vanished (`docs/architecture.md:336`) | one of another branch makes every delivery fail while the file is gone |
| `asof_replay` | `known_at=K` replays knowledge as of K (`task4.md:219`) | a search limited to a file looks among the versions that are live now, so versions of that file that were live at K are missing |

The passing runs state the strongest nearby property that does hold:
`AccountedUnlessForeign`, `ConsumedOnce`, `ReplayExact` (a search that is not limited).

*Known differences without a run.* These were met while modelling; the code is modelled as
it is, and the properties are stated so that they hold of it.

- Conflicting candidates "enter quarantine" (`task.md:262`); `storage.py:3899` finds conflicts
  inside one response only. The rejected or superseded candidates of a memory do not take
  it out of retrieval.
- A marker that adds a line again contests its closure (`docs/requirements-traceability.md:167`); one
  put back through `set_active_block` (`api.py:198`) or a block change (`settlement.py:244`) lies beside
  its applied closure, and new evidence may apply a second closure beside the first. A line written
  so need not have an open task memory, and a marker without a line (byte limit, question, public API) has a memory
  that nothing closes while it has none.
- A reverted candidate "never re-applies from the same evidence" (`docs/security.md:155`); in
  a fork the same evidence is a new candidate (`reconciler.py:274`).
- The witness is updated "after successful canonical commits" (`task.md:338`); a resume in a
  delivery witnesses an uncommitted head (`service.py:268`), and its rollback raises an alarm.
- Snapshot blobs are "rebuildable" (`docs/architecture.md:278`); what is written between the
  reads of a snapshot and its cursor is missing from restores (`snapshots.py:304`), as are
  automatic memories of the tail (`snapshots.py:352`). `RestoreAgrees` excepts just these.
- A marker that repeats an automatic candidate of another branch makes its delivery fail at
  every retry; one that repeats a candidate whose memory was superseded confirms the superseded
  memory. An untrusted request to supersede a confirmed candidate lowers the authority
  of its memory to `auto` at once (`storage.py:4448`).
- `validate_limits` accepts limits for which `BudgetGovernor.thresholds` raises (window
  100000, ratios .3 .5 .7 .9, a handoff cap of 39000 and a reserve of 60000). `HookDelivery`
  assumes limits that can be computed, `Computable`.
- A retry gets the checkpoint again, but not the handoff text of a hard limit
  (`governor.py:182`; `docs/context-limits.md:64`); a precheck warning takes the place of
  that text. A context that shrinks and grows to the same bucket finds the receipt of an action used.
- A failure whose text holds a secret is derived again by every retry: `hooks.py:281` compares what was
  said with what was stored, which is redacted. One without information derives nothing.
- What was known at a time may drop out of the answers of a limited search later: the full text looks
  at `max(4 * limit, 20)` matches of all versions (`retrieval.py:424`), those derived since included,
  and the answers are cut to the limit. Times at or after a clock that was set back do not repeat either.
- `normalize_interval` accepts some intervals that are empty for sure; of two successors only
  the last one closes a version.
- An output whose call is lost takes the place of the answer of another call
  (`transcript.py`); `AnswersStayTogether` is stated of conversations without lost calls.
- Removing hooks leaves handlers of the program's old name (`docs/installation.md:127`), and takes those
  of others that name this program's hook command; a second setup overwrites which hosts the first one
  configured; removing one host forgets the configuration of all. Removing `/app` takes the Codex
  registration of `/home/u/app`, whose path holds that of `/app` (`installer.py:203-210`), and that of
  OpenHands whosever it is, which is not looked at (`installer.py:656`).
- The second of two openers that migrate at once fails on the primary key of the ledger; opening
  again succeeds. Each opening drops and reinstalls the trigger that seals snapshots.

The settlement, witness, snapshot, candidate and limit behaviours were also reproduced with the
program itself.

## 4. Proofs

Assumptions: only the named ones on constants, which the runs evaluate. Most fix names apart
(`ContentsDiffer`: a file that is missing or torn is not a configuration) or bounds to numbers
(`AskedAreInstants`, `SizesOfParts`). Four say more. `NothingIsNoConfig` (`Setup`): the value for
"no configuration" is not the configuration of a host. `ReceiptsIdentify` (`HookDelivery`):
deliveries with the same receipt are the same delivery, for `process_hook` makes the receipt of
what the host sends as the identity of its event. `BodiesHaveText` and `TextsAreNoPointers`
(`PromptPacket`): a body is at least one text, an empty one being the text without bytes, and no
text is taken for a pointer, which the code writes in a form of its own. The theorems hold for any number of workers, threads, messages,
records, branches, tasks, sessions, deliveries, callers, entries, snapshots, processes, projects
and openings, and for sizes and instants without bound.

`ExtractionWorker_proofs`
- `TypeCorrect`: types, with `LocalsFitPc` (a worker has an event exactly while it
  works on one; a foreground caller never holds the lease), the base of all others.
- `AttemptNumbering`: `AttemptRowsNeverCollide` is inductive with the types; only
  `StartAttempt`, the two outcomes and the ends of a worker touch it, and every other
  action is shown quiet once.
- `LeaseExcludes`: `SingleConsumer` is not inductive: the claim that overtakes must know that the lease
  it replaces is the one its owner was given. `LeaseInv` adds that the stored
  `leaseUntil` of a working owner is at least its stamp plus the lease, and that stamps
  lie in the past.
- `WakeupsSurvive`: `NoWakeupLost` is strengthened by `WakeInv`: while nothing fails the
  generation counts the signals, an owner that has seen the latest generation has every
  unattempted message in its list, and as long as there is such a message somebody owns
  the lease or is about to claim it.
- `LineageIsComplete`: the run counts links, the proof does not: `LineageInv` says that keys are
  unique, that a link is grounded in rows that exist and succeeded, that an accepted candidate
  has a link and a memory the link of its own event; counting follows.
- `ViewsAgree`: `BacklogInv`; runs are opened for committed events only, and a failure is called
  retryable only below the limit, so the latest row tells both readers the same.
- `KeepsPromise`: the refinement to `ExtractionPromise`; a success maps to `Commit`,
  every other action to a stutter, with `FailuresAreNotSuccesses` for the failed outcomes.

`Boundary_proofs` builds three inductive invariants of `Transactions` on each other.
- `Base` (types, `DepthIsTheOwners`, what a thread holds fits its place) gives `DepthAndLock`.
- `Sound` adds that pending records belong to the open boundary, whose failure flag is
  set once a context failed (`BoundaryOwnsPending`), and that queued callbacks are of
  written records and taken ones of committed records (`CallbacksKnown`);
  it gives `NothingDerivedIsUndone` and `FailureSpoilsBoundary`.
- `Account` adds that every pending record is scheduled by the thread of its boundary
  or still on its stack (`PendingScheduled`); it gives `OnlyForeignIsLost`.

Of `Witness` it proves `AlarmsAreCaused` and `LossesStayVisible`. A hash is given out once, so a head that a
chain holds names the whole prefix below it: that makes it enough to say (`LastOK`) that the file's head
is as far as any it ever held and that a chain which holds it holds them too. `CheckOK` ties a running
check to its own view of the chain, `AlarmsOK` an alarm that is about to be recorded to its cause.

`Settlement_proofs`: a transaction changes what one branch sees and, in the ledger they share,
candidates of that branch only (`Continues`). So the invariant is one about the view of a branch (`Sound`),
each operation on a view keeps it, and a commit leaves the views of the others alone. The four
properties are not inductive together: to revert a closure, the memory it completed, or another
open one, must still be there, which is `Kept`. All but the first half of `ConsumedOnce` speak of the entries that
`byHand` does not name. What is changed by hand is left out of `Sound` (`Narrowed`), and is taken in
again once settlement has nothing to say about it (`SoundAgain`, `Regular`). It gives `DetectionsAreConsumedOnce`,
`ClosuresKeepLinesOut`, `EntriesAreAccounted` and `LinesHaveOpenTasks`, through sweeps, undo and contest
requests, markers with a line and without, changes by hand, forks and the separate steps of `ReconcileCommand`.

`BranchStore_proofs` shows that every step either adds an entry of a created branch to the
log or leaves the log and what created branches show alone (`Grows`, `Stays`); what was
true of an entry, a caller or a snapshot stays true under both. Its invariant `Inv` is
- `TypeCorrect`, for which `MaxExists` shows that the tip of a branch exists;
- `Lineage`: no cut-off passes the end of the log, and the way to an ancestor through another one
  shows no more of it than the lineage itself (`Inherits`). Without it a grandchild
  could show a claim and not its source: the invariants are not inductive alone;
- `Provenance`, `OpSound`, `SnapshotsSound`: what an entry cites, a caller has read or a
  snapshot holds was shown by its own branch, up to the number of the entry or the cursor.

It gives `ClaimsKeepTheirSources` (`ProvenanceVisible`), `SnapshotsDoNotLeak`
(`SnapshotsHoldVisible`) and, as an action property, `WritesDoNotLeak` (`NothingLeaks`).
`BranchesArePrivateCopies` is the refinement to `BranchPromise`. A new entry of the own branch changes its
view in one of the ways the promise allows (`ViewsWithEntry`, `OwnEntryIsAdded`) and no other view
(`OtherEntryIsHidden`), what was shown of a shorter log stays (`HistoryIsKept`), and the history of a
fork is that of its parent, standing still from the fork point on (`CreatingIsAFork`).
`RestoringIsExact` (`RestoreAgrees`) needs a second invariant, `Exact`: the ancestors of a branch form a chain
(`Chained`), a caller holds what its branch showed at an entry it remembers (`ReadsExact`),
and a snapshot what its branch showed at its cursor (`SnapshotsExact`), up to what was written
while it was taken. What the tail adds to that is then what the log added.

`Ledgers_proofs`, opening: the three invariants are not inductive. Its `Opened` adds
- `Frozen`: a database that needs no migration is not changed at all;
- `Ledgered`: the versions of the ledger are just those up to the database's, one row each (`OneVersionUp`
  shows that a migration which commits adds just the next version, whatever its process read
  before, and `LedgerGrows` that the history stays complete);
- `Reading`, `Copying`: what a process has read is not newer than the database, and its copy is not newer than
  that, or others have migrated and its own migration will be refused;
- `Kept`: whoever may change an existing schema finds the copy in place;
- `Reached`: how far a process has come, the schema has come too.

It gives `CopyComesFirst` and `LedgerIsTheHistory`. `Guarding` (a process that has found its data
valid so far and unmoved has undamaged data) gives `TrustIsEarned`. Of tasks it proves
`EvidenceIsSpentOnce`: the sources of a version include those of every earlier one (`SourcesGrow`),
so that the newest version, which `Unused` reads, knows all that was ever used. Of trust it proves
`OnlyTrustSettles` (each confirmed candidate of a memory was confirmed on trusted word, and what was
extracted is confirmed by one of them only) and `MarkersAreKept`: nothing in the ledgers is
rewritten (`LedgersGrow`), the ends of a link have one content (`LinksAgree`), and what counts as
settled rests on an event that its branch goes on showing (`EntriesTrusted`).

`HookDelivery_proofs`: the parts of `DeliveryInv`, which is inductive, are
- `ReceiptTypes`: a receipt names one event of the log for ever, and no two name the same;
- `NothingElse`: an event that no receipt names has nothing of its own derived from it. With it
  `DerivedRowsOnce` is inductive: a new capture starts from nothing, a retry finds what is there
  (except a failure that holds a secret, of which there may be more), and what others consolidate is
  consolidated once (`RowsAreDerivedOnce`). What a delivery appends for its derived rows, before its capture
  and after it, are events of origin `derived` that no receipt names (`AsideRows`, `LogDelivered`);
- `CounterTypes`, `CountersGrow`: one counter row for a receipt, and one for every captured delivery
  that counts and for no other; no row of a session is above its newest;
- `AnswersAreOwned`: who was told of the checkpoint (`Told`) has crossed the threshold in its own
  counter row and owns the one checkpoint row of its session; no row of the governor can pass for it
  (`GovernorAdds`). It gives `RetriesAreToldAgain`, an action property.

`DeliveriesKeepThePromise` is the refinement to `DeliveryPromise`: a delivery that is new is a
`Capture`, a retry a `Warn` or a stutter, and what is refused, started by hand or applied by hand a
stutter. `StoredGrows` counts the native events of a session, among which what is derived beside
them adds none, `TotalAfter` reads its newest counter row; that a session is warned with a full
context only needs `CountersGrow`, for the code compares the row of the delivery.

Of the governor it proves `ActionsAreRecordedOnce` (what one evaluation applies has receipts that differ from
each other, `AppliedOnce`, and from all before) and `ActionsKeepTheInterval`: of the rows of one action, branch
and policy, each that has an event comes at least the interval after the one before it, if that has one too. A row applied
by hand has none (`source` 0), and the next delivery is not held back by it: that is what
`last_governor_action_seq` reads, and the theorem says no more. `ThresholdsIncrease` and
`AcceptedUnlessCrowded` are about limits of any size: accepted and computable ones give thresholds in
order within the window less the reserve, and accepted ones fail to be computable only when
compaction leaves no room below the hard limit, as in the difference listed in section 3.

`AsOfReads_proofs` first connects the two tests of `lt3` with the moments of envelopes:
`DefinitelyIsAll` and `NotPossiblyIsNone` in the one direction, and in the other witnesses for an
order that is possible, or not certain, by the attained and the open bounds (`Early`, `Late`,
`First`, `Last`). It gives `OrderIsExact` for all proper envelopes, `OverlapIsExact` for all
proper intervals, where the run compares those over four instants, and `SuccessorEndsIt`: at an instant
where a successor is valid for sure, an interval that was open until it is not even possibly valid.
`BoundsAreKept` takes the forms of an expression one by one; with it and `OrderIsExact`,
`AcceptedJustIfPossible` says exactly which intervals `normalize_interval` accepts, in terms of moments.
An interval that starts within the stretch of a day and ends at its first instant is one of them, although it is
empty: only equal instants are refused for that. `WindowsAreMeant`, of the cues that count from now, rests
on midnight being the last multiple of a day (`MidnightIs`), and needs that a named month is one of the year.
A day or a month named in full may lie in the future: its window has just its instants (`DatesAreExact`).

Its second half is about `_ancestor_as_of`, a recursion down chains of versions. The inductive
invariant `IInv` says that a version is recorded after the one it supersedes and after the
message it cites, in the log and in time (`VersionsFollowTheirSources`). So the recursion goes down:
what it defines exists and is found by strong induction, which is stated of a set of numbers
(`Upwards`) because the induction theorems of the library cannot be instantiated here. `ReplaysAreExact`: from
the newest version of a chain there is a way down to each version that was live at the time asked
for (`SomeWayDown`), and the recursion ends at no other. `OneTruthIsTold` puts `SuccessorEndsIt`
together with it. `ReadsAreRepeatable`, an action property, says that what is appended later than the
time asked for changes nothing on the way: no version is returned with another certainty; while
the limits leave out nothing (`Complete`) no answer is lost, and one is gained only when a version
that matches was derived since, through which an older one is reached.

`Host_proofs` follows the cuts of `assemble`: rounding a sum up is at most the sum of what is rounded
up (`RoundingUp`), the longest part that fits does fit (`LongestFits`), and so does what is printed after each
cut (`CutFits`, `CutsFit`). `WithinBudget` and `RetrievalHasRoom` hold of blocks, transcripts and memories of any
sizes; `PacketsAreSound` adds that in every state `Shape` gives such sizes, which needs the
bytes of folded bodies to be numbers at all.

`TranscriptsAreSound` is about the recursions of `interaction_groups` and `_render_transcript`. Each has
the form that its value at a number depends on smaller numbers only (`Causal`), so it exists
(`FixedPointExists`) and is followed number by number (`OneByOne`, `Upwards`). The invariant of the
states is only that the log is one of events (`Logged`); the argument is this.
- *Pairing.* An output is paired with a call before it that no earlier output has (`PairsAreApart`), so
  it is in the group of that call and in no other (`OutputsHaveCalls`), and pairing is an injection from the
  outputs of any choice of groups into its calls (`CutsBalance`). Where every output answers a call of
  its id, it is paired with that call (`AnswersArePaired`), so the two are in the same group.
- *Folding.* What replacing leaves of text was text before and does not overlap what was replaced
  (`TextIsKept`): so the replaced text is gone, and no other text occurs that did not (`ReplacedIsGone`). Putting
  bodies back for pointers undoes it (`UnfoldReplaced`). Together (`FoldSound`): a pointer to an
  event was put where its body occurred when no earlier one could be folded any more, so that body itself
  is shown whole, and unfolding gives back the body (`PointersResolve`).

`RemovalIsSafe` rests on `Gone`: what a running removal has ticked off is gone, or the removal knows
that it is incomplete. Of other projects it says what the code can tell: a removal takes nothing of
theirs but a shared registration, and of an inspected host only that of a project whose path holds
its own. The hook file has the inductive invariant `FileInv`: `KeptAside` (from the moment the file
may be touched what was found in it is in the backup, and until then it is in the file), the types
of what each place of an operation holds, and `OthersKept` (what belongs to others is in the file
unless it is torn, in the backup then, and in every plan in its order). It gives `FileStaysSafe` and
`ReconcilesExactly`, from what `Kept` leaves of a sequence of groups: it commutes with `Append`
(`KeptOfAppend`), taking away twice is taking away both (`KeptTwice`), and so merging and removing
leave the groups of others alone (`MergedFits`, `RemovedFits`).

Only model-checked: `LogicExact`, which enumerates small envelopes, expressions and times, so that a mutant of
the operators is found at once, and whose parts `OrderIsExact`, `OverlapIsExact`, `BoundsAreKept`,
`AcceptedJustIfPossible`, `WindowsAreMeant` and `DatesAreExact` are the general statements; liveness
under fairness (`EveryEventAttempted`) and anything about `ENABLED`, which are out of the prover's
reach. No module declares a RECURSIVE operator, so that each can be proved about.

## 5. Not modelled, and the plan

Left out for good: text (redaction, ranking, wording, reducers, prechecks), host formats,
model downloads, telemetry, benchmarks, argument parsing of API, MCP and command line. SQLite is
taken to be what its documents say: transactions are atomic and serial, and committed data
survives. Moving a file over another is atomic.

Abstractions that matter: a chained hash is a number given out once; one protected block stands for
each; a task is completed by one file or one command; every closure is inside the hygiene window;
blobs held by exposures or tasks may be pruned; the shard of the witness is replaced in one step;
the full-text index, which two openers may fill twice, is left out of `StoreOpening`; the byte limit
of the blocks is a choice (`UnlistedMarker`), and the bytes of a summary or of a replay tail are
counted in events; what consolidation and reconciliation add to the log of a delivery is any few
rows of the branches they may write; versions of the passing `asof` run cite messages of the user
only; one installer runs at a time; a month of `Temporal` has the same length as any other.

Planned, in this order:
1. `SnapshotRetention`: exposures, task holds, choosing against pruning, the byte limit of blocks.
2. `ProjectionEpisodes`: episodes and recoveries across branches, composed with `Transactions`.
3. Block changes as candidates of `Settlement`, which now only has what they write, and
   `HookDelivery` composed with it and with `TrustLedgers`.
4. The in-process worker loop; concurrent installers; torn shards of the witness.
5. Rank fusion as a pure operator.

Theorems next: those of the modules planned above, and which accepted limits without a reserve can
be computed, not attempted yet.
