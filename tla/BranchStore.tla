---------------------------- MODULE BranchStore ----------------------------
(***************************************************************************)
(* The branch-aware store and its snapshots (storage.py, snapshots.py and  *)
(* resume of service.py): one append-only log shared by all branches,      *)
(* typed memories and protected blocks derived from it, and snapshots of   *)
(* what a branch shows, from which a resume replays the tail of the log.   *)
(*                                                                         *)
(* One action is one SQLite transaction or one read outside of them.  A    *)
(* snapshot and a block update read first and write later; in a hook       *)
(* delivery nothing comes between, from the API and the command line       *)
(* anything may.                                                           *)
(*                                                                         *)
(* Abstracted: an entry of the log is an event together with the memory or *)
(* the block version that its transaction derives from it, and its number  *)
(* is the identity of all of them.  A derivation cites one source.  One    *)
(* block stands for each of the protected blocks.  Events appended by      *)
(* callers are messages.  Memories are those that a resume may use (not    *)
(* drawn from assistant messages alone).  Every snapshot has the full      *)
(* format.  Which blobs prompt exposures and active tasks hold is left     *)
(* open: any may be pruned.                                                *)
(* The field `built' of a snapshot only observes.                          *)
(*                                                                         *)
(* An operator named X_Y is the mutant Y of X: no definition uses it.      *)
(***************************************************************************)
EXTENDS Integers, Sequences

CONSTANTS
    Main,         \* the branch every store has
    Forks,        \* branches that may be created
    Processes,    \* callers that read first and write later
    MaxEntries,   \* bound: entries of the log
    MaxSnapshots  \* bound: snapshots

Branches == {Main} \cup Forks

ASSUME MainAssumption == Main \notin Forks
ASSUME BoundsAssumption == MaxEntries \in Nat /\ MaxSnapshots \in Nat

VARIABLES
    log,        \* the events, and what was derived with them
    branches,   \* the branches created so far
    limit,      \* limit[b][a]: the last entry of its ancestor a that b shows
    snapshots,  \* rows of snapshots, in creation order
    op          \* what a caller has read and not yet written

vars == <<log, branches, limit, snapshots, op>>

-----------------------------------------------------------------------------
(* What a branch shows.                                                    *)

\* _lineage_locked: a branch shows all of its own entries, and those of an
\* ancestor up to the smallest fork point on the way to it
Shows(b, a, n) == a = b \/ n <= limit[b][a]

Visible(b) == {n \in 1..Len(log) : Shows(b, log[n].branch, n)}

Last(S) == {n \in S : \A m \in S : m <= n}

Tip(b) == CHOOSE n \in Last(Visible(b) \cup {0}) : TRUE

Of(kinds, S) == {n \in S : log[n].kind \in kinds}

Superseded(S) == {log[n].supersedes : n \in S}

\* list_memories
Memories(b) == Of({"derived", "auto"}, Visible(b))

Live(b) == Memories(b) \ Superseded(Memories(b))

\* get_active_blocks: the newest version that no visible version supersedes
Block(b) ==
    LET versions == Of({"block"}, Visible(b))
    IN Last(versions \ Superseded(versions))

\* the snapshots that latest_snapshot chooses from
InLineage_NoCutoff(b, s) ==
    snapshots[s].branch = b \/ limit[b][snapshots[s].branch] >= 0

InLineage(b, s) == Shows(b, snapshots[s].branch, snapshots[s].cursor)

Usable(b) == {s \in 1..Len(snapshots) : snapshots[s].kept /\ InLineage(b, s)}

Latest(b) ==
    Last({s \in Usable(b) :
            \A t \in Usable(b) : snapshots[t].cursor <= snapshots[s].cursor})

-----------------------------------------------------------------------------
(* SnapshotManager.restore: the state of the snapshot, with the tail of    *)
(* the target branch replayed over it.                                     *)

ReplayTail(b, s) == {n \in Visible(b) : n > snapshots[s].cursor}

\* _replay knows the operation derive_memory, not auto_derive_memory
Replayed(b, s) == Of({"derived"}, ReplayTail(b, s))

RestoredMemories_NoPop(b, s) == snapshots[s].memories \cup Replayed(b, s)

RestoredMemories(b, s) ==
    (snapshots[s].memories \cup Replayed(b, s)) \ Superseded(Replayed(b, s))

RestoredBlock(b, s) ==
    LET updates == Of({"block"}, ReplayTail(b, s))
    IN IF updates = {} THEN snapshots[s].block ELSE Last(updates)

-----------------------------------------------------------------------------
Idle == [kind |-> "idle"]

NotAncestor == -1

Init ==
    /\ log = << >> /\ branches = {Main}
    /\ limit = [b \in Branches |-> [a \in Branches |-> NotAncestor]]
    /\ snapshots = << >>
    /\ op = [p \in Processes |-> Idle]

Logged(b, kind, source, supersedes) ==
    /\ Len(log) < MaxEntries
    /\ log' = log \o
        <<[branch |-> b, kind |-> kind, source |-> source, supersedes |-> supersedes]>>

AppendEvent(b) ==
    /\ b \in branches
    /\ Logged(b, "message", 0, 0)
    /\ UNCHANGED <<branches, limit, snapshots, op>>

ForkLimit_Next(p, a, n) ==
    IF a = p \/ limit[p][a] > n THEN n + 1 ELSE limit[p][a]

\* the cut-off of an ancestor is the least fork point on the way to it
ForkLimit(p, a, n) ==
    IF a = p \/ limit[p][a] > n THEN n ELSE limit[p][a]

(* create_branch, at the tip of its parent or at an earlier entry.         *)
CreateBranch(b, p) ==
    /\ b \in Forks \ branches /\ p \in branches
    /\ branches' = branches \cup {b}
    /\ \E n \in 0..Tip(p) :
        limit' = [limit EXCEPT ![b] = [a \in Branches |-> ForkLimit(p, a, n)]]
    /\ UNCHANGED <<log, snapshots, op>>

\* _assert_source_events
Citable_Any(b) == 1..Len(log)

Citable(b) == Visible(b)

\* a superseded memory may be superseded again, if the branch shows it
Supersedable(b) == {0} \cup Memories(b)

DeriveMemory(b) ==
    /\ b \in branches
    /\ \E n \in Citable(b), m \in Supersedable(b) : Logged(b, "derived", n, m)
    /\ UNCHANGED <<branches, limit, snapshots, op>>

(* commit_extraction_success derives in the branch of the message.         *)
AutoDerive ==
    /\ \E n \in 1..Len(log) :
        log[n].kind = "message" /\ Logged(log[n].branch, "auto", n, 0)
    /\ UNCHANGED <<branches, limit, snapshots, op>>

-----------------------------------------------------------------------------
(* set_active_block reads the version that it supersedes before its        *)
(* transaction.                                                            *)
ReadBlock(p, b) ==
    /\ op[p] = Idle /\ b \in branches
    /\ op' = [op EXCEPT ![p] = [kind |-> "block", branch |-> b, previous |-> Block(b)]]
    /\ UNCHANGED <<log, branches, limit, snapshots>>

\* UNIQUE(branch_id, name, version): one own version after each version
Numbered(b, m) ==
    \E n \in Of({"block"}, 1..Len(log)) : log[n].branch = b /\ log[n].supersedes = m

WriteBlock(p) ==
    /\ op[p].kind = "block"
    /\ \E m \in {0} \cup op[p].previous :
        /\ m = 0 => op[p].previous = {}
        /\ ~Numbered(op[p].branch, m)
        /\ Logged(op[p].branch, "block", Len(log) + 1, m)
    /\ op' = [op EXCEPT ![p] = Idle]
    /\ UNCHANGED <<branches, limit, snapshots>>

(* SnapshotManager.create: build_state reads the memories and the blocks,  *)
(* and create_snapshot stores them later, with the tip it finds then.      *)
ReadMemories(p, b) ==
    /\ op[p] = Idle /\ b \in branches /\ Len(snapshots) < MaxSnapshots
    /\ op' = [op EXCEPT ![p] = [kind |-> "memories", branch |-> b,
                                memories |-> Live(b), built |-> Tip(b)]]
    /\ UNCHANGED <<log, branches, limit, snapshots>>

ReadBlocks(p) ==
    /\ op[p].kind = "memories"
    /\ op' = [op EXCEPT ![p] =
                [kind |-> "state", branch |-> op[p].branch, block |-> Block(op[p].branch),
                 memories |-> op[p].memories, built |-> op[p].built]]
    /\ UNCHANGED <<log, branches, limit, snapshots>>

Cursor(b) == Tip(b)

StoreSnapshot(p) ==
    /\ op[p].kind = "state" /\ Len(snapshots) < MaxSnapshots
    /\ snapshots' = snapshots \o
        <<[branch |-> op[p].branch, cursor |-> Cursor(op[p].branch),
           memories |-> op[p].memories, block |-> op[p].block,
           built |-> op[p].built, kept |-> TRUE]>>
    /\ op' = [op EXCEPT ![p] = Idle]
    /\ UNCHANGED <<log, branches, limit>>

-----------------------------------------------------------------------------
(* prune_snapshot_blobs: an event, and the blob of the snapshot is gone.   *)
Prune(b, s) ==
    /\ b \in branches /\ snapshots[s].kept
    /\ Logged(b, "pruned", 0, 0)
    /\ snapshots' = [snapshots EXCEPT ![s].kept = FALSE]
    /\ UNCHANGED <<branches, limit, op>>

(* The caller dies, or its step raises.                                    *)
GiveUp(p) ==
    /\ op[p] # Idle
    /\ op' = [op EXCEPT ![p] = Idle]
    /\ UNCHANGED <<log, branches, limit, snapshots>>

Step(p) ==
    \/ \E b \in Branches : ReadBlock(p, b) \/ ReadMemories(p, b)
    \/ WriteBlock(p) \/ ReadBlocks(p) \/ StoreSnapshot(p) \/ GiveUp(p)

Next ==
    \/ \E b \in Branches : AppendEvent(b) \/ DeriveMemory(b)
    \/ \E b, p \in Branches : CreateBranch(b, p)
    \/ AutoDerive
    \/ \E b \in Branches : \E s \in 1..Len(snapshots) : Prune(b, s)
    \/ \E p \in Processes : Step(p)

Spec == Init /\ [][Next]_vars

-----------------------------------------------------------------------------
Numbers == 0..MaxEntries

Entries == [branch : Branches, kind : {"message", "derived", "auto", "block", "pruned"},
            source : Numbers, supersedes : Numbers]

SnapshotRows ==
    [branch : Branches, cursor : Numbers, memories : SUBSET Numbers,
     block : SUBSET Numbers, built : Numbers, kept : BOOLEAN]

BlockReads == [kind : {"block"}, branch : Branches, previous : SUBSET Numbers]

MemoryReads == [kind : {"memories"}, branch : Branches, memories : SUBSET Numbers,
                built : Numbers]

States == [kind : {"state"}, branch : Branches, memories : SUBSET Numbers,
           block : SUBSET Numbers, built : Numbers]

TypeOK ==
    /\ log \in Seq(Entries) /\ Len(log) <= MaxEntries
    /\ branches \subseteq Branches /\ Main \in branches
    /\ limit \in [Branches -> [Branches -> Numbers \cup {NotAncestor}]]
    /\ snapshots \in Seq(SnapshotRows)
    /\ op \in [Processes -> {Idle} \cup BlockReads \cup MemoryReads \cup States]

(* Every derived claim references events visible in the branch (README.md: *)
(* 20), in each branch that shows the claim and not only in the one it was *)
(* derived in: a branch that shows a memory or a block version shows its   *)
(* source and, of a memory, the version that it supersedes.                *)
ProvenanceVisible ==
    \A b \in branches : \A n \in Visible(b) :
        /\ log[n].source # 0 => log[n].source \in Visible(b)
        /\ log[n].kind = "derived" /\ log[n].supersedes # 0
            => log[n].supersedes \in Memories(b)

(* docs/architecture.md:41-47: a snapshot that a branch can restore holds  *)
(* nothing that the branch does not show, although it was read before its  *)
(* cursor was taken and the branch may be younger than the snapshot.       *)
SnapshotsHoldVisible ==
    \A b \in branches : \A s \in Usable(b) :
        snapshots[s].memories \cup snapshots[s].block \subseteq Visible(b)

(* docs/architecture.md:41-47: writes of a parent, or of any other branch, *)
(* do not leak: what a branch shows changes only by its own entries.       *)
Sees(b) == <<Visible(b), Live(b), Block(b)>>

NothingLeaks ==
    [][\A b \in branches :
        \/ \E n \in 1..Len(log') : n > Len(log) /\ log'[n].branch = b
        \/ Sees(b)' = Sees(b)]_vars

\* What a branch shows of the log up to its entry k, and what of it lives.
To(b, k) == {n \in Visible(b) : n <= k}

Derived(S) == Of({"derived", "auto"}, S)

LiveOf(S) ==
    LET derived == Derived(S)
    IN derived \ Superseded(derived)

BlockOf(S) ==
    LET versions == Of({"block"}, S)
    IN Last(versions \ Superseded(versions))

View(S) == [shown |-> S, live |-> LiveOf(S), block |-> BlockOf(S)]

History(b) == [k \in 0..Len(log) |-> View(To(b, k))]

Promise == INSTANCE BranchPromise WITH
    size <- Len(log),
    history <- [b \in branches |-> History(b)]

(* docs/architecture.md:41-47: every branch behaves as a private store     *)
(* copied from what its parent showed at the fork point: what it showed    *)
(* after any entry is never rewritten, an entry of its own adds itself,    *)
(* a memory or a block version, and nothing else reaches it.               *)
PromiseSpec == Promise!Spec

(* Restoring any snapshot a branch can use gives what the branch shows     *)
(* now: the same protected block, and the same memories but the automatic  *)
(* ones derived after the snapshot -- provided nothing was written to the  *)
(* branch while the snapshot was taken.                                    *)
RestoreAgrees ==
    \A b \in branches : \A s \in Usable(b) :
        snapshots[s].cursor <= snapshots[s].built =>
            /\ RestoredBlock(b, s) = Block(b)
            /\ RestoredMemories(b, s) = Live(b) \ Of({"auto"}, ReplayTail(b, s))
=============================================================================
