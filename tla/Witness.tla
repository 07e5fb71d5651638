------------------------------ MODULE Witness ------------------------------
(***************************************************************************)
(* The external witness of the event chain (witness.py, security_status    *)
(* and checkpoint_witness of service.py): a small file beside the database *)
(* remembers the last head of the chain that was seen, and every check     *)
(* compares the chain with it.                                             *)
(*                                                                         *)
(* A check reads the head, then the file, then the hash at the witnessed   *)
(* position, and then replaces the file; nothing makes the four one step,  *)
(* across processes or inside a hook delivery, whose transaction is still  *)
(* open when it resumes a session.                                         *)
(*                                                                         *)
(* Abstracted: the hash of an entry is a number given out once; it stands  *)
(* for the whole prefix, as a chained hash does.  The project is           *)
(* initialised and its first checkpoint was written.  A finding is the     *)
(* entry that records it.  `restores', `overlapped', `early' and           *)
(* `witnessed' only observe.                                               *)
(*                                                                         *)
(* An operator named X_Y is the mutant Y of X: no definition uses it.      *)
(***************************************************************************)
EXTENDS Integers, Sequences

CONSTANTS
    Processes,
    NoProcess,
    NoFinding,
    MaxEntries,   \* bound: entries ever appended
    MaxRestores   \* bound: restored backups

ASSUME ProcessesAssumption == NoProcess \notin Processes

VARIABLES
    chain,       \* committed entries of the event chain
    writer,      \* the process whose write transaction is open
    tail,        \* entries appended in the open transaction
    born,        \* entries appended so far
    shard,       \* the witnessed head: sequence number and hash
    checking,    \* where the check of each process is
    head,        \* the head its check read
    seen,        \* the witnessed head its check read
    finding,     \* the finding of its check
    restores,    \* number of restored backups
    overlapped,  \* a check replaced the file while another check ran
    early,       \* a head was witnessed before it was committed
    witnessed    \* every head the file ever held

database == <<chain, writer, tail, born>>
check == <<checking, head, seen, finding>>
observers == <<overlapped, early, witnessed>>
witnessVars == <<database, shard, check, restores, observers>>

Entry(n, f) == [hash |-> n, finding |-> f]

\* what the connection of a process sees, its own open transaction included
View(p) == IF writer = p THEN chain \o tail ELSE chain

\* chain_checkpoint and chain_hash_at; 0 stands for no row
HeadOf(c) == [seq |-> Len(c), hash |-> c[Len(c)].hash]

HashAt(c, n) == IF n \in 1..Len(c) THEN c[n].hash ELSE 0

Holds(c, w) == HashAt(c, w.seq) = w.hash

Findings(c) == {c[i].finding : i \in 1..Len(c)} \ {NoFinding}

NoHead == [seq |-> 0, hash |-> 0]

\* A check that is over, or a process that ends, forgets its locals.
Return(p) ==
    /\ checking' = [checking EXCEPT ![p] = "idle"]
    /\ head' = [head EXCEPT ![p] = NoHead] /\ seen' = [seen EXCEPT ![p] = NoHead]
    /\ finding' = [finding EXCEPT ![p] = NoFinding]

InitWitness ==
    /\ chain = <<Entry(1, NoFinding)>> /\ writer = NoProcess /\ tail = << >>
    /\ born = 1
    /\ shard = HeadOf(chain)
    /\ checking = [p \in Processes |-> "idle"]
    /\ head = [p \in Processes |-> NoHead] /\ seen = [p \in Processes |-> NoHead]
    /\ finding = [p \in Processes |-> NoFinding]
    /\ restores = 0 /\ overlapped = FALSE /\ early = FALSE /\ witnessed = {shard}

-----------------------------------------------------------------------------
(* The transaction of a hook delivery or of any other write.               *)
OpenTransaction(p) ==
    /\ writer = NoProcess /\ checking[p] = "idle"
    /\ writer' = p
    /\ UNCHANGED <<chain, tail, born, shard, check, restores, observers>>

AppendEntry(p) ==
    /\ writer = p /\ checking[p] = "idle" /\ born < MaxEntries
    /\ tail' = tail \o <<Entry(born + 1, NoFinding)>>
    /\ born' = born + 1
    /\ UNCHANGED <<chain, writer, shard, check, restores, observers>>

CommitTransaction(p) ==
    /\ writer = p /\ checking[p] = "idle"
    /\ chain' = chain \o tail
    /\ writer' = NoProcess /\ tail' = << >>
    /\ UNCHANGED <<born, shard, check, restores, observers>>

(* An exception in the delivery, or the end of the process.                *)
AbortTransaction(p) ==
    /\ writer = p
    /\ writer' = NoProcess /\ tail' = << >>
    /\ Return(p)
    /\ UNCHANGED <<chain, born, shard, restores, observers>>

(* A backup of the database takes the place of the file; no process has it *)
(* open meanwhile.                                                         *)
Restore ==
    /\ writer = NoProcess /\ \A p \in Processes : checking[p] = "idle"
    /\ restores < MaxRestores
    /\ restores' = restores + 1
    /\ \E n \in 1..(Len(chain) - 1) : chain' = SubSeq(chain, 1, n)
    /\ UNCHANGED <<writer, tail, born, shard, check, observers>>

-----------------------------------------------------------------------------
(* check_and_update.                                                       *)
ReadHead(p) ==
    /\ checking[p] = "idle"
    /\ head' = [head EXCEPT ![p] = HeadOf(View(p))]
    /\ checking' = [checking EXCEPT ![p] = "read"]
    /\ UNCHANGED <<database, shard, seen, finding, restores, observers>>

RolledBack_OrEqual(p) == head[p].seq <= shard.seq

RolledBack(p) == head[p].seq < shard.seq

ReadShard(p) ==
    /\ checking[p] = "read"
    /\ seen' = [seen EXCEPT ![p] = shard]
    /\ \/ /\ RolledBack(p)
          /\ checking' = [checking EXCEPT ![p] = "report"]
          /\ finding' = [finding EXCEPT ![p] =
                [kind |-> "history_rollback", witness |-> shard, current |-> head[p].seq]]
       \/ /\ ~RolledBack(p)
          /\ checking' = [checking EXCEPT ![p] = "compare"]
          /\ UNCHANGED finding
    /\ UNCHANGED <<database, shard, head, restores, observers>>

Diverged_Never(p) == FALSE

Diverged(p) == ~Holds(View(p), seen[p])

Compare(p) ==
    /\ checking[p] = "compare"
    /\ \/ /\ Diverged(p)
          /\ checking' = [checking EXCEPT ![p] = "report"]
          /\ finding' = [finding EXCEPT ![p] =
                [kind |-> "history_divergence", witness |-> seen[p],
                 current |-> HashAt(View(p), seen[p].seq)]]
       \/ /\ ~Diverged(p)
          /\ checking' = [checking EXCEPT ![p] = "write"]
          /\ UNCHANGED finding
    /\ UNCHANGED <<database, shard, head, seen, restores, observers>>

\* the head that was read at the start, not the one the chain has by now
Witnessed(p) == head[p]

WriteShard(p) ==
    /\ checking[p] = "write"
    /\ shard' = Witnessed(p)
    /\ Return(p)
    /\ witnessed' = witnessed \cup {Witnessed(p)}
    /\ overlapped' = (overlapped \/ \E q \in Processes \ {p} : checking[q] # "idle")
    /\ early' = (early \/ ~Holds(chain, Witnessed(p)))
    /\ UNCHANGED <<database, restores>>

(* registry_update_failed: reported, and retried by a later check.         *)
WriteFails(p) ==
    /\ checking[p] = "write"
    /\ Return(p)
    /\ UNCHANGED <<database, shard, restores, observers>>

(* security_status records a finding once per incident key, in the open    *)
(* transaction of its own process or in one of its own.                    *)
RecordFinding(p) ==
    /\ checking[p] = "report" /\ writer \in {p, NoProcess}
    /\ Return(p)
    /\ \/ /\ finding[p] \in Findings(View(p))
          /\ UNCHANGED <<chain, tail, born>>
       \/ /\ finding[p] \notin Findings(View(p)) /\ born < MaxEntries
          /\ born' = born + 1
          /\ \/ /\ writer = p
                /\ tail' = tail \o <<Entry(born + 1, finding[p])>>
                /\ UNCHANGED chain
             \/ /\ writer = NoProcess
                /\ chain' = chain \o <<Entry(born + 1, finding[p])>>
                /\ UNCHANGED tail
    /\ UNCHANGED <<writer, shard, restores, observers>>

(* checkpoint_witness keeps the status in memory and records nothing.      *)
ReportOnly(p) ==
    /\ checking[p] = "report"
    /\ Return(p)
    /\ UNCHANGED <<database, shard, restores, observers>>

Check(p) ==
    \/ ReadHead(p) \/ ReadShard(p) \/ Compare(p) \/ WriteShard(p)
    \/ WriteFails(p) \/ RecordFinding(p) \/ ReportOnly(p)

NextWitness ==
    \/ \E p \in Processes :
        \/ OpenTransaction(p) \/ AppendEntry(p)
        \/ CommitTransaction(p) \/ AbortTransaction(p) \/ Check(p)
    \/ Restore

SpecWitness == InitWitness /\ [][NextWitness]_witnessVars

-----------------------------------------------------------------------------
(* task.md:328-336, as far as the code keeps it: an alarm has a cause.     *)
(* Only a lost history, or the witness of a head that was not committed,   *)
(* is reported as divergence; overlapping checks alone can cause no more   *)
(* than a report of rollback.                                              *)
AlarmsHaveCauses ==
    \A f \in Findings(chain \o tail) :
        \/ restores > 0 \/ early
        \/ overlapped /\ f.kind = "history_rollback"

(* docs/security.md:120: rollback and divergence are detected.  When a     *)
(* witnessed head is lost, the file goes on naming a lost head, however    *)
(* far the new history grows, unless overlapping checks replaced it.       *)
LossStaysVisible ==
    ~overlapped =>
        \A w \in witnessed : Holds(chain, w) \/ ~Holds(chain, shard)
=============================================================================
