------------------------ MODULE BranchStore_proofs ------------------------
(***************************************************************************)
(* Proofs about BranchStore, for any branches, callers and bounds.         *)
(*                                                                         *)
(* Every step either grows the log by an entry of a created branch, or     *)
(* leaves the log and what created branches show alone (Grows, Stays).     *)
(* Under both, what was said of an entry, of a caller or of a snapshot     *)
(* stays true, so that each action has to answer only for what it adds.    *)
(* What a snapshot holds is first bounded by what its branch shows (Inv),  *)
(* then made equal to what the branch showed at its cursor (Exact).        *)
(***************************************************************************)
EXTENDS BranchStore, TLAPS, FiniteSetTheorems, WellFoundedInduction,
        SequenceTheorems

USE MainAssumption, BoundsAssumption DEF NotAncestor

-----------------------------------------------------------------------------
(* Sequences and the tip of a branch.                                      *)

\* What appending one element to a sequence does.
LEMMA Appending ==
    ASSUME NEW S, NEW s \in Seq(S), NEW e \in S
    PROVE  /\ s \o <<e>> \in Seq(S)
           /\ Len(s \o <<e>>) = Len(s) + 1
           /\ \A n \in 1..Len(s) : (s \o <<e>>)[n] = s[n]
           /\ (s \o <<e>>)[Len(s) + 1] = e
<1> <<e>> \in Seq(S) /\ Len(<<e>>) = 1 /\ <<e>>[1] = e
  OBVIOUS
<1> QED BY ConcatProperties, LenProperties

\* A non-empty set of numbers up to a bound has a greatest element.
LEMMA MaxExists ==
    ASSUME NEW k \in Nat, NEW T \in SUBSET (0..k), T # {}
    PROVE  \E x \in T : \A y \in T : y <= x
<1> DEFINE Above(x) == {y \in 0..k : x < y}
           A == {Above(x) : x \in T}
           R == StrictSubsetOrdering(0..k)
<1>1. IsFiniteSet(0..k)
  BY FS_Interval
<1>2. IsWellFoundedOn(R, SUBSET (0..k))
  BY <1>1, FS_StrictSubsetOrderingWellFounded, FS_FiniteSubsetsOfFinite, Zenon
<1>3. A \subseteq SUBSET (0..k) /\ A # {}
  OBVIOUS
<1>4. \E a \in A : \A b \in A : ~(<<b, a>> \in R)
  <2> HIDE DEF A, R
  <2> QED BY <1>2, <1>3, WFMin, Zenon
<1>5. PICK x \in T : \A y \in T : ~(<<Above(y), Above(x)>> \in R)
  BY <1>4
<1>6. ASSUME NEW y \in T, ~(y <= x) PROVE FALSE
  <2>1. Above(y) \subseteq Above(x)
    BY <1>6
  <2>2. y \in Above(x) /\ y \notin Above(y)
    BY <1>6
  <2>3. <<Above(y), Above(x)>> \in R
    <3>1. Above(y) # Above(x)
      BY <2>2
    <3> HIDE DEF Above
    <3>2. Above(y) \in SUBSET (0..k) /\ Above(x) \in SUBSET (0..k)
      BY DEF Above
    <3> QED BY <3>1, <3>2, <2>1 DEF StrictSubsetOrdering
  <2> QED BY <2>3, <1>5
<1> QED BY <1>6

\* The log by itself, as most steps need only this of the types.
LogOK == log \in Seq(Entries) /\ Len(log) <= MaxEntries

\* The tip of a branch is an entry it shows, or 0, and none of them is later.
LEMMA TipBounds ==
    ASSUME LogOK, NEW b
    PROVE  /\ Tip(b) \in 0..Len(log)
           /\ \A n \in Visible(b) : n <= Tip(b)
<1> DEFINE T == Visible(b) \cup {0}
<1>1. Len(log) \in Nat
  BY LenProperties DEF LogOK
<1>2. T \in SUBSET (0..Len(log)) /\ T # {}
  BY <1>1 DEF Visible
<1>3. \E x \in T : \A y \in T : y <= x
  <2> HIDE DEF T
  <2> QED BY <1>1, <1>2, MaxExists
<1>4. Tip(b) \in Last(T)
  BY <1>3 DEF Tip, Last
<1> QED BY <1>2, <1>4 DEF Last

\* What Logged does to the log, for any entry of the right type.
LEMMA Logging ==
    ASSUME LogOK, NEW b \in Branches,
           NEW k \in {"message", "derived", "auto", "block", "pruned"},
           NEW n \in Numbers, NEW m \in Numbers, Logged(b, k, n, m)
    PROVE  /\ LogOK'
           /\ Len(log) \in Nat /\ Len(log') = Len(log) + 1
           /\ \A i \in 1..Len(log) : log'[i] = log[i]
           /\ log'[Len(log) + 1] = [branch |-> b, kind |-> k, source |-> n, supersedes |-> m]
<1> DEFINE e == [branch |-> b, kind |-> k, source |-> n, supersedes |-> m]
<1>1. e \in Entries
  BY DEF Entries
<1>2. log' = log \o <<e>> /\ Len(log) < MaxEntries
  BY DEF Logged
<1>3. log \in Seq(Entries) /\ Len(log) \in Nat
  BY LenProperties DEF LogOK
<1> HIDE DEF e
<1>4. /\ log' \in Seq(Entries) /\ Len(log') = Len(log) + 1
      /\ \A i \in 1..Len(log) : log'[i] = log[i]
      /\ log'[Len(log) + 1] = e
  BY <1>1, <1>2, <1>3, Appending
<1> QED BY <1>2, <1>3, <1>4 DEF LogOK, e

-----------------------------------------------------------------------------
(* Type correctness.                                                       *)

OpTypes == [Processes -> {Idle} \cup BlockReads \cup MemoryReads \cup States]

LimitTypes == [Branches -> [Branches -> Numbers \cup {NotAncestor}]]

\* What a branch shows are numbers of entries, and so is its tip.
LEMMA ReadTypes ==
    ASSUME LogOK, NEW b
    PROVE  /\ Visible(b) \subseteq Numbers /\ Tip(b) \in Numbers
           /\ Visible(b) \subseteq 1..Len(log)
           /\ Memories(b) \subseteq Visible(b) /\ Live(b) \subseteq Visible(b)
           /\ Block(b) \subseteq Visible(b)
<1>1. Len(log) \in Nat /\ Len(log) <= MaxEntries
  BY LenProperties DEF LogOK
<1>2. Visible(b) \subseteq 1..Len(log)
  BY DEF Visible
<1>3. Tip(b) \in 0..Len(log)
  BY TipBounds
<1>4. Memories(b) \subseteq Visible(b) /\ Live(b) \subseteq Visible(b)
  BY DEF Live, Memories, Of
<1>5. Block(b) \subseteq Visible(b)
  BY DEF Block, Last, Of
<1> QED BY <1>1, <1>2, <1>3, <1>4, <1>5 DEF Numbers

\* The cut-offs of a new branch are entries or absent.
LEMMA ForkTypes ==
    ASSUME LogOK, limit \in LimitTypes, NEW b, NEW p \in Branches,
           CreateBranch(b, p)
    PROVE  limit' \in LimitTypes
<1>1. PICK n \in 0..Tip(p) :
        limit' = [limit EXCEPT ![b] = [a \in Branches |-> ForkLimit(p, a, n)]]
  BY DEF CreateBranch
<1>2. n \in Numbers
  BY ReadTypes, <1>1 DEF Numbers
<1>3. \A a \in Branches : ForkLimit(p, a, n) \in Numbers \cup {NotAncestor}
  BY <1>2 DEF ForkLimit, LimitTypes
<1>4. ASSUME NEW a \in Branches
      PROVE  limit'[a] \in [Branches -> Numbers \cup {NotAncestor}]
  BY <1>1, <1>3 DEF LimitTypes
<1>5. limit' = [a \in Branches |-> limit'[a]]
  BY <1>1 DEF LimitTypes
<1> QED BY <1>4, <1>5 DEF LimitTypes

(* Every row, entry and caller keeps its type, and cut-offs, cursors and   *)
(* tips stay within the log (create_branch, append_event, create_snapshot  *)
(* of storage.py).                                                         *)
THEOREM TypeCorrect == Spec => []TypeOK
<1>1. Init => TypeOK
  BY DEF Init, TypeOK, Branches, Numbers
<1>2. ASSUME TypeOK, [Next]_vars PROVE TypeOK'
  <2> USE <1>2
  <2>0. /\ LogOK /\ Len(log) \in Nat /\ limit \in LimitTypes /\ op \in OpTypes
        /\ branches \subseteq Branches /\ Main \in branches
        /\ snapshots \in Seq(SnapshotRows)
    BY LenProperties DEF TypeOK, LogOK, LimitTypes, OpTypes
  <2> SUFFICES /\ LogOK' /\ (limit \in LimitTypes)' /\ (op \in OpTypes)'
               /\ branches' \subseteq Branches /\ Main \in branches'
               /\ snapshots' \in Seq(SnapshotRows)
    BY DEF TypeOK, LogOK, LimitTypes, OpTypes
  <2> HIDE <1>2
  <2>1. CASE UNCHANGED vars
    BY <2>0, <2>1 DEF vars, LogOK
  <2>2. ASSUME NEW b \in Branches, AppendEvent(b) PROVE LogOK'
    <3>1. Logged(b, "message", 0, 0) /\ 0 \in Numbers
      BY <2>2 DEF AppendEvent, Numbers
    <3> QED BY <2>0, <3>1, Logging
  <2>3. ASSUME NEW b \in Branches, DeriveMemory(b) PROVE LogOK'
    <3>1. PICK n \in Citable(b), m \in Supersedable(b) : Logged(b, "derived", n, m)
      BY <2>3 DEF DeriveMemory
    <3>2. n \in Numbers /\ m \in Numbers
      BY <2>0, ReadTypes DEF Citable, Supersedable, Numbers
    <3> QED BY <2>0, <3>1, <3>2, Logging
  <2>4. ASSUME NEW b \in Branches, NEW p \in Branches, CreateBranch(b, p)
        PROVE  limit' \in LimitTypes
    BY <2>0, <2>4, ForkTypes
  <2>5. ASSUME AutoDerive PROVE LogOK'
    <3>1. PICK n \in 1..Len(log) : Logged(log[n].branch, "auto", n, 0)
      BY <2>5 DEF AutoDerive
    <3>2. n \in Numbers /\ 0 \in Numbers
      BY <2>0 DEF LogOK, Numbers
    <3>3. log[n] \in Entries
      BY <2>0 DEF LogOK
    <3>4. log[n].branch \in Branches
      BY <3>3 DEF Entries
    <3> QED BY <2>0, <3>1, <3>2, <3>4, Logging
  <2>6. ASSUME NEW b \in Branches, NEW s \in 1..Len(snapshots), Prune(b, s)
        PROVE  LogOK' /\ snapshots' \in Seq(SnapshotRows)
    <3>1. LogOK'
      <4>1. Logged(b, "pruned", 0, 0) /\ 0 \in Numbers
        BY <2>6 DEF Prune, Numbers
      <4> QED BY <2>0, <4>1, Logging
    <3>2. [snapshots[s] EXCEPT !.kept = FALSE] \in SnapshotRows
      <4>1. snapshots[s] \in SnapshotRows
        BY <2>0
      <4> QED BY <4>1 DEF SnapshotRows
    <3>3. snapshots' = [snapshots EXCEPT ![s] = [snapshots[s] EXCEPT !.kept = FALSE]]
      BY <2>6 DEF Prune
    <3>4. snapshots' \in Seq(SnapshotRows)
      BY <2>0, <3>2, <3>3, ExceptSeq
    <3> QED BY <3>1, <3>4
  <2>7. ASSUME NEW p \in Processes, NEW b \in Branches, ReadBlock(p, b)
        PROVE  op' \in OpTypes
    <3>1. [kind |-> "block", branch |-> b, previous |-> Block(b)] \in BlockReads
      BY <2>0, ReadTypes DEF BlockReads
    <3> QED BY <2>0, <2>7, <3>1 DEF ReadBlock, OpTypes
  <2>8. ASSUME NEW p \in Processes, WriteBlock(p) PROVE LogOK' /\ op' \in OpTypes
    <3>1. PICK m \in {0} \cup op[p].previous :
            Logged(op[p].branch, "block", Len(log) + 1, m)
      BY <2>8 DEF WriteBlock
    <3>2. op[p] \in BlockReads
      BY <2>0, <2>8 DEF WriteBlock, OpTypes, Idle, BlockReads, MemoryReads, States
    <3>3. op[p].branch \in Branches /\ m \in Numbers /\ Len(log) + 1 \in Numbers
      BY <2>0, <3>1, <3>2 DEF BlockReads, Numbers, Logged
    <3>4. LogOK'
      BY <2>0, <3>1, <3>3, Logging
    <3>5. op' \in OpTypes
      BY <2>0, <2>8 DEF WriteBlock, OpTypes
    <3> QED BY <3>4, <3>5
  <2>9. ASSUME NEW p \in Processes, NEW b \in Branches, ReadMemories(p, b)
        PROVE  op' \in OpTypes
    <3>1. [kind |-> "memories", branch |-> b, memories |-> Live(b), built |-> Tip(b)]
            \in MemoryReads
      BY <2>0, ReadTypes DEF MemoryReads
    <3> QED BY <2>0, <2>9, <3>1 DEF ReadMemories, OpTypes
  <2>10. ASSUME NEW p \in Processes, ReadBlocks(p) PROVE op' \in OpTypes
    <3>1. op[p] \in MemoryReads
      BY <2>0, <2>10 DEF ReadBlocks, OpTypes, Idle, BlockReads, MemoryReads, States
    <3>2. [kind |-> "state", branch |-> op[p].branch, block |-> Block(op[p].branch),
           memories |-> op[p].memories, built |-> op[p].built] \in States
      BY <2>0, <3>1, ReadTypes DEF MemoryReads, States
    <3> QED BY <2>0, <2>10, <3>2 DEF ReadBlocks, OpTypes
  <2>11. ASSUME NEW p \in Processes, StoreSnapshot(p)
         PROVE  op' \in OpTypes /\ snapshots' \in Seq(SnapshotRows)
    <3>1. op[p] \in States
      BY <2>0, <2>11 DEF StoreSnapshot, OpTypes, Idle, BlockReads, MemoryReads, States
    <3> DEFINE row == [branch |-> op[p].branch, cursor |-> Cursor(op[p].branch),
                       memories |-> op[p].memories, block |-> op[p].block,
                       built |-> op[p].built, kept |-> TRUE]
    <3>2. row \in SnapshotRows
      BY <2>0, <3>1, ReadTypes DEF States, SnapshotRows, Cursor
    <3>3. snapshots' = snapshots \o <<row>>
      BY <2>11 DEF StoreSnapshot
    <3> HIDE DEF row
    <3>4. snapshots' \in Seq(SnapshotRows)
      BY <2>0, <3>2, <3>3, Appending
    <3>5. op' \in OpTypes
      BY <2>0, <2>11 DEF StoreSnapshot, OpTypes
    <3> QED BY <3>4, <3>5
  <2>12. ASSUME NEW p \in Processes, GiveUp(p) PROVE op' \in OpTypes
    BY <2>0, <2>12 DEF GiveUp, OpTypes
  <2> QED
    BY <1>2, <2>0, <2>1, <2>2, <2>3, <2>4, <2>5, <2>6, <2>7, <2>8, <2>9, <2>10,
       <2>11, <2>12
       DEF Next, Step, AppendEvent, DeriveMemory, CreateBranch, AutoDerive, Prune,
           ReadBlock, WriteBlock, ReadMemories, ReadBlocks, StoreSnapshot, GiveUp, LogOK
<1> QED BY <1>1, <1>2, PTL DEF Spec

-----------------------------------------------------------------------------
(* Lineage: cut-offs never pass the end of the log, nobody has a branch    *)
(* that does not exist as ancestor, and the way to an ancestor through     *)
(* another one shows no more of it than the lineage itself.                *)
Lineage ==
    /\ \A b, a \in Branches : limit[b][a] <= Len(log)
    /\ \A b \in Branches : limit[b][b] = NotAncestor
    /\ \A b, a \in Branches : b \notin branches => limit[a][b] = NotAncestor
    /\ \A b, a, c \in Branches : b # c =>
        limit[b][c] >= limit[b][a] \/ limit[b][c] >= limit[a][c]

\* A branch that shows an entry shows all that the entry's branch showed then.
LEMMA Inherits ==
    ASSUME limit \in LimitTypes, Lineage,
           NEW b \in Branches, NEW a \in Branches, NEW c \in Branches,
           NEW n \in Int, NEW m \in Int, m <= n, Shows(b, a, n), Shows(a, c, m)
    PROVE  Shows(b, c, m)
<1>1. limit[b][a] \in Int /\ limit[b][c] \in Int /\ limit[a][c] \in Int
  BY DEF LimitTypes, Numbers
<1>2. CASE b = c
  BY <1>2 DEF Shows
<1>3. CASE b # c
  <2>1. limit[b][c] >= limit[b][a] \/ limit[b][c] >= limit[a][c]
    BY <1>3 DEF Lineage
  <2> QED BY <1>1, <1>3, <2>1 DEF Shows
<1> QED BY <1>2, <1>3

(* What is said of the entries of the log, of what callers have read and   *)
(* of the stored snapshots.                                                *)
EntrySound(n) ==
    /\ log[n].branch \in branches
    /\ log[n].source # 0 =>
        /\ log[n].source <= n
        /\ Shows(log[n].branch, log[log[n].source].branch, log[n].source)
    /\ log[n].kind = "derived" /\ log[n].supersedes # 0 =>
        /\ log[n].supersedes <= n
        /\ log[log[n].supersedes].kind \in {"derived", "auto"}
        /\ Shows(log[n].branch, log[log[n].supersedes].branch, log[n].supersedes)

Provenance == \A n \in 1..Len(log) : EntrySound(n)

HasRead(p, b) ==
    /\ b \in branches
    /\ op[p].kind = "memories" => op[p].memories \subseteq Visible(b)
    /\ op[p].kind = "state" => op[p].memories \cup op[p].block \subseteq Visible(b)

OpSound ==
    \A p \in Processes : op[p] # Idle =>
        \E b \in Branches : op[p].branch = b /\ HasRead(p, b)

SnapshotOf(s, b) ==
    /\ b \in branches
    /\ snapshots[s].cursor <= Len(log)
    /\ \A m \in snapshots[s].memories \cup snapshots[s].block :
        m \in Visible(b) /\ m <= snapshots[s].cursor

SnapshotSound(s) == \E b \in Branches : snapshots[s].branch = b /\ SnapshotOf(s, b)

SnapshotsSound == \A s \in 1..Len(snapshots) : SnapshotSound(s)

\* A caller idles or has read what its branch shows; a stored snapshot holds
\* what its branch showed at its cursor.
Inv == TypeOK /\ Lineage /\ Provenance /\ OpSound /\ SnapshotsSound

\* What the steps need of the types.
LEMMA TypesGive ==
    ASSUME TypeOK
    PROVE  /\ LogOK /\ Len(log) \in Nat /\ limit \in LimitTypes /\ op \in OpTypes
           /\ \A n \in 1..Len(log) : log[n] \in Entries
           /\ \A b, a \in Branches : limit[b][a] \in Int
           /\ branches \subseteq Branches /\ Main \in branches
           /\ snapshots \in Seq(SnapshotRows) /\ Len(snapshots) \in Nat
<1>1. \A b, a \in Branches : limit[b][a] \in Int
  BY DEF TypeOK, Numbers
<1> QED BY <1>1, LenProperties, ElementOfSeq DEF TypeOK, LogOK, LimitTypes, OpTypes

-----------------------------------------------------------------------------
(* Two ways in which a step touches what branches show.                    *)

\* The log grows by one entry of a created branch.
Grows ==
    /\ LogOK' /\ Len(log') = Len(log) + 1
    /\ \A n \in 1..Len(log) : log'[n] = log[n]
    /\ log'[Len(log) + 1].branch \in branches
    /\ UNCHANGED <<branches, limit>>

\* The log stays and so do the cut-offs of all created branches.
Stays ==
    /\ UNCHANGED log
    /\ branches \subseteq branches'
    /\ \A b \in branches : limit'[b] = limit[b]

\* A created branch goes on showing what it shows.
LEMMA ShowsOn ==
    ASSUME TypeOK, Grows \/ Stays, NEW b \in branches
    PROVE  /\ Visible(b) \subseteq Visible(b)'
           /\ \A a, n : Shows(b, a, n)' <=> Shows(b, a, n)
           /\ Len(log) <= Len(log') /\ b \in branches'
           /\ \A n \in 1..Len(log) : log'[n] = log[n]
<1>1. limit'[b] = limit[b] /\ b \in branches'
  BY DEF Grows, Stays
<1>2. \A a, n : Shows(b, a, n)' <=> Shows(b, a, n)
  BY <1>1 DEF Shows
<1>3. /\ Len(log) \in Nat /\ Len(log') \in Nat /\ Len(log) <= Len(log')
      /\ \A n \in 1..Len(log) : log'[n] = log[n]
  BY TypesGive DEF Grows, Stays
<1>4. Visible(b) \subseteq Visible(b)'
  BY <1>2, <1>3 DEF Visible
<1> QED BY <1>1, <1>2, <1>3, <1>4

\* The entries that were sound stay so.
LEMMA EntriesStaySound ==
    ASSUME TypeOK, Provenance, Grows \/ Stays, NEW n \in 1..Len(log)
    PROVE  EntrySound(n)'
<1>1. EntrySound(n) /\ log'[n] = log[n] /\ log[n] \in Entries
  BY TypesGive, ShowsOn DEF Provenance
<1>2. log[n].branch \in branches /\ log[n].source \in Nat /\ log[n].supersedes \in Nat
  BY <1>1 DEF EntrySound, Entries, Numbers
<1>3. \A m \in Nat : m # 0 /\ m <= n => log'[m] = log[m]
  BY TypesGive, ShowsOn
<1>4. /\ limit'[log[n].branch] = limit[log[n].branch]
      /\ log[n].branch \in branches'
  BY <1>2, ShowsOn DEF Grows, Stays
<1>5. ASSUME NEW m \in Nat, m # 0, m <= n,
             Shows(log[n].branch, log[m].branch, m)
      PROVE  log'[n].branch = log'[m].branch \/ m <= limit'[log'[n].branch][log'[m].branch]
  BY <1>1, <1>3, <1>4, <1>5 DEF Shows
<1>6. log[n].source # 0 =>
        /\ log[n].source <= n
        /\ Shows(log[n].branch, log[log[n].source].branch, log[n].source)
  BY <1>1 DEF EntrySound
<1>7. log[n].kind = "derived" /\ log[n].supersedes # 0 =>
        /\ log[n].supersedes <= n
        /\ log[log[n].supersedes].kind \in {"derived", "auto"}
        /\ Shows(log[n].branch, log[log[n].supersedes].branch, log[n].supersedes)
  BY <1>1 DEF EntrySound
<1>8. log'[n].branch \in branches'
  BY <1>1, <1>4
<1>9. (log[n].source # 0 =>
        /\ log[n].source <= n
        /\ Shows(log[n].branch, log[log[n].source].branch, log[n].source))'
  BY <1>1, <1>2, <1>5, <1>6 DEF Shows
<1>10. (log[n].kind = "derived" /\ log[n].supersedes # 0 =>
        /\ log[n].supersedes <= n
        /\ log[log[n].supersedes].kind \in {"derived", "auto"}
        /\ Shows(log[n].branch, log[log[n].supersedes].branch, log[n].supersedes))'
  BY <1>1, <1>2, <1>3, <1>5, <1>7 DEF Shows
<1> QED BY <1>8, <1>9, <1>10 DEF EntrySound

LEMMA OpStaysSound ==
    ASSUME TypeOK, OpSound, Grows \/ Stays, NEW p \in Processes,
           op'[p] = op[p], op[p] # Idle
    PROVE  (\E b \in Branches : op[p].branch = b /\ HasRead(p, b))'
<1>1. PICK b \in Branches : op[p].branch = b /\ HasRead(p, b)
  BY DEF OpSound
<1>2. Visible(b) \subseteq Visible(b)' /\ b \in branches'
  BY <1>1, ShowsOn DEF HasRead
<1>3. HasRead(p, b)'
  BY <1>1, <1>2 DEF HasRead
<1> QED BY <1>1, <1>3

LEMMA SnapshotStaysSound ==
    ASSUME TypeOK, Grows \/ Stays, NEW s, SnapshotSound(s),
           snapshots'[s].branch = snapshots[s].branch,
           snapshots'[s].cursor = snapshots[s].cursor,
           snapshots'[s].memories = snapshots[s].memories,
           snapshots'[s].block = snapshots[s].block,
           snapshots[s].cursor \in Int
    PROVE  SnapshotSound(s)'
<1>1. PICK b \in Branches : snapshots[s].branch = b /\ SnapshotOf(s, b)
  BY DEF SnapshotSound
<1>2. Visible(b) \subseteq Visible(b)' /\ b \in branches' /\ Len(log) <= Len(log')
  BY <1>1, ShowsOn DEF SnapshotOf
<1>3. Len(log) \in Nat /\ Len(log') \in Nat
  BY TypesGive DEF Grows, Stays
<1>4. SnapshotOf(s, b)'
  BY <1>1, <1>2, <1>3 DEF SnapshotOf
<1> QED BY <1>1, <1>4 DEF SnapshotSound

\* Logging a derivation from what the branch shows keeps the log sound.
LEMMA LoggedSound ==
    ASSUME TypeOK, Lineage, Provenance, NEW b \in branches,
           NEW k \in {"message", "derived", "auto", "block", "pruned"},
           NEW n \in Numbers, NEW m \in Numbers, Logged(b, k, n, m),
           UNCHANGED <<branches, limit>>,
           n = 0 \/ n = Len(log) + 1 \/ n \in Visible(b),
           k = "derived" => m = 0 \/ m \in Memories(b)
    PROVE  Grows /\ Lineage' /\ Provenance'
<1>0. PICK last \in Nat : last = Len(log) + 1
  BY TypesGive
<1>1. /\ LogOK /\ Len(log) \in Nat /\ b \in Branches
      /\ last = Len(log) + 1 /\ last # 0 /\ last \notin 1..Len(log)
  BY <1>0, TypesGive
<1>2. /\ LogOK' /\ Len(log') = last
      /\ \A i \in 1..Len(log) : log'[i] = log[i]
      /\ log'[last] = [branch |-> b, kind |-> k, source |-> n, supersedes |-> m]
  BY <1>1, Logging
<1>3. Grows
  BY <1>1, <1>2 DEF Grows
<1>4. Lineage'
  BY <1>1, <1>2, TypesGive DEF Lineage
<1>5. EntrySound(last)'
  <2>1. log'[last].branch \in branches'
    BY <1>2
  <2>2. (log[last].source # 0 =>
          /\ log[last].source <= last
          /\ Shows(log[last].branch, log[log[last].source].branch, log[last].source))'
    <3>1. CASE n = 0
      BY <1>2, <3>1
    <3>2. CASE n = last
      BY <1>1, <1>2, <3>2 DEF Shows
    <3>3. CASE n \in Visible(b)
      <4>1. n \in 1..Len(log) /\ Shows(b, log[n].branch, n)
        BY <3>3 DEF Visible
      <4> QED BY <1>1, <1>2, <4>1 DEF Shows
    <3> QED BY <1>1, <3>1, <3>2, <3>3
  <2>3. (log[last].kind = "derived" /\ log[last].supersedes # 0 =>
          /\ log[last].supersedes <= last
          /\ log[log[last].supersedes].kind \in {"derived", "auto"}
          /\ Shows(log[last].branch, log[log[last].supersedes].branch,
                   log[last].supersedes))'
    <3>1. CASE ~(k = "derived" /\ m # 0)
      BY <1>2, <3>1
    <3>2. CASE k = "derived" /\ m # 0
      <4>1. /\ m \in 1..Len(log) /\ Shows(b, log[m].branch, m)
            /\ log[m].kind \in {"derived", "auto"}
        BY <3>2 DEF Memories, Of, Visible
      <4> QED BY <1>1, <1>2, <4>1 DEF Shows
    <3> QED BY <3>1, <3>2
  <2> QED BY <2>1, <2>2, <2>3 DEF EntrySound
<1>6. Provenance'
  <2>1. \A i \in 1..Len(log) : EntrySound(i)'
    BY <1>3, EntriesStaySound
  <2>2. \A i \in 1..Len(log') : i \in 1..Len(log) \/ i = last
    BY <1>1, <1>2
  <2> QED BY <1>5, <2>1, <2>2 DEF Provenance
<1> QED BY <1>3, <1>4, <1>6


\* A new branch joins the lineage of its parent, cut at the fork point.
LEMMA ForkKeepsLineage ==
    ASSUME TypeOK, Lineage, NEW b \in Branches, NEW p \in Branches, CreateBranch(b, p)
    PROVE  Stays /\ Lineage'
<1>1. PICK n \in 0..Tip(p) :
        limit' = [limit EXCEPT ![b] = [a \in Branches |-> ForkLimit(p, a, n)]]
  BY DEF CreateBranch
<1>2. /\ b \notin branches /\ p \in branches /\ b # p
      /\ branches' = branches \cup {b} /\ log' = log
  BY DEF CreateBranch
<1>3. n \in Nat /\ n <= Len(log) /\ Len(log) \in Nat
  <2>1. Tip(p) \in 0..Len(log) /\ Len(log) \in Nat
    BY TypesGive, TipBounds
  <2> QED BY <1>1, <2>1
<1>4. /\ \A a, c \in Branches : limit[a][c] \in Int
      /\ limit \in LimitTypes
  BY TypesGive
<1>5. /\ \A c \in Branches : limit'[b][c] = ForkLimit(p, c, n)
      /\ \A a \in Branches : a # b => limit'[a] = limit[a]
  BY <1>1, <1>4 DEF LimitTypes
<1>6. /\ limit'[b][p] = n
      /\ \A c \in Branches : c # p /\ limit[p][c] > n => limit'[b][c] = n
      /\ \A c \in Branches : c # p /\ limit[p][c] <= n => limit'[b][c] = limit[p][c]
  BY <1>3, <1>4, <1>5 DEF ForkLimit
<1>7. \A c \in Branches : limit'[b][c] <= n /\ limit'[b][c] \in Int
  BY <1>3, <1>4, <1>6
<1>8. Stays
  BY <1>2, <1>5, TypesGive DEF Stays
<1>9. \A d, a \in Branches : limit'[d][a] <= Len(log')
  BY <1>2, <1>3, <1>5, <1>7 DEF Lineage
<1>10. \A a \in Branches : a \notin branches => limit'[b][a] = NotAncestor
  BY <1>2, <1>3, <1>6 DEF Lineage
<1>11. \A d \in Branches : limit'[d][d] = NotAncestor
  BY <1>2, <1>5, <1>10 DEF Lineage
<1>12. \A d, a \in Branches : d \notin branches' => limit'[a][d] = NotAncestor
  BY <1>2, <1>5, <1>10 DEF Lineage
<1>13. ASSUME NEW d \in Branches, NEW a \in Branches, NEW c \in Branches, d # c
       PROVE  limit'[d][c] >= limit'[d][a] \/ limit'[d][c] >= limit'[a][c]
  <2>1. CASE d = b /\ a = b
    BY <1>7, <2>1
  <2>2. CASE d = b /\ a # b
    <3>1. limit'[a][c] = limit[a][c] /\ limit[a][c] \in Int
      BY <1>4, <1>5, <2>2
    <3>2. CASE c = p
      BY <1>3, <1>6, <1>7, <2>2, <3>2
    <3>3. CASE c # p /\ limit[p][c] > n
      BY <1>3, <1>6, <1>7, <2>2, <3>3
    <3>4. CASE c # p /\ limit[p][c] <= n
      <4>1. limit'[b][c] = limit[p][c]
        BY <1>6, <3>4
      <4>2. limit[p][c] >= limit[p][a] \/ limit[p][c] >= limit[a][c]
        BY <3>4 DEF Lineage
      <4>3. a # p => limit'[b][a] <= limit[p][a]
        BY <1>3, <1>4, <1>6
      <4>4. a = p => limit'[b][c] >= limit'[a][c]
        BY <1>4, <3>1, <4>1
      <4> QED BY <1>4, <1>7, <2>2, <3>1, <4>1, <4>2, <4>3, <4>4
    <3> QED BY <1>3, <1>4, <3>2, <3>3, <3>4
  <2>3. CASE d # b /\ a = b
    <3>1. limit'[d] = limit[d] /\ limit[d][b] = NotAncestor
      BY <1>2, <1>5, <2>3 DEF Lineage
    <3>2. limit[d][c] >= -1
      <4>1. limit[d][c] \in Numbers \cup {NotAncestor}
        BY <1>4 DEF LimitTypes
      <4> QED BY <4>1 DEF Numbers
    <3> QED BY <2>3, <3>1, <3>2
  <2>4. CASE d # b /\ a # b
    BY <1>5, <1>13, <2>4 DEF Lineage
  <2> QED BY <2>1, <2>2, <2>3, <2>4
<1>14. Lineage'
  BY <1>9, <1>11, <1>12, <1>13 DEF Lineage
<1> QED BY <1>8, <1>14


\* Steps that only read, or that give up, and what they do to the rest.
LEMMA Quiet ==
    ASSUME TypeOK, Lineage, Provenance, UNCHANGED <<log, branches, limit>>
    PROVE  Stays /\ Lineage' /\ Provenance'
<1>1. Stays
  BY DEF Stays
<1>2. Lineage'
  BY DEF Lineage
<1>3. Provenance'
  BY <1>1, EntriesStaySound DEF Provenance
<1> QED BY <1>1, <1>2, <1>3

\* What every caller has read stays sound when only one of them moves.
LEMMA OthersStaySound ==
    ASSUME TypeOK, OpSound, Grows \/ Stays, NEW p \in Processes,
           \A q \in Processes : q # p => op'[q] = op[q],
           op'[p] = Idle \/ (\E b \in Branches : op[p].branch = b /\ HasRead(p, b))'
    PROVE  OpSound'
<1>1. ASSUME NEW q \in Processes, op'[q] # Idle
      PROVE  (\E b \in Branches : op[q].branch = b /\ HasRead(q, b))'
  <2>1. CASE q = p
    BY <1>1, <2>1
  <2>2. CASE q # p
    BY <1>1, <2>2, OpStaysSound
  <2> QED BY <2>1, <2>2
<1> QED BY <1>1 DEF OpSound

\* The rest of a step that grows the log or leaves it alone.
LEMMA RestUnchanged ==
    ASSUME TypeOK, OpSound, SnapshotsSound, Grows \/ Stays
    PROVE  /\ op' = op => OpSound'
           /\ snapshots' = snapshots => SnapshotsSound'
<1>1. ASSUME op' = op PROVE OpSound'
  BY <1>1, OpStaysSound DEF OpSound
<1>2. ASSUME snapshots' = snapshots PROVE SnapshotsSound'
  <2>1. ASSUME NEW s \in 1..Len(snapshots) PROVE SnapshotSound(s)'
    <3>1. snapshots[s] \in SnapshotRows
      BY TypesGive
    <3>2. snapshots[s].cursor \in Int
      BY <3>1 DEF SnapshotRows, Numbers
    <3> QED BY <1>2, <3>2, SnapshotStaysSound DEF SnapshotsSound
  <2> QED BY <1>2, <2>1 DEF SnapshotsSound
<1> QED BY <1>1, <1>2


-----------------------------------------------------------------------------
LEMMA InvInitially ==
    ASSUME Init PROVE Lineage /\ Provenance /\ OpSound /\ SnapshotsSound
<1>1. log = << >> /\ Len(log) = 0 /\ snapshots = << >> /\ Len(snapshots) = 0
  BY DEF Init
<1>2. \A b, a \in Branches : limit[b][a] = NotAncestor
  BY DEF Init
<1>3. \A p \in Processes : op[p] = Idle
  BY DEF Init
<1>4. Lineage
  BY <1>1, <1>2 DEF Lineage
<1>5. OpSound
  BY <1>3 DEF OpSound
<1> QED BY <1>1, <1>4, <1>5 DEF Provenance, SnapshotsSound

LEMMA InvInductive ==
    ASSUME TypeOK, Lineage, Provenance, OpSound, SnapshotsSound, [Next]_vars
    PROVE  /\ Grows \/ Stays
           /\ (Lineage /\ Provenance /\ OpSound /\ SnapshotsSound)'
<1> DEFINE Goal == /\ Grows \/ Stays
                   /\ Lineage' /\ Provenance' /\ OpSound' /\ SnapshotsSound'
<1>0. /\ 0 \in Numbers /\ LogOK /\ branches \subseteq Branches /\ op \in OpTypes
      /\ Len(snapshots) \in Nat /\ snapshots \in Seq(SnapshotRows)
      /\ \A b \in Branches : Visible(b) \subseteq Numbers /\ Tip(b) \in Numbers
  BY TypesGive, ReadTypes DEF Numbers
<1>1. ASSUME NEW b \in branches, NEW n \in Numbers, NEW m \in Numbers,
             NEW k \in {"message", "derived", "auto", "block", "pruned"},
             Logged(b, k, n, m), UNCHANGED <<branches, limit>>,
             n = 0 \/ n = Len(log) + 1 \/ n \in Visible(b),
             k = "derived" => m = 0 \/ m \in Memories(b),
             UNCHANGED <<snapshots, op>>
      PROVE  Goal
  <2>1. Grows /\ Lineage' /\ Provenance'
    BY <1>1, LoggedSound
  <2> QED BY <1>1, <2>1, RestUnchanged
<1>2. ASSUME UNCHANGED <<log, branches, limit, snapshots>>,
             NEW p \in Processes, \A q \in Processes : q # p => op'[q] = op[q],
             op'[p] = Idle \/ (\E b \in Branches : op[p].branch = b /\ HasRead(p, b))'
      PROVE  Goal
  <2>1. Stays /\ Lineage' /\ Provenance'
    BY <1>2, Quiet
  <2>2. OpSound'
    BY <1>2, <2>1, OthersStaySound
  <2> QED BY <1>2, <2>1, <2>2, RestUnchanged
<1>3. CASE UNCHANGED vars
  <2>1. UNCHANGED <<log, branches, limit>> /\ UNCHANGED <<snapshots, op>>
    BY <1>3 DEF vars
  <2> QED BY <2>1, Quiet, RestUnchanged
<1>4. ASSUME NEW b \in Branches, AppendEvent(b) PROVE Goal
  BY <1>0, <1>1, <1>4 DEF AppendEvent
<1>5. ASSUME NEW b \in Branches, DeriveMemory(b) PROVE Goal
  <2>1. PICK n \in Citable(b), m \in Supersedable(b) : Logged(b, "derived", n, m)
    BY <1>5 DEF DeriveMemory
  <2>2. n \in Visible(b) /\ (m = 0 \/ m \in Memories(b)) /\ n \in Numbers /\ m \in Numbers
    BY <1>0, ReadTypes DEF Citable, Supersedable
  <2>3. b \in branches /\ UNCHANGED <<branches, limit>> /\ UNCHANGED <<snapshots, op>>
    BY <1>5 DEF DeriveMemory
  <2> QED BY <1>1, <2>1, <2>2, <2>3
<1>6. ASSUME NEW b \in Branches, NEW p \in Branches, CreateBranch(b, p) PROVE Goal
  <2>1. Stays /\ Lineage'
    BY <1>6, ForkKeepsLineage
  <2>2. Provenance'
    BY <2>1, EntriesStaySound DEF Provenance, Stays
  <2>3. snapshots' = snapshots /\ op' = op
    BY <1>6 DEF CreateBranch
  <2> QED BY <2>1, <2>2, <2>3, RestUnchanged
<1>7. ASSUME AutoDerive PROVE Goal
  <2>1. PICK n \in 1..Len(log) : Logged(log[n].branch, "auto", n, 0)
    BY <1>7 DEF AutoDerive
  <2>2. log[n].branch \in branches
    BY DEF Provenance, EntrySound
  <2>3. n \in Visible(log[n].branch) /\ n \in Numbers
    BY <1>0, <2>2 DEF Visible, Shows
  <2>4. UNCHANGED <<branches, limit>> /\ UNCHANGED <<snapshots, op>>
    BY <1>7 DEF AutoDerive
  <2> QED BY <1>0, <1>1, <2>1, <2>2, <2>3, <2>4
<1>8. ASSUME NEW b \in Branches, NEW s \in 1..Len(snapshots), Prune(b, s) PROVE Goal
  <2>1. /\ Logged(b, "pruned", 0, 0) /\ b \in branches
        /\ UNCHANGED <<branches, limit>> /\ op' = op
        /\ snapshots' = [snapshots EXCEPT ![s].kept = FALSE]
    BY <1>8 DEF Prune
  <2>2. Grows /\ Lineage' /\ Provenance'
    BY <1>0, <2>1, LoggedSound
  <2>3. OpSound'
    BY <2>1, <2>2, RestUnchanged
  <2>4. Len(snapshots') = Len(snapshots)
    BY <1>0, <2>1
  <2>5. ASSUME NEW t \in 1..Len(snapshots) PROVE SnapshotSound(t)'
    <3>1. snapshots[t] \in SnapshotRows
      BY <1>0
    <3>2. /\ snapshots'[t].branch = snapshots[t].branch
          /\ snapshots'[t].cursor = snapshots[t].cursor
          /\ snapshots'[t].memories = snapshots[t].memories
          /\ snapshots'[t].block = snapshots[t].block
      BY <1>0, <2>1, <3>1 DEF SnapshotRows
    <3>3. snapshots[t].cursor \in Int
      BY <3>1 DEF SnapshotRows, Numbers
    <3> QED BY <2>2, <3>2, <3>3, SnapshotStaysSound DEF SnapshotsSound
  <2>6. SnapshotsSound'
    BY <2>4, <2>5 DEF SnapshotsSound
  <2> QED BY <2>2, <2>3, <2>6
<1>9. ASSUME NEW p \in Processes, NEW b \in Branches, ReadBlock(p, b) PROVE Goal
  <2>1. /\ op'[p] = [kind |-> "block", branch |-> b, previous |-> Block(b)]
        /\ \A q \in Processes : q # p => op'[q] = op[q]
        /\ b \in branches /\ UNCHANGED <<log, branches, limit, snapshots>>
    BY <1>0, <1>9 DEF ReadBlock, OpTypes
  <2>2. HasRead(p, b)'
    BY <2>1 DEF HasRead
  <2>3. op'[p].branch = b
    BY <2>1
  <2> QED BY <1>2, <2>1, <2>2, <2>3
<1>10. ASSUME NEW p \in Processes, WriteBlock(p) PROVE Goal
  <2>1. PICK m \in {0} \cup op[p].previous :
          Logged(op[p].branch, "block", Len(log) + 1, m)
    BY <1>10 DEF WriteBlock
  <2>2. op[p] \in BlockReads /\ op[p] # Idle
    BY <1>0, <1>10 DEF WriteBlock, OpTypes, Idle, BlockReads, MemoryReads, States
  <2>3. op[p].branch \in branches
    BY <2>2 DEF OpSound, HasRead
  <2>4. m \in Numbers /\ Len(log) + 1 \in Numbers
    BY <1>0, <2>1, <2>2, TypesGive DEF BlockReads, Numbers, Logged
  <2>5. /\ UNCHANGED <<branches, limit>> /\ snapshots' = snapshots
        /\ op'[p] = Idle /\ \A q \in Processes : q # p => op'[q] = op[q]
    BY <1>0, <1>10 DEF WriteBlock, OpTypes
  <2>6. Grows /\ Lineage' /\ Provenance'
    BY <2>1, <2>3, <2>4, <2>5, LoggedSound
  <2>7. OpSound'
    BY <2>5, <2>6, OthersStaySound
  <2> QED BY <2>5, <2>6, <2>7, RestUnchanged
<1>11. ASSUME NEW p \in Processes, NEW b \in Branches, ReadMemories(p, b) PROVE Goal
  <2>1. /\ op'[p] = [kind |-> "memories", branch |-> b, memories |-> Live(b),
                     built |-> Tip(b)]
        /\ \A q \in Processes : q # p => op'[q] = op[q]
        /\ b \in branches /\ UNCHANGED <<log, branches, limit, snapshots>>
    BY <1>0, <1>11 DEF ReadMemories, OpTypes
  <2>2. Live(b) \subseteq Visible(b) /\ Visible(b)' = Visible(b)
    BY <1>0, <2>1, ReadTypes DEF Visible, Shows
  <2>3. HasRead(p, b)'
    BY <2>1, <2>2 DEF HasRead
  <2>4. op'[p].branch = b
    BY <2>1
  <2> QED BY <1>2, <2>1, <2>3, <2>4
<1>12. ASSUME NEW p \in Processes, ReadBlocks(p) PROVE Goal
  <2>1. op[p].kind = "memories" /\ op[p] # Idle
    BY <1>12 DEF ReadBlocks, Idle
  <2>2. PICK b \in Branches : op[p].branch = b /\ HasRead(p, b)
    BY <2>1 DEF OpSound
  <2>3. /\ op'[p] = [kind |-> "state", branch |-> b, block |-> Block(b),
                     memories |-> op[p].memories, built |-> op[p].built]
        /\ \A q \in Processes : q # p => op'[q] = op[q]
        /\ UNCHANGED <<log, branches, limit, snapshots>>
    BY <1>0, <1>12, <2>2 DEF ReadBlocks, OpTypes
  <2>4. Block(b) \subseteq Visible(b) /\ Visible(b)' = Visible(b)
    BY <1>0, <2>3, ReadTypes DEF Visible, Shows
  <2>5. HasRead(p, b)'
    BY <2>1, <2>2, <2>3, <2>4 DEF HasRead
  <2>6. op'[p].branch = b
    BY <2>3
  <2> QED BY <1>2, <2>3, <2>5, <2>6
<1>13. ASSUME NEW p \in Processes, StoreSnapshot(p) PROVE Goal
  <2>1. op[p].kind = "state" /\ op[p] # Idle
    BY <1>13 DEF StoreSnapshot, Idle
  <2>2. PICK b \in Branches : op[p].branch = b /\ HasRead(p, b)
    BY <2>1 DEF OpSound
  <2> DEFINE row == [branch |-> b, cursor |-> Tip(b), memories |-> op[p].memories,
                     block |-> op[p].block, built |-> op[p].built, kept |-> TRUE]
  <2>3. /\ snapshots' = snapshots \o <<row>> /\ op'[p] = Idle
        /\ \A q \in Processes : q # p => op'[q] = op[q]
        /\ UNCHANGED <<log, branches, limit>>
    BY <1>0, <1>13, <2>2 DEF StoreSnapshot, OpTypes, Cursor
  <2>4. Stays /\ Lineage' /\ Provenance'
    BY <2>3, Quiet
  <2>5. OpSound'
    BY <2>3, <2>4, OthersStaySound
  <2>6. row \in SnapshotRows
    <3>1. op[p] \in States
      BY <1>0, <2>1 DEF OpTypes, Idle, BlockReads, MemoryReads, States
    <3> QED BY <1>0, <3>1 DEF States, SnapshotRows
  <2>7. /\ Len(snapshots') = Len(snapshots) + 1
        /\ \A s \in 1..Len(snapshots) : snapshots'[s] = snapshots[s]
        /\ snapshots'[Len(snapshots) + 1] = row
    <3> HIDE DEF row
    <3> QED BY <1>0, <2>3, <2>6, Appending
  <2>8. ASSUME NEW s \in 1..Len(snapshots) PROVE SnapshotSound(s)'
    <3>1. snapshots[s] \in SnapshotRows
      BY <1>0
    <3>2. snapshots[s].cursor \in Int
      BY <3>1 DEF SnapshotRows, Numbers
    <3> QED BY <2>4, <2>7, <3>2, SnapshotStaysSound DEF SnapshotsSound
  <2>9. PICK last \in Nat : last = Len(snapshots) + 1
    BY <1>0
  <2>10. SnapshotOf(last, b)'
    <3>1. /\ b \in branches' /\ op[p].memories \cup op[p].block \subseteq Visible(b)
      BY <2>1, <2>2, <2>3 DEF HasRead
    <3>2. Tip(b) <= Len(log) /\ \A n \in Visible(b) : n <= Tip(b)
      BY <1>0, TipBounds, TypesGive
    <3>3. Visible(b)' = Visible(b)
      BY <2>3 DEF Visible, Shows
    <3>4. /\ snapshots'[last].cursor = Tip(b)
          /\ snapshots'[last].memories = op[p].memories
          /\ snapshots'[last].block = op[p].block
      BY <2>7, <2>9
    <3> QED BY <2>3, <3>1, <3>2, <3>3, <3>4 DEF SnapshotOf
  <2>11. SnapshotSound(last)'
    <3>1. snapshots'[last].branch = b
      BY <2>7, <2>9
    <3> QED BY <2>10, <3>1 DEF SnapshotSound
  <2>12. SnapshotsSound'
    <3>1. \A s \in 1..Len(snapshots') : s \in 1..Len(snapshots) \/ s = last
      BY <1>0, <2>7, <2>9
    <3> QED BY <2>8, <2>11, <3>1 DEF SnapshotsSound
  <2> QED BY <2>4, <2>5, <2>12
<1>14. ASSUME NEW p \in Processes, GiveUp(p) PROVE Goal
  <2>1. /\ op'[p] = Idle /\ \A q \in Processes : q # p => op'[q] = op[q]
        /\ UNCHANGED <<log, branches, limit, snapshots>>
    BY <1>0, <1>14 DEF GiveUp, OpTypes
  <2> QED BY <1>2, <2>1
<1> QED
  BY <1>3, <1>4, <1>5, <1>6, <1>7, <1>8, <1>9, <1>10, <1>11, <1>12, <1>13, <1>14
     DEF Next, Step

\* The invariant that the theorems rest on.
LEMMA Invariance == Spec => []Inv
<1>1. Init => Lineage /\ Provenance /\ OpSound /\ SnapshotsSound
  BY InvInitially
<1>2. TypeOK /\ Lineage /\ Provenance /\ OpSound /\ SnapshotsSound /\ [Next]_vars
        => (Lineage /\ Provenance /\ OpSound /\ SnapshotsSound)'
  BY InvInductive
<1> QED BY <1>1, <1>2, TypeCorrect, PTL DEF Spec, Inv


-----------------------------------------------------------------------------
(* In each branch that shows a claim, its source and the memory that it    *)
(* supersedes are shown as well (_assert_source_events, derive_memory and  *)
(* _lineage_locked of storage.py).                                         *)
THEOREM ClaimsKeepTheirSources == Spec => []ProvenanceVisible
<1>1. Inv => ProvenanceVisible
  <2> SUFFICES ASSUME Inv, NEW b \in branches, NEW n \in Visible(b)
               PROVE  /\ log[n].source # 0 => log[n].source \in Visible(b)
                      /\ log[n].kind = "derived" /\ log[n].supersedes # 0
                           => log[n].supersedes \in Memories(b)
    BY DEF ProvenanceVisible
  <2>1. /\ limit \in LimitTypes /\ Len(log) \in Nat /\ b \in Branches
        /\ \A m \in 1..Len(log) : log[m] \in Entries
    BY TypesGive DEF Inv
  <2>2. n \in 1..Len(log) /\ Shows(b, log[n].branch, n)
    BY DEF Visible
  <2>3. EntrySound(n) /\ log[n] \in Entries
    BY <2>1, <2>2 DEF Inv, Provenance
  <2>4. ASSUME NEW m \in Nat, m # 0, m <= n, Shows(log[n].branch, log[m].branch, m)
        PROVE  m \in Visible(b)
    <3>1. m \in 1..Len(log) /\ log[m] \in Entries
      BY <2>1, <2>2, <2>4
    <3>2. log[n].branch \in Branches /\ log[m].branch \in Branches
      BY <2>3, <3>1 DEF Entries
    <3>3. Shows(b, log[m].branch, m)
      BY <2>1, <2>2, <2>4, <3>2, Inherits DEF Inv
    <3> QED BY <3>1, <3>3 DEF Visible
  <2>5. log[n].source \in Nat /\ log[n].supersedes \in Nat
    BY <2>3 DEF Entries, Numbers
  <2>6. log[n].source # 0 => log[n].source \in Visible(b)
    BY <2>3, <2>4, <2>5 DEF EntrySound
  <2>7. log[n].kind = "derived" /\ log[n].supersedes # 0
          => log[n].supersedes \in Memories(b)
    BY <2>3, <2>4, <2>5 DEF EntrySound, Memories, Of
  <2> QED BY <2>6, <2>7
<1> QED BY <1>1, Invariance, PTL

(* A snapshot that a branch can restore holds nothing the branch does not  *)
(* show (latest_snapshot, and create of snapshots.py), in any interleaving *)
(* of its reads with writes and forks.                                     *)
THEOREM SnapshotsDoNotLeak == Spec => []SnapshotsHoldVisible
<1>1. Inv => SnapshotsHoldVisible
  <2> SUFFICES ASSUME Inv, NEW b \in branches, NEW s \in Usable(b),
                      NEW m \in snapshots[s].memories \cup snapshots[s].block
               PROVE  m \in Visible(b)
    BY DEF SnapshotsHoldVisible
  <2>1. /\ limit \in LimitTypes /\ Len(log) \in Nat /\ b \in Branches
        /\ \A i \in 1..Len(log) : log[i] \in Entries
        /\ snapshots \in Seq(SnapshotRows)
    BY TypesGive DEF Inv
  <2>2. s \in 1..Len(snapshots) /\ Shows(b, snapshots[s].branch, snapshots[s].cursor)
    BY DEF Usable, InLineage
  <2>3. PICK a \in Branches : snapshots[s].branch = a /\ SnapshotOf(s, a)
    BY <2>2 DEF Inv, SnapshotsSound, SnapshotSound
  <2>4. /\ m \in 1..Len(log) /\ Shows(a, log[m].branch, m)
        /\ m <= snapshots[s].cursor
    BY <2>3 DEF SnapshotOf, Visible
  <2>5. snapshots[s].cursor \in Int /\ log[m].branch \in Branches
    <3>1. snapshots[s] \in SnapshotRows /\ log[m] \in Entries
      BY <2>1, <2>2, <2>4
    <3> QED BY <3>1 DEF SnapshotRows, Entries, Numbers
  <2>6. Shows(b, log[m].branch, m)
    BY <2>1, <2>2, <2>3, <2>4, <2>5, Inherits DEF Inv
  <2> QED BY <2>4, <2>6 DEF Visible
<1> QED BY <1>1, Invariance, PTL

\* What a branch sees is a matter of its entries alone.
LEMMA SeesVisible ==
    ASSUME TypeOK, Grows \/ Stays, NEW b, Visible(b)' = Visible(b)
    PROVE  Sees(b)' = Sees(b)
<1>1. \A n \in Visible(b) : log'[n] = log[n]
  BY TypesGive DEF Visible, Grows, Stays
<1>2. \A kinds : Of(kinds, Visible(b))' = Of(kinds, Visible(b))
  BY <1>1 DEF Of
<1>3. Memories(b)' = Memories(b)
  BY <1>2 DEF Memories
<1>4. \A S \in SUBSET Visible(b) : {log'[n].supersedes : n \in S} = Superseded(S)
  BY <1>1 DEF Superseded
<1>5. Live(b)' = Live(b)
  <2>1. Memories(b) \in SUBSET Visible(b)
    BY DEF Memories, Of
  <2> QED BY <1>3, <1>4, <2>1 DEF Live, Superseded
<1>6. Block(b)' = Block(b)
  <2>1. Of({"block"}, Visible(b)) \in SUBSET Visible(b)
    BY DEF Of
  <2>2. Of({"block"}, Visible(b))' = Of({"block"}, Visible(b))
    BY <1>2
  <2> QED BY <1>4, <2>1, <2>2 DEF Block, Superseded, Last
<1> QED BY <1>5, <1>6 DEF Sees


\* A step that grows the log in another branch changes nothing here.
LEMMA OthersEntriesAreHidden ==
    ASSUME TypeOK, Lineage, Grows, NEW b \in branches, log'[Len(log) + 1].branch # b
    PROVE  Sees(b)' = Sees(b)
<1>1. /\ Len(log) \in Nat /\ branches \subseteq Branches /\ b \in Branches
      /\ \A a, c \in Branches : limit[a][c] \in Int
  BY TypesGive
<1>2. limit[b][log'[Len(log) + 1].branch] <= Len(log)
  BY <1>1 DEF Lineage, Grows
<1>3. ~Shows(b, log'[Len(log) + 1].branch, Len(log) + 1)
  BY <1>1, <1>2 DEF Shows, Grows
<1>4. Visible(b)' = Visible(b)
  BY <1>1, <1>3 DEF Visible, Shows, Grows
<1> QED BY <1>4, SeesVisible

(* What a branch shows changes only by its own entries: neither its parent,*)
(* nor a fork of it, nor a snapshot or a prune elsewhere reach it          *)
(* (_lineage_locked, list_memories and get_active_blocks of storage.py).   *)
THEOREM WritesDoNotLeak == Spec => NothingLeaks
<1> DEFINE Leak == \A b \in branches :
        \/ \E n \in 1..Len(log') : n > Len(log) /\ log'[n].branch = b
        \/ Sees(b)' = Sees(b)
<1>1. Inv /\ [Next]_vars => Leak
  <2> SUFFICES ASSUME Inv, [Next]_vars, NEW b \in branches,
                      \A n \in 1..Len(log') : n > Len(log) => log'[n].branch # b
               PROVE  Sees(b)' = Sees(b)
    OBVIOUS
  <2>1. ASSUME Grows PROVE Sees(b)' = Sees(b)
    <3>1. Len(log) + 1 \in 1..Len(log') /\ Len(log) + 1 > Len(log)
      BY <2>1, TypesGive DEF Inv, Grows
    <3> QED BY <2>1, <3>1, OthersEntriesAreHidden DEF Inv
  <2>2. ASSUME Stays PROVE Sees(b)' = Sees(b)
    <3>1. Visible(b)' = Visible(b)
      BY <2>2 DEF Visible, Shows, Stays
    <3> QED BY <2>2, <3>1, SeesVisible DEF Inv
  <2>3. Grows \/ Stays
    BY InvInductive DEF Inv
  <2> QED BY <2>1, <2>2, <2>3
<1>2. Inv /\ [Next]_vars => [Leak]_vars
  BY <1>1
<1> QED BY <1>2, Invariance, PTL DEF Spec, NothingLeaks

-----------------------------------------------------------------------------
(* Restored snapshots: what is held equals what was shown.                 *)
\* An entry comes after every cut-off of its branch, and of two ancestors one
\* shows as much of the other as the branch itself.
EntriesFollow ==
    \A n \in 1..Len(log), a \in Branches : limit[log[n].branch][a] < n

Chained ==
    \A b, a, c \in Branches :
        b # a /\ b # c /\ a # c /\ limit[b][a] >= 0 /\ limit[b][c] >= 0
            => limit[a][c] >= limit[b][c] \/ limit[c][a] >= limit[b][a]

\* A block version supersedes an earlier one, an automatic memory nothing.
Versions ==
    \A n \in 1..Len(log) :
        /\ log[n].kind = "auto" => log[n].supersedes = 0
        /\ log[n].kind = "block" => log[n].supersedes < n

\* What a caller holds is what its branch showed at an entry it remembers.
ReadExact(p, b) ==
    /\ op[p].kind = "block" => \A m \in op[p].previous : m <= Len(log)
    /\ op[p].kind \in {"memories", "state"} =>
        op[p].built <= Len(log) /\ op[p].memories = LiveOf(To(b, op[p].built))
    /\ op[p].kind = "state" /\ Tip(b) <= op[p].built =>
        op[p].block = BlockOf(To(b, op[p].built))

ReadsExact ==
    \A p \in Processes : op[p] # Idle =>
        \E b \in branches : op[p].branch = b /\ ReadExact(p, b)

HoldsExactly(s, b) ==
    snapshots[s].cursor <= snapshots[s].built =>
        /\ snapshots[s].memories = LiveOf(To(b, snapshots[s].cursor))
        /\ snapshots[s].block = BlockOf(To(b, snapshots[s].cursor))

SnapshotsExact ==
    \A s \in 1..Len(snapshots) :
        \E b \in branches :
            /\ snapshots[s].branch = b /\ snapshots[s].cursor <= Len(log)
            /\ HoldsExactly(s, b)

Exact == EntriesFollow /\ Chained /\ Versions /\ ReadsExact /\ SnapshotsExact

\* Derived, LiveOf and BlockOf stay within their argument, of which they
\* read the entries alone.
LEMMA LivesStay ==
    ASSUME TypeOK, Grows \/ Stays, NEW S \in SUBSET (1..Len(log))
    PROVE  LiveOf(S)' = LiveOf(S) /\ BlockOf(S)' = BlockOf(S)
<1>1. \A n \in S : log'[n] = log[n]
  BY TypesGive DEF Grows, Stays
<1>2. \A kinds : Of(kinds, S)' = Of(kinds, S) /\ Of(kinds, S) \subseteq S
  BY <1>1 DEF Of
<1>3. \A R \in SUBSET S : Superseded(R)' = Superseded(R)
  BY <1>1 DEF Superseded
<1>4. LiveOf(S)' = LiveOf(S)
  <2>1. Derived(S)' = Derived(S) /\ Derived(S) \in SUBSET S
    BY <1>2 DEF Derived
  <2> QED BY <1>3, <2>1 DEF LiveOf, Superseded
<1>5. BlockOf(S)' = BlockOf(S)
  <2>1. Of({"block"}, S)' = Of({"block"}, S) /\ Of({"block"}, S) \in SUBSET S
    BY <1>2
  <2> QED BY <1>3, <2>1 DEF BlockOf, Superseded, Last
<1> QED BY <1>4, <1>5

\* What a created branch showed of the log so far does not change.
LEMMA PastStays ==
    ASSUME TypeOK, Lineage, Grows \/ Stays, NEW b \in branches, NEW k \in Int, k <= Len(log)
    PROVE  /\ To(b, k)' = To(b, k)
           /\ LiveOf(To(b, k))' = LiveOf(To(b, k))
           /\ BlockOf(To(b, k))' = BlockOf(To(b, k))
<1>1. /\ Len(log) \in Nat /\ Len(log') \in Nat /\ Len(log) <= Len(log')
      /\ \A n \in 1..Len(log) : log'[n] = log[n]
      /\ \A a, n : Shows(b, a, n)' <=> Shows(b, a, n)
  BY TypesGive, ShowsOn DEF Grows, Stays
<1>2. To(b, k)' = To(b, k)
  <2>1. \A n \in 1..Len(log) :
          Shows(b, log[n].branch, n)' <=> Shows(b, log[n].branch, n)
    BY <1>1 DEF Shows
  <2>2. \A n : n \in 1..Len(log') /\ n <= k <=> n \in 1..Len(log) /\ n <= k
    BY <1>1
  <2> QED BY <2>1, <2>2 DEF To, Visible
<1>3. PICK S : S = To(b, k)
  OBVIOUS
<1>4. S \in SUBSET (1..Len(log)) /\ S = To(b, k)'
  BY <1>2, <1>3 DEF To, Visible
<1>5. LiveOf(S)' = LiveOf(S) /\ BlockOf(S)' = BlockOf(S)
  BY <1>4, LivesStay
<1>6. LiveOf(To(b, k))' = LiveOf(S)' /\ BlockOf(To(b, k))' = BlockOf(S)'
  BY <1>4 DEF LiveOf, BlockOf, Derived, Of, Superseded
<1> QED BY <1>2, <1>3, <1>5, <1>6

\* The tip of a branch is an entry it shows, or 0.
LEMMA TipShown ==
    ASSUME LogOK, NEW b
    PROVE  Tip(b) \in Int /\ (Tip(b) = 0 \/ Tip(b) \in Visible(b))
<1> DEFINE T == Visible(b) \cup {0}
<1>1. Len(log) \in Nat
  BY LenProperties DEF LogOK
<1>2. T \in SUBSET (0..Len(log)) /\ T # {}
  BY <1>1 DEF Visible
<1>3. \E x \in T : \A y \in T : y <= x
  <2> HIDE DEF T
  <2> QED BY <1>1, <1>2, MaxExists
<1>4. Tip(b) \in Last(T)
  BY <1>3 DEF Tip, Last
<1> QED BY <1>1, <1>2, <1>4 DEF Last

LEMMA NextTipBounds ==
    ASSUME LogOK', NEW b
    PROVE  Tip(b)' \in Int /\ \A n \in Visible(b)' : n <= Tip(b)'
<1> DEFINE T == Visible(b)' \cup {0}
<1>1. Len(log') \in Nat
  BY LenProperties DEF LogOK
<1>2. T \in SUBSET (0..Len(log')) /\ T # {}
  BY <1>1 DEF Visible
<1>3. \E x \in T : \A y \in T : y <= x
  <2> HIDE DEF T
  <2> QED BY <1>1, <1>2, MaxExists
<1>4. Tip(b)' \in {n \in T : \A m \in T : m <= n}
  BY <1>3 DEF Tip, Last
<1> QED BY <1>1, <1>2, <1>4

\* Up to its tip, or beyond, a branch shows all it shows.
LEMMA AllOfIt ==
    ASSUME LogOK, NEW b, NEW k \in Int, Tip(b) <= k
    PROVE  To(b, k) = Visible(b) /\ LiveOf(To(b, k)) = Live(b) /\ BlockOf(To(b, k)) = Block(b)
<1>1. Tip(b) \in Int /\ Visible(b) \subseteq Int /\ \A n \in Visible(b) : n <= Tip(b)
  BY TipBounds, ReadTypes DEF Numbers
<1>2. To(b, k) = Visible(b)
  BY <1>1 DEF To
<1> QED BY <1>2 DEF LiveOf, Derived, Live, Memories, BlockOf, Block

-----------------------------------------------------------------------------
\* Forks keep the cut-offs before the entries and the ancestors in a chain.
LEMMA ForkKeepsChains ==
    ASSUME TypeOK, Lineage, Chained, NEW b \in Branches, NEW p \in Branches, CreateBranch(b, p)
    PROVE  Chained'
<1>1. PICK n \in 0..Tip(p) :
        limit' = [limit EXCEPT ![b] = [a \in Branches |-> ForkLimit(p, a, n)]]
  BY DEF CreateBranch
<1>2. b \notin branches /\ p \in branches /\ b # p
  BY DEF CreateBranch
<1>3. n \in Nat
  <2>1. Tip(p) \in 0..Len(log) /\ Len(log) \in Nat
    BY TypesGive, TipBounds
  <2> QED BY <1>1, <2>1
<1>4. \A a, c \in Branches : limit[a][c] \in Int
  BY TypesGive
<1>5. /\ \A c \in Branches : limit'[b][c] = ForkLimit(p, c, n)
      /\ \A a \in Branches : a # b => limit'[a] = limit[a]
  BY <1>1, TypesGive DEF LimitTypes
<1>6. /\ limit'[b][p] = n
      /\ \A c \in Branches : c # p /\ limit[p][c] > n => limit'[b][c] = n
      /\ \A c \in Branches : c # p /\ limit[p][c] <= n => limit'[b][c] = limit[p][c]
  BY <1>3, <1>4, <1>5 DEF ForkLimit
<1>7. \A c \in Branches \ {p} : limit'[b][c] <= limit[p][c] /\ limit'[b][c] \in Int
  BY <1>3, <1>4, <1>6
<1>8. \A a \in Branches : limit[a][b] = -1
  BY <1>2 DEF Lineage
<1>9. limit'[b][b] = -1
  BY <1>2, <1>3, <1>6, <1>8
<1>10. ASSUME NEW d \in Branches, NEW a \in Branches, NEW c \in Branches,
              d # a, d # c, a # c, limit'[d][a] >= 0, limit'[d][c] >= 0
       PROVE  limit'[a][c] >= limit'[d][c] \/ limit'[c][a] >= limit'[d][a]
  <2>1. CASE d # b
    <3>1. a # b /\ c # b
      BY <1>5, <1>8, <1>10, <2>1
    <3> QED BY <1>5, <1>10, <2>1, <3>1 DEF Chained
  <2>2. CASE d = b /\ a = p
    <3>1. limit'[a][c] = limit[p][c]
      BY <1>2, <1>5, <2>2
    <3> QED BY <1>4, <1>7, <1>10, <2>2, <3>1
  <2>3. CASE d = b /\ c = p
    <3>1. limit'[c][a] = limit[p][a]
      BY <1>2, <1>5, <2>3
    <3> QED BY <1>4, <1>7, <1>10, <2>3, <3>1
  <2>4. CASE d = b /\ a # p /\ c # p
    <3>1. limit'[a][c] = limit[a][c] /\ limit'[c][a] = limit[c][a]
      BY <1>5, <1>10, <2>4
    <3>2. limit'[b][a] <= limit[p][a] /\ limit'[b][c] <= limit[p][c]
      BY <1>7, <2>4
    <3>3. limit[p][a] >= 0 /\ limit[p][c] >= 0
      BY <1>4, <1>7, <1>10, <2>4, <3>2
    <3>4. limit[a][c] >= limit[p][c] \/ limit[c][a] >= limit[p][a]
      BY <1>10, <2>4, <3>3 DEF Chained
    <3> QED BY <1>4, <1>7, <2>4, <3>1, <3>2, <3>4
  <2> QED BY <2>1, <2>2, <2>3, <2>4
<1> QED BY <1>10 DEF Chained

\* New entries come after the cut-offs of their branch, old ones stay so.
LEMMA EntriesGoOnFollowing ==
    ASSUME TypeOK, Lineage, Provenance, EntriesFollow, Grows \/ Stays
    PROVE  EntriesFollow'
<1>1. /\ Len(log) \in Nat /\ branches \subseteq Branches
      /\ \A b, a \in Branches : limit[b][a] \in Int
  BY TypesGive
<1>2. ASSUME NEW n \in 1..Len(log), NEW a \in Branches
      PROVE  limit'[log'[n].branch][a] < n
  <2>1. log[n].branch \in branches /\ log'[n] = log[n]
    BY TypesGive, ShowsOn DEF Provenance, EntrySound, Grows, Stays
  <2>2. limit'[log[n].branch] = limit[log[n].branch]
    BY <2>1 DEF Grows, Stays
  <2> QED BY <1>2, <2>1, <2>2 DEF EntriesFollow
<1>3. CASE Stays
  BY <1>2, <1>3 DEF EntriesFollow, Stays
<1>4. CASE Grows
  <2>1. \A n \in 1..Len(log') : n \in 1..Len(log) \/ n = Len(log) + 1
    BY <1>1, <1>4 DEF Grows
  <2>2. \A a \in Branches : limit'[log'[Len(log) + 1].branch][a] < Len(log) + 1
    BY <1>1, <1>4 DEF Grows, Lineage
  <2> QED BY <1>2, <2>1, <2>2 DEF EntriesFollow
<1> QED BY <1>3, <1>4

\* What is logged keeps the order of the versions.
LEMMA VersionsLogged ==
    ASSUME TypeOK, Versions, NEW b \in Branches,
           NEW k \in {"message", "derived", "auto", "block", "pruned"},
           NEW n \in Numbers, NEW m \in Numbers, Logged(b, k, n, m),
           k = "auto" => m = 0, k = "block" => m <= Len(log)
    PROVE  Versions'
<1>1. /\ Len(log) \in Nat /\ Len(log') = Len(log) + 1
      /\ \A i \in 1..Len(log) : log'[i] = log[i]
      /\ log'[Len(log) + 1] = [branch |-> b, kind |-> k, source |-> n, supersedes |-> m]
  BY TypesGive, Logging
<1>2. \A i \in 1..Len(log') : i \in 1..Len(log) \/ i = Len(log) + 1
  BY <1>1
<1>3. m \in Int
  BY DEF Numbers
<1> QED BY <1>1, <1>2, <1>3 DEF Versions

-----------------------------------------------------------------------------
\* What a caller that does not move holds stays exact.
LEMMA ReadStaysExact ==
    ASSUME Inv, ReadsExact, Grows \/ Stays, NEW p \in Processes,
           op'[p] = op[p], op[p] # Idle
    PROVE  (\E b \in branches : op[p].branch = b /\ ReadExact(p, b))'
<1>1. PICK b \in branches : op[p].branch = b /\ ReadExact(p, b)
  BY DEF ReadsExact
<1>2. /\ LogOK /\ Len(log) \in Nat /\ Len(log') \in Nat /\ Len(log) <= Len(log')
      /\ b \in branches' /\ Visible(b) \subseteq Visible(b)' /\ LogOK'
  BY TypesGive, ShowsOn DEF Inv, Grows, Stays, LogOK
<1>3. op[p].kind = "block" => op[p].previous \in SUBSET Int
  BY TypesGive DEF Inv, OpTypes, Idle, BlockReads, MemoryReads, States, Numbers
<1>4. op[p].kind = "block" => \A m \in op[p].previous : m <= Len(log')
  BY <1>1, <1>2, <1>3 DEF ReadExact
<1>5. ASSUME op[p].kind \in {"memories", "state"}
      PROVE  /\ op'[p].built <= Len(log')
             /\ op'[p].memories = LiveOf(To(b, op[p].built))'
             /\ op'[p].kind = "state" /\ Tip(b)' <= op'[p].built
                  => op'[p].block = BlockOf(To(b, op[p].built))'
  <2>1. op[p].built \in Nat
    BY <1>5, TypesGive DEF Inv, OpTypes, Idle, BlockReads, MemoryReads, States, Numbers
  <2>2. PICK k \in Nat : k = op[p].built
    BY <2>1
  <2>3. /\ k <= Len(log) /\ op[p].memories = LiveOf(To(b, k))
        /\ op[p].kind = "state" /\ Tip(b) <= k => op[p].block = BlockOf(To(b, k))
    BY <1>1, <1>5, <2>2 DEF ReadExact
  <2>4. /\ LiveOf(To(b, k))' = LiveOf(To(b, k))
        /\ BlockOf(To(b, k))' = BlockOf(To(b, k))
    BY <2>3, PastStays DEF Inv
  <2>5. Tip(b)' <= k => Tip(b) <= k
    <3>1. Tip(b) \in Int /\ (Tip(b) = 0 \/ Tip(b) \in Visible(b))
      BY <1>2, TipShown
    <3>2. Tip(b)' \in Int /\ \A n \in Visible(b)' : n <= Tip(b)'
      BY <1>2, NextTipBounds
    <3> QED BY <1>2, <3>1, <3>2
  <2>6. op'[p].built = k /\ LiveOf(To(b, op[p].built))' = LiveOf(To(b, k))'
        /\ BlockOf(To(b, op[p].built))' = BlockOf(To(b, k))'
    BY <2>2
  <2> QED BY <1>2, <2>2, <2>3, <2>4, <2>5, <2>6
<1>6. ReadExact(p, b)'
  BY <1>4, <1>5 DEF ReadExact
<1> QED BY <1>1, <1>2, <1>6

\* Only one caller moves.
LEMMA OthersStayExact ==
    ASSUME Inv, ReadsExact, Grows \/ Stays, NEW p \in Processes,
           \A q \in Processes : q # p => op'[q] = op[q],
           op'[p] = Idle \/ (\E b \in branches : op[p].branch = b /\ ReadExact(p, b))'
    PROVE  ReadsExact'
<1>1. ASSUME NEW q \in Processes, op'[q] # Idle
      PROVE  (\E b \in branches : op[q].branch = b /\ ReadExact(q, b))'
  <2>1. CASE q = p
    BY <1>1, <2>1
  <2>2. CASE q # p
    BY <1>1, <2>2, ReadStaysExact
  <2> QED BY <2>1, <2>2
<1> QED BY <1>1 DEF ReadsExact

\* A snapshot that keeps its contents stays exact.
LEMMA SnapshotStaysExact ==
    ASSUME Inv, SnapshotsExact, Grows \/ Stays, NEW s \in 1..Len(snapshots),
           snapshots'[s].branch = snapshots[s].branch,
           snapshots'[s].cursor = snapshots[s].cursor,
           snapshots'[s].built = snapshots[s].built,
           snapshots'[s].memories = snapshots[s].memories,
           snapshots'[s].block = snapshots[s].block
    PROVE  (\E b \in branches :
             /\ snapshots[s].branch = b /\ snapshots[s].cursor <= Len(log)
             /\ HoldsExactly(s, b))'
<1>1. PICK b \in branches : /\ snapshots[s].branch = b /\ snapshots[s].cursor <= Len(log)
                            /\ HoldsExactly(s, b)
  BY DEF SnapshotsExact
<1>2. snapshots[s] \in SnapshotRows
  BY TypesGive, ElementOfSeq DEF Inv
<1>3. PICK k \in Nat : k = snapshots[s].cursor
  BY <1>2 DEF SnapshotRows, Numbers
<1>4. /\ Len(log) \in Nat /\ Len(log') \in Nat /\ Len(log) <= Len(log') /\ b \in branches'
  BY TypesGive, ShowsOn DEF Inv, Grows, Stays
<1>5. /\ LiveOf(To(b, k))' = LiveOf(To(b, k))
      /\ BlockOf(To(b, k))' = BlockOf(To(b, k))
  BY <1>1, <1>3, PastStays DEF Inv
<1>6. /\ LiveOf(To(b, snapshots[s].cursor))' = LiveOf(To(b, k))'
      /\ BlockOf(To(b, snapshots[s].cursor))' = BlockOf(To(b, k))'
  BY <1>3
<1>7. HoldsExactly(s, b)'
  BY <1>1, <1>3, <1>5, <1>6 DEF HoldsExactly
<1> QED BY <1>1, <1>3, <1>4, <1>7

LEMMA RestStaysExact ==
    ASSUME Inv, ReadsExact, SnapshotsExact, Grows \/ Stays
    PROVE  /\ op' = op => ReadsExact'
           /\ snapshots' = snapshots => SnapshotsExact'
<1>1. ASSUME op' = op PROVE ReadsExact'
  BY <1>1, ReadStaysExact DEF ReadsExact
<1>2. ASSUME snapshots' = snapshots PROVE SnapshotsExact'
  BY <1>2, SnapshotStaysExact DEF SnapshotsExact
<1> QED BY <1>1, <1>2

LEMMA ExactInitially ==
    ASSUME Init PROVE Exact
<1>1. log = << >> /\ Len(log) = 0 /\ snapshots = << >> /\ Len(snapshots) = 0
  BY DEF Init
<1>2. \A b, a \in Branches : limit[b][a] = -1
  BY DEF Init
<1>3. \A p \in Processes : op[p] = Idle
  BY DEF Init
<1>4. Chained
  BY <1>2 DEF Chained
<1> QED BY <1>1, <1>3, <1>4 DEF Exact, EntriesFollow, Versions, ReadsExact, SnapshotsExact

LEMMA ExactInductive ==
    ASSUME Inv, Exact, [Next]_vars PROVE Exact'
<1> DEFINE Goal == Versions' /\ Chained' /\ ReadsExact' /\ SnapshotsExact'
<1>0. /\ Grows \/ Stays
      /\ TypeOK /\ Lineage /\ Provenance /\ LogOK /\ Len(log) \in Nat
      /\ branches \subseteq Branches /\ op \in OpTypes
      /\ Len(snapshots) \in Nat /\ snapshots \in Seq(SnapshotRows) /\ 0 \in Numbers
  BY InvInductive, TypesGive DEF Inv, Numbers
<1>1. EntriesFollow' /\ (limit' = limit => Chained')
  BY <1>0, EntriesGoOnFollowing DEF Exact, Chained
<1>2. /\ op' = op => ReadsExact'
      /\ snapshots' = snapshots => SnapshotsExact'
      /\ log' = log => Versions'
  BY <1>0, RestStaysExact DEF Exact, Versions
<1>3. ASSUME NEW b \in Branches, NEW n \in Numbers, NEW m \in Numbers,
             NEW k \in {"message", "derived", "auto", "block", "pruned"},
             Logged(b, k, n, m), k = "auto" => m = 0, k = "block" => m <= Len(log)
      PROVE  Versions'
  BY <1>0, <1>3, VersionsLogged DEF Exact
<1>4. ASSUME UNCHANGED <<log, limit, snapshots>>,
             NEW p \in Processes, \A q \in Processes : q # p => op'[q] = op[q],
             op'[p] = Idle \/ (\E b \in branches : op[p].branch = b /\ ReadExact(p, b))'
      PROVE  Goal
  <2>1. ReadsExact'
    BY <1>0, <1>4, OthersStayExact DEF Exact
  <2> QED BY <1>1, <1>2, <1>4, <2>1
<1>5. ASSUME UNCHANGED vars PROVE Goal
  BY <1>1, <1>2, <1>5 DEF vars
<1>6. ASSUME NEW b \in Branches, AppendEvent(b) PROVE Goal
  <2>1. Logged(b, "message", 0, 0) /\ limit' = limit /\ op' = op /\ snapshots' = snapshots
    BY <1>6 DEF AppendEvent
  <2> QED BY <1>0, <1>1, <1>2, <1>3, <2>1
<1>7. ASSUME NEW b \in Branches, DeriveMemory(b) PROVE Goal
  <2>1. PICK n \in Citable(b), m \in Supersedable(b) : Logged(b, "derived", n, m)
    BY <1>7 DEF DeriveMemory
  <2>2. n \in Numbers /\ m \in Numbers
    BY <1>0, ReadTypes DEF Citable, Supersedable
  <2>3. limit' = limit /\ op' = op /\ snapshots' = snapshots
    BY <1>7 DEF DeriveMemory
  <2> QED BY <1>1, <1>2, <1>3, <2>1, <2>2, <2>3
<1>8. ASSUME NEW b \in Branches, NEW p \in Branches, CreateBranch(b, p) PROVE Goal
  <2>1. Chained'
    BY <1>0, <1>8, ForkKeepsChains DEF Exact
  <2>2. log' = log /\ op' = op /\ snapshots' = snapshots
    BY <1>8 DEF CreateBranch
  <2> QED BY <1>2, <2>1, <2>2
<1>9. ASSUME AutoDerive PROVE Goal
  <2>1. PICK n \in 1..Len(log) : Logged(log[n].branch, "auto", n, 0)
    BY <1>9 DEF AutoDerive
  <2>2. n \in Numbers /\ log[n].branch \in Branches
    BY <1>0 DEF LogOK, Numbers, Provenance, EntrySound
  <2>3. limit' = limit /\ op' = op /\ snapshots' = snapshots
    BY <1>9 DEF AutoDerive
  <2> QED BY <1>0, <1>1, <1>2, <1>3, <2>1, <2>2, <2>3
<1>10. ASSUME NEW b \in Branches, NEW s \in 1..Len(snapshots), Prune(b, s) PROVE Goal
  <2>1. /\ Logged(b, "pruned", 0, 0) /\ limit' = limit /\ op' = op
        /\ snapshots' = [snapshots EXCEPT ![s].kept = FALSE]
    BY <1>10 DEF Prune
  <2>2. Len(snapshots') = Len(snapshots)
    BY <1>0, <2>1
  <2>3. ASSUME NEW t \in 1..Len(snapshots)
        PROVE  (\E d \in branches :
                 /\ snapshots[t].branch = d /\ snapshots[t].cursor <= Len(log)
                 /\ HoldsExactly(t, d))'
    <3>1. snapshots[t] \in SnapshotRows
      BY <1>0, ElementOfSeq
    <3>2. /\ snapshots'[t].branch = snapshots[t].branch
          /\ snapshots'[t].cursor = snapshots[t].cursor
          /\ snapshots'[t].built = snapshots[t].built
          /\ snapshots'[t].memories = snapshots[t].memories
          /\ snapshots'[t].block = snapshots[t].block
      BY <1>0, <2>1, <3>1 DEF SnapshotRows
    <3> QED BY <1>0, <3>2, SnapshotStaysExact DEF Exact
  <2>4. SnapshotsExact'
    BY <2>2, <2>3 DEF SnapshotsExact
  <2> QED BY <1>0, <1>1, <1>2, <1>3, <2>1, <2>4
<1>11. ASSUME NEW p \in Processes, NEW b \in Branches, ReadBlock(p, b) PROVE Goal
  <2>1. /\ op'[p] = [kind |-> "block", branch |-> b, previous |-> Block(b)]
        /\ \A q \in Processes : q # p => op'[q] = op[q]
        /\ b \in branches /\ UNCHANGED <<log, branches, limit, snapshots>>
    BY <1>0, <1>11 DEF ReadBlock, OpTypes
  <2>2. \A m \in Block(b) : m <= Len(log)
    BY <1>0, ReadTypes
  <2>3. op'[p].branch = b /\ ReadExact(p, b)'
    BY <2>1, <2>2 DEF ReadExact
  <2>4. b \in branches'
    BY <2>1
  <2> QED BY <1>4, <2>1, <2>3, <2>4
<1>12. ASSUME NEW p \in Processes, WriteBlock(p) PROVE Goal
  <2>1. PICK m \in {0} \cup op[p].previous :
          Logged(op[p].branch, "block", Len(log) + 1, m)
    BY <1>12 DEF WriteBlock
  <2>2. op[p].kind = "block" /\ op[p] \in BlockReads /\ op[p] # Idle
    BY <1>0, <1>12 DEF WriteBlock, OpTypes, Idle, BlockReads, MemoryReads, States
  <2>3. op[p].branch \in Branches /\ m \in Numbers /\ Len(log) + 1 \in Numbers
    BY <1>0, <2>1, <2>2 DEF BlockReads, Numbers, Logged
  <2>4. m <= Len(log)
    BY <1>0, <2>2 DEF Exact, ReadsExact, ReadExact
  <2>5. Versions'
    BY <1>3, <2>1, <2>3, <2>4
  <2>6. /\ limit' = limit /\ snapshots' = snapshots
        /\ op'[p] = Idle /\ \A q \in Processes : q # p => op'[q] = op[q]
    BY <1>0, <1>12 DEF WriteBlock, OpTypes
  <2>7. ReadsExact'
    BY <1>0, <2>6, OthersStayExact DEF Exact
  <2> QED BY <1>1, <1>2, <2>5, <2>6, <2>7
<1>13. ASSUME NEW p \in Processes, NEW b \in Branches, ReadMemories(p, b) PROVE Goal
  <2>1. /\ op'[p] = [kind |-> "memories", branch |-> b, memories |-> Live(b),
                     built |-> Tip(b)]
        /\ \A q \in Processes : q # p => op'[q] = op[q]
        /\ b \in branches /\ UNCHANGED <<log, branches, limit, snapshots>>
    BY <1>0, <1>13 DEF ReadMemories, OpTypes
  <2>2. PICK k \in Nat : k = Tip(b)
    BY <1>0, TipBounds
  <2>3. k <= Len(log) /\ LiveOf(To(b, k)) = Live(b)
    BY <1>0, <2>2, TipBounds, AllOfIt
  <2>4. LiveOf(To(b, k))' = LiveOf(To(b, k))
    BY <1>0, <2>1, <2>3, PastStays
  <2>5. op'[p].branch = b /\ op'[p].kind = "memories" /\ op'[p].built = k
        /\ op'[p].memories = LiveOf(To(b, k))'
    BY <2>1, <2>2, <2>3, <2>4
  <2>6. ReadExact(p, b)'
    BY <2>1, <2>3, <2>5 DEF ReadExact
  <2>7. b \in branches'
    BY <2>1
  <2> QED BY <1>4, <2>1, <2>5, <2>6, <2>7
<1>14. ASSUME NEW p \in Processes, ReadBlocks(p) PROVE Goal
  <2>1. op[p].kind = "memories" /\ op[p] # Idle /\ op[p] \in MemoryReads
    BY <1>0, <1>14 DEF ReadBlocks, OpTypes, Idle, BlockReads, MemoryReads, States
  <2>2. PICK b \in branches : op[p].branch = b /\ ReadExact(p, b)
    BY <2>1 DEF Exact, ReadsExact
  <2>3. PICK k \in Nat : k = op[p].built
    BY <2>1 DEF MemoryReads, Numbers
  <2>4. k <= Len(log) /\ op[p].memories = LiveOf(To(b, k))
    BY <2>1, <2>2, <2>3 DEF ReadExact
  <2>5. /\ op'[p] = [kind |-> "state", branch |-> b, block |-> Block(b),
                     memories |-> op[p].memories, built |-> k]
        /\ \A q \in Processes : q # p => op'[q] = op[q]
        /\ UNCHANGED <<log, branches, limit, snapshots>>
    BY <1>0, <1>14, <2>2, <2>3 DEF ReadBlocks, OpTypes
  <2>6. Tip(b) <= k => Block(b) = BlockOf(To(b, k))
    BY <1>0, AllOfIt
  <2>7. /\ LiveOf(To(b, k))' = LiveOf(To(b, k))
        /\ BlockOf(To(b, k))' = BlockOf(To(b, k))
    BY <1>0, <2>4, PastStays
  <2>8. Tip(b)' = Tip(b)
    BY <2>5 DEF Tip, Visible, Shows
  <2>9. /\ op'[p].branch = b /\ op'[p].kind = "state" /\ op'[p].built = k
        /\ op'[p].memories = LiveOf(To(b, k))' /\ op'[p].block = Block(b)
    BY <2>4, <2>5, <2>7
  <2>10. ReadExact(p, b)'
    BY <2>4, <2>5, <2>6, <2>7, <2>8, <2>9 DEF ReadExact
  <2>11. b \in branches'
    BY <2>5
  <2> QED BY <1>4, <2>5, <2>9, <2>10, <2>11
<1>15. ASSUME NEW p \in Processes, StoreSnapshot(p) PROVE Goal
  <2>1. op[p].kind = "state" /\ op[p] # Idle /\ op[p] \in States
    BY <1>0, <1>15 DEF StoreSnapshot, OpTypes, Idle, BlockReads, MemoryReads, States
  <2>2. PICK b \in branches : op[p].branch = b /\ ReadExact(p, b)
    BY <2>1 DEF Exact, ReadsExact
  <2> DEFINE row == [branch |-> b, cursor |-> Tip(b), memories |-> op[p].memories,
                     block |-> op[p].block, built |-> op[p].built, kept |-> TRUE]
  <2>3. /\ snapshots' = snapshots \o <<row>> /\ op'[p] = Idle
        /\ \A q \in Processes : q # p => op'[q] = op[q]
        /\ UNCHANGED <<log, branches, limit>>
    BY <1>0, <1>15, <2>2 DEF StoreSnapshot, OpTypes, Cursor
  <2>4. ReadsExact'
    BY <1>0, <2>3, OthersStayExact DEF Exact
  <2>5. row \in SnapshotRows
    BY <1>0, <2>1, <2>2, ReadTypes DEF States, SnapshotRows
  <2>6. /\ Len(snapshots') = Len(snapshots) + 1
        /\ \A s \in 1..Len(snapshots) : snapshots'[s] = snapshots[s]
        /\ snapshots'[Len(snapshots) + 1] = row
    <3> HIDE DEF row
    <3> QED BY <1>0, <2>3, <2>5, Appending
  <2>7. ASSUME NEW s \in 1..Len(snapshots)
        PROVE  (\E d \in branches :
                 /\ snapshots[s].branch = d /\ snapshots[s].cursor <= Len(log)
                 /\ HoldsExactly(s, d))'
    BY <1>0, <2>6, SnapshotStaysExact DEF Exact
  <2>8. PICK last \in Nat : last = Len(snapshots) + 1
    BY <1>0
  <2>9. PICK k \in Nat : k = Tip(b)
    BY <1>0, TipBounds
  <2>10. /\ snapshots'[last].branch = b /\ snapshots'[last].cursor = k
         /\ snapshots'[last].memories = op[p].memories
         /\ snapshots'[last].block = op[p].block
         /\ snapshots'[last].built = op[p].built
    BY <2>6, <2>8, <2>9
  <2>11. k <= Len(log)
    BY <1>0, <2>9, TipBounds
  <2>12. ASSUME k <= op[p].built
         PROVE  op[p].memories = LiveOf(To(b, k))' /\ op[p].block = BlockOf(To(b, k))'
    <3>1. PICK c \in Nat : c = op[p].built
      BY <2>1 DEF States, Numbers
    <3>2. op[p].memories = LiveOf(To(b, c)) /\ op[p].block = BlockOf(To(b, c))
      BY <2>1, <2>2, <2>9, <2>12, <3>1 DEF ReadExact
    <3>3. To(b, c) = Visible(b) /\ To(b, k) = Visible(b)
      BY <1>0, <2>9, <2>12, <3>1, AllOfIt
    <3>4. /\ LiveOf(To(b, k))' = LiveOf(To(b, k))
          /\ BlockOf(To(b, k))' = BlockOf(To(b, k))
      BY <1>0, <2>11, PastStays
    <3> QED BY <3>2, <3>3, <3>4
  <2>13. HoldsExactly(last, b)'
    <3>1. /\ LiveOf(To(b, snapshots[last].cursor))' = LiveOf(To(b, k))'
          /\ BlockOf(To(b, snapshots[last].cursor))' = BlockOf(To(b, k))'
      BY <2>10
    <3> QED BY <2>10, <2>12, <3>1 DEF HoldsExactly
  <2>14. SnapshotsExact'
    <3>1. \A s \in 1..Len(snapshots') : s \in 1..Len(snapshots) \/ s = last
      BY <1>0, <2>6, <2>8
    <3>2. b \in branches' /\ snapshots'[last].branch = b /\ snapshots'[last].cursor <= Len(log')
      BY <2>3, <2>10, <2>11
    <3> QED BY <2>7, <2>13, <3>1, <3>2 DEF SnapshotsExact
  <2> QED BY <1>1, <1>2, <2>3, <2>4, <2>14
<1>16. ASSUME NEW p \in Processes, GiveUp(p) PROVE Goal
  <2>1. /\ op'[p] = Idle /\ \A q \in Processes : q # p => op'[q] = op[q]
        /\ UNCHANGED <<log, branches, limit, snapshots>>
    BY <1>0, <1>16 DEF GiveUp, OpTypes
  <2> QED BY <1>4, <2>1
<1>17. Goal
  BY <1>5, <1>6, <1>7, <1>8, <1>9, <1>10, <1>11, <1>12, <1>13, <1>14, <1>15, <1>16
     DEF Next, Step
<1> QED BY <1>1, <1>17 DEF Exact

LEMMA Exactness == Spec => [](Inv /\ Exact)
<1>1. Init => Exact
  BY ExactInitially
<1>2. Inv /\ Exact /\ [Next]_vars => Exact'
  BY ExactInductive
<1> QED BY <1>1, <1>2, Invariance, PTL DEF Spec

-----------------------------------------------------------------------------
\* A branch that can use a snapshot showed, up to its cursor, what the branch
\* of the snapshot did.
LEMMA SharedPast ==
    ASSUME Inv, Exact, NEW b \in branches, NEW a \in branches, NEW k \in Nat,
           Shows(b, a, k)
    PROVE  To(b, k) = To(a, k)
<1>1. /\ limit \in LimitTypes /\ Len(log) \in Nat /\ b \in Branches /\ a \in Branches
      /\ \A d, e \in Branches : limit[d][e] \in Int
      /\ \A n \in 1..Len(log) : log[n].branch \in Branches
  BY TypesGive DEF Inv, Entries
<1>2. ASSUME NEW n \in To(a, k) PROVE n \in To(b, k)
  <2>1. n \in 1..Len(log) /\ n <= k /\ Shows(a, log[n].branch, n)
    BY <1>2 DEF To, Visible
  <2>2. log[n].branch \in Branches /\ n \in Int /\ k \in Int /\ Lineage
    BY <1>1, <2>1 DEF Inv
  <2>3. Shows(b, log[n].branch, n)
    BY <1>1, <2>1, <2>2, Inherits
  <2> QED BY <2>1, <2>3 DEF To, Visible
<1>3. ASSUME NEW n \in To(b, k) PROVE n \in To(a, k)
  <2>1. n \in 1..Len(log) /\ n <= k /\ Shows(b, log[n].branch, n)
    BY <1>3 DEF To, Visible
  <2>2. PICK c \in Branches : c = log[n].branch
    BY <1>1, <2>1
  <2>3. limit[c][a] < n /\ limit[c][b] < n
    BY <1>1, <2>1, <2>2 DEF Exact, EntriesFollow
  <2>4. Shows(a, c, n)
    <3>1. CASE a = b \/ c = a
      BY <2>1, <2>2, <3>1 DEF Shows
    <3>2. CASE a # b /\ c = b
      <4>1. k <= limit[b][a]
        BY <3>2 DEF Shows
      <4> QED BY <1>1, <2>1, <2>3, <3>2, <4>1
    <3>3. CASE a # b /\ c # a /\ c # b
      <4>1. k <= limit[b][a] /\ n <= limit[b][c]
        BY <2>1, <2>2, <3>3 DEF Shows
      <4>2. limit[b][a] >= 0 /\ limit[b][c] >= 0
        BY <1>1, <2>1, <4>1
      <4>3. limit[a][c] >= limit[b][c] \/ limit[c][a] >= limit[b][a]
        BY <1>1, <3>3, <4>2 DEF Exact, Chained
      <4>4. n <= limit[a][c]
        BY <1>1, <2>1, <2>3, <4>1, <4>3
      <4> QED BY <4>4 DEF Shows
    <3> QED BY <3>1, <3>2, <3>3
  <2> QED BY <2>1, <2>2, <2>4 DEF To, Visible
<1> QED BY <1>2, <1>3

\* Replaying the tail over the memories of the past: nothing new supersedes
\* something newer.
LEMMA MemoriesReplayed ==
    ASSUME Inv, Exact, NEW b \in branches, NEW k \in Nat, NEW tail,
           tail = {n \in Visible(b) : n > k}
    PROVE  (LiveOf(To(b, k)) \cup Of({"derived"}, tail)) \ Superseded(Of({"derived"}, tail))
             = Live(b) \ Of({"auto"}, tail)
<1> DEFINE past == Derived(To(b, k))
           new == Of({"derived"}, tail)
           auto == Of({"auto"}, tail)
<1>1. Len(log) \in Nat /\ Visible(b) \subseteq 1..Len(log)
  BY TypesGive DEF Inv, Visible
<1>2. Visible(b) = To(b, k) \cup tail /\ To(b, k) \cap tail = {}
  BY <1>1 DEF To
<1>3. Memories(b) = past \cup new \cup auto
  BY <1>2 DEF Memories, Derived, Of
<1>4. past \cap auto = {} /\ new \cap auto = {} /\ past \cup new \subseteq Visible(b)
  BY <1>2 DEF Derived, Of
<1>5. \A n \in auto : log[n].supersedes = 0
  BY <1>1, <1>2 DEF Exact, Versions, Of
<1>6. ASSUME NEW n \in past, log[n].supersedes # 0 PROVE log[n].supersedes <= n
  <2>1. n \in 1..Len(log) /\ log[n].kind \in {"derived", "auto"} /\ EntrySound(n)
    BY <1>1, <1>2 DEF Derived, Of, Inv, Provenance
  <2> QED BY <1>6, <2>1 DEF EntrySound, Exact, Versions
<1>7. \A n \in past, x \in new : log[n].supersedes # x
  <2> SUFFICES ASSUME NEW n \in past, NEW x \in new, log[n].supersedes = x PROVE FALSE
    OBVIOUS
  <2>1. n \in 1..Len(log) /\ n <= k /\ x \in 1..Len(log) /\ x > k
    BY <1>1, <1>2 DEF Derived, Of, To
  <2> QED BY <1>6, <2>1
<1>8. \A n \in auto, x \in past \cup new : log[n].supersedes # x
  BY <1>1, <1>4, <1>5
<1> HIDE DEF past, new, auto
<1>9. Live(b) = (past \cup new \cup auto) \ Superseded(past \cup new \cup auto)
  BY <1>3 DEF Live
<1>10. LiveOf(To(b, k)) = past \ Superseded(past)
  BY DEF LiveOf, past
<1>11. ((past \ Superseded(past)) \cup new) \ Superseded(new)
         = ((past \cup new \cup auto) \ Superseded(past \cup new \cup auto)) \ auto
  BY <1>4, <1>7, <1>8 DEF Superseded
<1> QED BY <1>9, <1>10, <1>11 DEF new, auto

\* The greatest of a set of numbers is its last.
LEMMA LastIs ==
    ASSUME NEW S \in SUBSET Int, NEW x \in S, \A y \in S : y <= x
    PROVE  Last(S) = {x}
<1>1. \A n \in S : x <= n => n = x
  OBVIOUS
<1> QED BY <1>1 DEF Last

\* The newest update of a block supersedes the rest, and nothing it.
LEMMA BlockReplayed ==
    ASSUME Inv, Exact, NEW b \in branches, NEW k \in Nat, NEW updates,
           updates = Of({"block"}, {n \in Visible(b) : n > k})
    PROVE  Block(b) = IF updates = {} THEN BlockOf(To(b, k)) ELSE Last(updates)
<1> DEFINE past == Of({"block"}, To(b, k))
           all == Of({"block"}, Visible(b))
<1>1. Len(log) \in Nat /\ Visible(b) \subseteq 1..Len(log)
  BY TypesGive DEF Inv, Visible
<1>2. all = past \cup updates /\ (\A n \in past : n <= k) /\ (\A n \in updates : n > k)
      /\ all \subseteq 1..Len(log)
  BY <1>1 DEF To, Of
<1>3. \A n \in all : log[n].supersedes < n
  BY <1>1 DEF Of, Exact, Versions
<1>4. Block(b) = Last(all \ Superseded(all)) /\ BlockOf(To(b, k)) = Last(past \ Superseded(past))
  BY DEF Block, BlockOf
<1>5. \A n \in all : log[n].supersedes \in Int
  <2>1. \A n \in 1..Len(log) : log[n].supersedes \in Int
    BY TypesGive DEF Inv, Entries, Numbers
  <2> QED BY <1>2, <2>1
<1> HIDE DEF past, all
<1>6. CASE updates = {}
  BY <1>2, <1>4, <1>6
<1>7. CASE updates # {}
  <2>1. updates \in SUBSET (0..Len(log))
    BY <1>2
  <2>2. PICK x \in updates : \A y \in updates : y <= x
    BY <1>1, <1>7, <2>1, MaxExists
  <2>3. \A y \in all : y <= x
    BY <1>1, <1>2, <2>2
  <2>4. x \in all \ Superseded(all)
    BY <1>2, <1>3, <1>5, <2>2, <2>3 DEF Superseded
  <2>5. Last(updates) = {x} /\ Last(all \ Superseded(all)) = {x}
    <3>1. updates \in SUBSET Int /\ all \ Superseded(all) \in SUBSET Int
      BY <1>1, <1>2
    <3>2. Last(updates) = {x}
      BY <2>2, <3>1, LastIs
    <3>3. \A y \in all \ Superseded(all) : y <= x
      BY <2>3
    <3> QED BY <2>4, <3>1, <3>2, <3>3, LastIs
  <2> QED BY <1>4, <1>7, <2>5
<1> QED BY <1>6, <1>7

(* Restoring a snapshot that was taken in peace gives what the branch      *)
(* shows now, for whichever branch may use it, after whatever forks,       *)
(* prunes and writes of any branch (create, latest and restore of          *)
(* snapshots.py, _replay, latest_snapshot of storage.py).                  *)
THEOREM RestoringIsExact == Spec => []RestoreAgrees
<1>1. Inv /\ Exact => RestoreAgrees
  <2> SUFFICES ASSUME Inv, Exact, NEW b \in branches, NEW s \in Usable(b),
                      snapshots[s].cursor <= snapshots[s].built
               PROVE  /\ RestoredBlock(b, s) = Block(b)
                      /\ RestoredMemories(b, s) = Live(b) \ Of({"auto"}, ReplayTail(b, s))
    BY DEF RestoreAgrees
  <2>1. s \in 1..Len(snapshots) /\ Shows(b, snapshots[s].branch, snapshots[s].cursor)
    BY DEF Usable, InLineage
  <2>2. PICK a \in branches : snapshots[s].branch = a /\ HoldsExactly(s, a)
    BY <2>1 DEF Exact, SnapshotsExact
  <2>3. PICK k \in Nat : k = snapshots[s].cursor
    <3>1. snapshots[s] \in SnapshotRows
      BY <2>1, TypesGive, ElementOfSeq DEF Inv
    <3> QED BY <3>1 DEF SnapshotRows, Numbers
  <2>4. To(b, k) = To(a, k)
    BY <2>1, <2>2, <2>3, SharedPast
  <2>5. snapshots[s].memories = LiveOf(To(b, k)) /\ snapshots[s].block = BlockOf(To(b, k))
    BY <2>2, <2>3, <2>4 DEF HoldsExactly
  <2>6. PICK tail : tail = {n \in Visible(b) : n > k}
    OBVIOUS
  <2>7. ReplayTail(b, s) = tail
    BY <2>3, <2>6 DEF ReplayTail
  <2>8. RestoredMemories(b, s) = Live(b) \ Of({"auto"}, ReplayTail(b, s))
    <3>1. RestoredMemories(b, s)
            = (LiveOf(To(b, k)) \cup Of({"derived"}, tail)) \ Superseded(Of({"derived"}, tail))
      BY <2>5, <2>7 DEF RestoredMemories, Replayed
    <3> QED BY <2>6, <2>7, <3>1, MemoriesReplayed
  <2>9. RestoredBlock(b, s) = Block(b)
    <3>1. PICK updates : updates = Of({"block"}, {n \in Visible(b) : n > k})
      OBVIOUS
    <3>2. RestoredBlock(b, s) = IF updates = {} THEN BlockOf(To(b, k)) ELSE Last(updates)
      BY <2>5, <2>6, <2>7, <3>1 DEF RestoredBlock
    <3> QED BY <3>1, <3>2, BlockReplayed
  <2> QED BY <2>8, <2>9
<1> QED BY <1>1, Exactness, PTL

-----------------------------------------------------------------------------
(* Branches as private copies: each step of the store is a write to one    *)
(* branch, a fork, or nothing, of BranchPromise.                           *)

\* The views that an entry may lead to.
LEMMA ViewsWithEntry ==
    ASSUME NEW S, NEW L, NEW B, NEW N, NEW m \in {0} \cup S
    PROVE  LET views == Promise!WithEntry([shown |-> S, live |-> L, block |-> B], N)
           IN /\ [shown |-> S \cup {N}, live |-> L, block |-> B] \in views
              /\ [shown |-> S \cup {N}, live |-> L, block |-> {N}] \in views
              /\ [shown |-> S \cup {N}, live |-> (L \ {m}) \cup {N}, block |-> B] \in views
<1> DEFINE old == [shown |-> S, live |-> L, block |-> B]
           grown == [old EXCEPT !.shown = @ \cup {N}]
<1>1. grown = [shown |-> S \cup {N}, live |-> L, block |-> B]
  OBVIOUS
<1>2. PICK T : T = S \cup {N}
  OBVIOUS
<1>3. /\ [[shown |-> T, live |-> L, block |-> B] EXCEPT !.block = {N}]
           = [shown |-> T, live |-> L, block |-> {N}]
      /\ [[shown |-> T, live |-> L, block |-> B] EXCEPT !.live = (@ \ {m}) \cup {N}]
           = [shown |-> T, live |-> (L \ {m}) \cup {N}, block |-> B]
  OBVIOUS
<1>4. old.shown = S
  OBVIOUS
<1> HIDE DEF old
<1>5. /\ grown \in Promise!WithEntry(old, N)
      /\ [grown EXCEPT !.block = {N}] \in Promise!WithEntry(old, N)
      /\ [grown EXCEPT !.live = (@ \ {m}) \cup {N}] \in Promise!WithEntry(old, N)
  BY <1>4 DEF Promise!WithEntry
<1> QED BY <1>1, <1>2, <1>3, <1>5 DEF old

\* An entry of the branch itself is added to what it showed.
LEMMA OwnEntryIsAdded ==
    ASSUME Inv, Exact, NEW b \in branches,
           NEW k \in {"message", "derived", "auto", "block", "pruned"},
           NEW n \in Numbers, NEW m \in Numbers, Logged(b, k, n, m), Grows,
           k \in {"derived", "auto"} => m = 0 \/ m \in Memories(b),
           k = "block" => m <= Len(log),
           NEW size \in Nat, size = Len(log)
    PROVE  View(To(b, size + 1))' \in Promise!WithEntry(View(To(b, size)), size + 1)
<1>1. PICK S : S = To(b, size)
  OBVIOUS
<1>2. PICK N \in Nat : N = size + 1
  OBVIOUS
<1>3. /\ LogOK /\ b \in Branches /\ Len(log') = N
      /\ \A i \in 1..size : log'[i] = log[i]
      /\ log'[N] = [branch |-> b, kind |-> k, source |-> n, supersedes |-> m]
      /\ \A i \in 1..size : log[i] \in Entries
  BY <1>2, TypesGive, Logging DEF Inv
<1>4. S \in SUBSET (1..size) /\ S = Visible(b) /\ N \notin S
  BY <1>1, <1>2, ReadTypes, <1>3 DEF To
<1>5. To(b, size + 1)' = S \cup {N}
  <2>1. \A i \in 1..size : Shows(b, log[i].branch, i)' <=> Shows(b, log[i].branch, i)
    BY <1>3 DEF Shows, Grows
  <2>2. Shows(b, log[N].branch, N)'
    BY <1>3 DEF Shows
  <2>3. Visible(b)' = Visible(b) \cup {N}
    BY <1>2, <1>3, <2>1, <2>2 DEF Visible
  <2> QED BY <1>2, <1>4, <2>3 DEF To
<1>6. \A kinds : Of(kinds, S \cup {N})' = Of(kinds, S) \cup (IF k \in kinds THEN {N} ELSE {})
  BY <1>3, <1>4 DEF Of
<1>7. \A T \in SUBSET S : /\ Superseded(T)' = Superseded(T)
                          /\ Superseded(T \cup {N})' = Superseded(T) \cup {m}
  BY <1>3, <1>4 DEF Superseded
<1>8. LiveOf(S) \in SUBSET S /\ Derived(S) \in SUBSET S /\ Of({"block"}, S) \in SUBSET S
  BY DEF LiveOf, Derived, Of
<1>9. LiveOf(S \cup {N})' = IF k \in {"derived", "auto"} THEN (LiveOf(S) \ {m}) \cup {N}
                            ELSE LiveOf(S)
  <2>1. CASE k \in {"derived", "auto"}
    <3>1. Derived(S \cup {N})' = Derived(S) \cup {N}
      BY <1>6, <2>1 DEF Derived
    <3>2. LiveOf(S \cup {N})' = (Derived(S) \cup {N}) \ (Superseded(Derived(S)) \cup {m})
      BY <1>7, <1>8, <3>1 DEF LiveOf, Superseded
    <3>3. N # m
      BY <1>2, <1>4, <2>1 DEF Memories, Of
    <3>4. ASSUME NEW i \in Derived(S) PROVE log[i].supersedes # N
      <4>1. i \in 1..size /\ log[i].kind \in {"derived", "auto"} /\ EntrySound(i)
        BY <1>4, <3>4 DEF Derived, Of, Inv, Provenance
      <4>2. log[i].supersedes \in Nat
        BY <1>3, <4>1 DEF Entries, Numbers
      <4> QED BY <1>2, <4>1, <4>2 DEF EntrySound, Exact, Versions
    <3>5. N \notin Superseded(Derived(S))
      BY <3>4 DEF Superseded
    <3> QED BY <2>1, <3>2, <3>3, <3>5 DEF LiveOf
  <2>2. CASE k \notin {"derived", "auto"}
    <3>1. Derived(S \cup {N})' = Derived(S)
      <4>1. Of({"derived", "auto"}, S \cup {N})' = Of({"derived", "auto"}, S) \cup {}
        BY <1>6, <2>2, Zenon
      <4> QED BY <4>1 DEF Derived
    <3>2. Superseded(Derived(S))' = Superseded(Derived(S))
      BY <1>7, <1>8, <3>1 DEF Superseded, Derived, Of
    <3>3. LiveOf(S \cup {N})' = Derived(S) \ Superseded(Derived(S))
      BY <1>7, <1>8, <3>1 DEF LiveOf, Superseded
    <3> QED BY <2>2, <3>3 DEF LiveOf
  <2> QED BY <2>1, <2>2
<1>10. BlockOf(S \cup {N})' = IF k = "block" THEN {N} ELSE BlockOf(S)
  <2>0. PICK V : V = Of({"block"}, S)
    OBVIOUS
  <2>1. CASE k = "block"
    <3>1. Of({"block"}, S \cup {N})' = V \cup {N}
      BY <1>6, <2>0, <2>1
    <3>2. V \in SUBSET (1..size)
      BY <1>4, <1>8, <2>0
    <3>3. ASSUME NEW i \in V \cup {N} PROVE log'[i].supersedes # N
      <4>1. CASE i = N
        BY <1>2, <1>3, <2>1, <4>1
      <4>2. CASE i \in V
        <5>1. log[i].supersedes < i /\ log[i].supersedes \in Nat /\ i \in 1..size
          BY <1>3, <2>0, <3>2, <4>2 DEF Of, Exact, Versions, Entries, Numbers
        <5> QED BY <1>2, <1>3, <5>1
      <4> QED BY <3>3, <4>1, <4>2
    <3>4. PICK W : W = (V \cup {N}) \ Superseded(V \cup {N})'
      OBVIOUS
    <3>5. N \in W /\ W \in SUBSET Int /\ \A i \in W : i <= N
      <4>1. N \notin Superseded(V \cup {N})'
        BY <3>3 DEF Superseded
      <4>2. W \subseteq V \cup {N} /\ N \in W
        BY <3>4, <4>1
      <4>3. \A i \in V : i \in Int /\ i <= N
        BY <1>2, <3>2
      <4> QED BY <4>2, <4>3
    <3>6. Last(W) = {N}
      BY <3>5, LastIs
    <3>7. BlockOf(S \cup {N})' = Last(W)
      BY <3>1, <3>4 DEF BlockOf, Superseded, Last
    <3> QED BY <2>1, <3>6, <3>7
  <2>2. CASE k # "block"
    <3>1. Of({"block"}, S \cup {N})' = V \cup {}
      BY <1>6, <2>0, <2>2, Zenon
    <3>2. BlockOf(S \cup {N})' = Last(V \ Superseded(V))
      BY <1>7, <1>8, <2>0, <3>1 DEF BlockOf, Superseded, Last
    <3> QED BY <2>0, <2>2, <3>2 DEF BlockOf
  <2> QED BY <2>1, <2>2
<1>11. View(To(b, size + 1))'
         = [shown |-> S \cup {N}, live |-> LiveOf(S \cup {N})', block |-> BlockOf(S \cup {N})']
  BY <1>5 DEF View, LiveOf, BlockOf, Derived, Of, Superseded, Last
<1>12. View(To(b, size)) = [shown |-> S, live |-> LiveOf(S), block |-> BlockOf(S)]
  BY <1>1 DEF View
<1>13. CASE k \in {"derived", "auto"}
  <2>1. m \in {0} \cup S
    BY <1>4, <1>13 DEF Memories, Of
  <2>2. [shown |-> S \cup {N}, live |-> (LiveOf(S) \ {m}) \cup {N}, block |-> BlockOf(S)]
          \in Promise!WithEntry(View(To(b, size)), N)
    BY <1>12, <2>1, ViewsWithEntry
  <2> QED BY <1>2, <1>9, <1>10, <1>11, <1>13, <2>2
<1>14. CASE k \in {"block", "message", "pruned"}
  <2>1. /\ [shown |-> S \cup {N}, live |-> LiveOf(S), block |-> BlockOf(S)]
             \in Promise!WithEntry(View(To(b, size)), N)
        /\ [shown |-> S \cup {N}, live |-> LiveOf(S), block |-> {N}]
             \in Promise!WithEntry(View(To(b, size)), N)
    BY <1>12, ViewsWithEntry
  <2> QED BY <1>2, <1>9, <1>10, <1>11, <1>14, <2>1
<1> QED BY <1>13, <1>14

\* An entry of another branch leaves what a branch shows as it was.
LEMMA OtherEntryIsHidden ==
    ASSUME Inv, Grows, NEW b \in branches, log'[Len(log) + 1].branch # b,
           NEW size \in Nat, size = Len(log)
    PROVE  View(To(b, size + 1))' = View(To(b, size))
<1>1. Visible(b)' = Visible(b)
  BY OthersEntriesAreHidden DEF Inv, Sees
<1>2. PICK S : S = Visible(b)
  OBVIOUS
<1>3. S \in SUBSET (1..size)
  BY <1>2 DEF Visible
<1>4. To(b, size + 1)' = S /\ To(b, size) = S
  BY <1>1, <1>2, <1>3 DEF To
<1>5. LiveOf(S)' = LiveOf(S) /\ BlockOf(S)' = BlockOf(S)
  BY <1>3, LivesStay DEF Inv
<1>6. View(To(b, size + 1))' = [shown |-> S, live |-> LiveOf(S)', block |-> BlockOf(S)']
  BY <1>4 DEF View, LiveOf, BlockOf, Derived, Of, Superseded, Last
<1> QED BY <1>4, <1>5, <1>6 DEF View

\* What a created branch showed is never rewritten.
LEMMA HistoryIsKept ==
    ASSUME Inv, Grows \/ Stays, NEW b \in branches, NEW k \in 0..Len(log)
    PROVE  View(To(b, k))' = View(To(b, k))
<1>1. k \in Int /\ k <= Len(log)
  BY TypesGive DEF Inv
<1>2. PICK c \in Int : c = k
  BY <1>1
<1> QED BY <1>1, PastStays DEF Inv, View

\* A step that logs an entry of a branch writes to it.
LEMMA LoggingIsAWrite ==
    ASSUME Inv, Grows, NEW b \in branches, log'[Len(log) + 1].branch = b,
           NEW size \in Nat, size = Len(log),
           View(To(b, size + 1))' \in Promise!WithEntry(View(To(b, size)), size + 1)
    PROVE  Promise!Write(b)
<1>1. size = Len(log)
  OBVIOUS
<1>2. Len(log') = size + 1 /\ branches' = branches
  BY <1>1 DEF Grows
<1>3. ASSUME NEW c \in branches
      PROVE  History(c)' = [k \in 0..size + 1 |->
                             IF k <= size THEN History(c)[k]
                             ELSE IF c = b THEN View(To(b, size + 1))' ELSE History(c)[size]]
  <2>1. History(c)' = [k \in 0..size + 1 |-> View(To(c, k))']
    BY <1>2 DEF History
  <2>2. ASSUME NEW k \in 0..size PROVE View(To(c, k))' = History(c)[k]
    BY <1>1, HistoryIsKept DEF History
  <2>3. c # b => View(To(c, size + 1))' = History(c)[size]
    BY <1>1, OtherEntryIsHidden DEF History
  <2>4. \A k \in 0..size + 1 : k \in 0..size \/ (k = size + 1 /\ ~(k <= size))
    OBVIOUS
  <2>5. \A k \in 0..size : k <= size
    OBVIOUS
  <2>6. ASSUME NEW k \in 0..size + 1
        PROVE  View(To(c, k))' = IF k <= size THEN History(c)[k]
                                 ELSE IF c = b THEN View(To(b, size + 1))' ELSE History(c)[size]
    <3>1. CASE k \in 0..size
      BY <2>2, <2>5, <3>1
    <3>2. CASE k = size + 1 /\ ~(k <= size)
      BY <2>3, <3>2
    <3> QED BY <2>4, <3>1, <3>2
  <2> QED BY <2>1, <2>6
<1>4. PICK H : H = [c \in branches |-> History(c)]
  OBVIOUS
<1>5. PICK J : J = [c \in branches |-> History(c)]'
  OBVIOUS
<1>6. H[b][size] = View(To(b, size)) /\ J[b][size + 1] = View(To(b, size + 1))'
  <2>1. History(b)[size] = View(To(b, size))
    BY <1>1 DEF History
  <2>2. size + 1 \in 0..size + 1 /\ ~(size + 1 <= size)
    OBVIOUS
  <2>3. History(b)'[size + 1] = View(To(b, size + 1))'
    BY <1>3, <2>2
  <2> QED BY <1>2, <1>4, <1>5, <2>1, <2>3
<1>7. J = [c \in branches |-> [k \in 0..size + 1 |->
            IF k <= size THEN H[c][k]
            ELSE IF c = b THEN J[b][size + 1] ELSE H[c][size]]]
  <2>1. J = [c \in branches |-> History(c)']
    BY <1>2, <1>5
  <2>2. \A c \in branches : H[c] = History(c)
    BY <1>4
  <2> QED BY <1>3, <1>6, <2>1, <2>2
<1>8. J[b][size + 1] \in Promise!WithEntry(H[b][size], size + 1)
  BY <1>1, <1>6
<1> QED BY <1>1, <1>2, <1>4, <1>5, <1>7, <1>8 DEF Promise!Write

\* A new branch has the history of its parent to the fork point.
LEMMA CreatingIsAFork ==
    ASSUME Inv, NEW b \in Branches, NEW p \in Branches, CreateBranch(b, p)
    PROVE  Promise!Fork(b, p)
<1>1. PICK n \in 0..Tip(p) :
        limit' = [limit EXCEPT ![b] = [a \in Branches |-> ForkLimit(p, a, n)]]
  BY DEF CreateBranch
<1>2. PICK size \in Nat : size = Len(log)
  BY TypesGive DEF Inv
<1>3. n \in 0..size
  <2>1. Tip(p) \in 0..size
    BY <1>2, TypesGive, TipBounds DEF Inv
  <2> QED BY <1>1, <2>1
<1>4. /\ b \notin branches /\ p \in branches /\ branches' = branches \cup {b}
      /\ log' = log /\ Stays
  BY ForkKeepsLineage DEF CreateBranch, Inv
<1>5. /\ \A c \in Branches : limit'[b][c] = ForkLimit(p, c, n)
      /\ \A a, c \in Branches : limit[a][c] \in Int
  BY <1>1, TypesGive DEF LimitTypes, Inv
<1>6. ASSUME NEW j \in 1..size
      PROVE  Shows(b, log[j].branch, j)' <=> Shows(p, log[j].branch, j) /\ j <= n
  <2>1. PICK a \in branches : a = log[j].branch
    BY <1>2, <1>6 DEF Inv, Provenance, EntrySound
  <2>2. a # b /\ a \in Branches
    BY <1>4, <2>1, TypesGive DEF Inv
  <2>3. Shows(b, a, j)' <=> j <= ForkLimit(p, a, n)
    BY <1>5, <2>2 DEF Shows
  <2>4. j <= ForkLimit(p, a, n) <=> Shows(p, a, j) /\ j <= n
    BY <1>3, <1>5, <2>2 DEF Shows, ForkLimit
  <2> QED BY <1>4, <2>1, <2>3, <2>4 DEF Shows
<1>7. Visible(b)' = {j \in Visible(p) : j <= n}
  BY <1>2, <1>4, <1>6 DEF Visible
<1>8. ASSUME NEW k \in 0..size
      PROVE  View(To(b, k))' = View(To(p, IF k <= n THEN k ELSE n))
  <2>1. Visible(p) \in SUBSET (1..size)
    BY <1>2 DEF Visible
  <2>2. PICK S : S = To(p, IF k <= n THEN k ELSE n)
    OBVIOUS
  <2>3. To(b, k)' = S
    BY <1>3, <1>7, <2>1, <2>2 DEF To
  <2>4. S \in SUBSET (1..Len(log))
    BY <1>2, <2>1, <2>2 DEF To
  <2>5. LiveOf(S)' = LiveOf(S) /\ BlockOf(S)' = BlockOf(S)
    BY <1>4, <2>4, LivesStay DEF Inv
  <2>6. View(To(b, k))' = [shown |-> S, live |-> LiveOf(S)', block |-> BlockOf(S)']
    BY <2>3 DEF View, LiveOf, BlockOf, Derived, Of, Superseded, Last
  <2> QED BY <2>2, <2>5, <2>6 DEF View
<1>9. ASSUME NEW c \in branches PROVE History(c)' = History(c)
  <2>1. \A k \in 0..size : View(To(c, k))' = View(To(c, k))
    BY <1>2, <1>4, HistoryIsKept
  <2> QED BY <1>2, <1>4, <2>1 DEF History
<1>10. PICK H : H = [c \in branches |-> History(c)]
  OBVIOUS
<1>11. PICK J : J = [c \in branches |-> History(c)]'
  OBVIOUS
<1>12. History(b)' = [k \in 0..size |-> H[p][IF k <= n THEN k ELSE n]]
  <2>1. H[p] = [k \in 0..size |-> View(To(p, k))]
    BY <1>2, <1>4, <1>10 DEF History
  <2>2. \A k \in 0..size : (IF k <= n THEN k ELSE n) \in 0..size
    BY <1>3
  <2>3. History(b)' = [k \in 0..size |-> View(To(b, k))']
    BY <1>2, <1>4 DEF History
  <2> QED BY <1>8, <2>1, <2>2, <2>3
<1>13. J = [c \in branches \cup {b} |->
             IF c \in branches THEN H[c]
             ELSE [k \in 0..size |-> H[p][IF k <= n THEN k ELSE n]]]
  <2>1. J = [c \in branches \cup {b} |-> History(c)']
    BY <1>4, <1>11
  <2> QED BY <1>9, <1>10, <1>12, <2>1
<1> QED BY <1>2, <1>3, <1>4, <1>10, <1>11, <1>13 DEF Promise!Fork

\* A step that writes nothing and creates no branch shows nothing new.
LEMMA QuietStutters ==
    ASSUME Inv, UNCHANGED <<log, branches, limit>>
    PROVE  UNCHANGED Promise!vars
<1>1. Stays
  BY DEF Stays
<1>2. ASSUME NEW c \in branches PROVE History(c)' = History(c)
  <2>1. \A k \in 0..Len(log) : View(To(c, k))' = View(To(c, k))
    BY <1>1, HistoryIsKept
  <2> QED BY <2>1 DEF History
<1>3. [c \in branches |-> History(c)]' = [c \in branches |-> History(c)]
  BY <1>2
<1> QED BY <1>3 DEF Promise!vars

LEMMA StepsKeepThePromise ==
    ASSUME Inv, Exact, [Next]_vars
    PROVE  [Promise!Next]_Promise!vars
<1>0. PICK size \in Nat : size = Len(log)
  BY TypesGive DEF Inv
<1>1. ASSUME NEW b \in branches, NEW n \in Numbers, NEW m \in Numbers,
             NEW k \in {"message", "derived", "auto", "block", "pruned"},
             Logged(b, k, n, m), UNCHANGED <<branches, limit>>,
             n = 0 \/ n = Len(log) + 1 \/ n \in Visible(b),
             k \in {"derived", "auto"} => m = 0 \/ m \in Memories(b),
             k = "block" => m <= Len(log)
      PROVE  Promise!Next
  <2>1. Grows
    BY <1>1, LoggedSound DEF Inv
  <2>2. View(To(b, size + 1))' \in Promise!WithEntry(View(To(b, size)), size + 1)
    BY <1>0, <1>1, <2>1, OwnEntryIsAdded
  <2>3. log'[Len(log) + 1].branch = b
    <3>1. LogOK /\ b \in Branches
      BY <1>1, TypesGive DEF Inv
    <3>2. log'[Len(log) + 1] = [branch |-> b, kind |-> k, source |-> n, supersedes |-> m]
      BY <1>1, <3>1, Logging
    <3> QED BY <3>2
  <2>4. Promise!Write(b)
    BY <1>0, <2>1, <2>2, <2>3, LoggingIsAWrite
  <2> QED BY <2>4 DEF Promise!Next
<1>2. /\ 0 \in Numbers /\ branches \subseteq Branches /\ op \in OpTypes
      /\ \A b \in Branches : Visible(b) \subseteq Numbers
  BY TypesGive, ReadTypes DEF Inv, Numbers
<1>3. ASSUME NEW b \in Branches, AppendEvent(b) PROVE Promise!Next
  BY <1>1, <1>2, <1>3 DEF AppendEvent
<1>4. ASSUME NEW b \in Branches, DeriveMemory(b) PROVE Promise!Next
  <2>1. PICK n \in Citable(b), m \in Supersedable(b) : Logged(b, "derived", n, m)
    BY <1>4 DEF DeriveMemory
  <2>2. n \in Visible(b) /\ (m = 0 \/ m \in Memories(b)) /\ n \in Numbers /\ m \in Numbers
    BY <1>2, <2>1, ReadTypes, TypesGive DEF Inv, Citable, Supersedable
  <2>3. b \in branches /\ UNCHANGED <<branches, limit>>
    BY <1>4 DEF DeriveMemory
  <2> QED BY <1>1, <2>1, <2>2, <2>3
<1>5. ASSUME NEW b \in Branches, NEW p \in Branches, CreateBranch(b, p) PROVE Promise!Next
  <2>1. Promise!Fork(b, p)
    BY <1>5, CreatingIsAFork
  <2>2. b \in Branches \ branches /\ p \in branches
    BY <1>5 DEF CreateBranch
  <2> QED BY <2>1, <2>2 DEF Promise!Next
<1>6. ASSUME AutoDerive PROVE Promise!Next
  <2>1. PICK n \in 1..Len(log) : Logged(log[n].branch, "auto", n, 0)
    BY <1>6 DEF AutoDerive
  <2>2. log[n].branch \in branches
    BY DEF Inv, Provenance, EntrySound
  <2>3. n \in Visible(log[n].branch) /\ n \in Numbers
    BY <1>2, <2>2 DEF Visible, Shows
  <2>4. UNCHANGED <<branches, limit>>
    BY <1>6 DEF AutoDerive
  <2> QED BY <1>1, <1>2, <2>1, <2>2, <2>3, <2>4
<1>7. ASSUME NEW b \in Branches, NEW s, Prune(b, s) PROVE Promise!Next
  BY <1>1, <1>2, <1>7 DEF Prune
<1>8. ASSUME NEW p \in Processes, WriteBlock(p) PROVE Promise!Next
  <2>1. PICK m \in {0} \cup op[p].previous :
          Logged(op[p].branch, "block", Len(log) + 1, m)
    BY <1>8 DEF WriteBlock
  <2>2. op[p].kind = "block" /\ op[p] \in BlockReads /\ op[p] # Idle
    BY <1>2, <1>8 DEF WriteBlock, OpTypes, Idle, BlockReads, MemoryReads, States
  <2>3. op[p].branch \in branches /\ m \in Numbers /\ Len(log) + 1 \in Numbers
    BY <1>0, <1>2, <2>1, <2>2 DEF BlockReads, Numbers, Logged, Exact, ReadsExact
  <2>4. m <= Len(log)
    BY <1>0, <2>1, <2>2 DEF Exact, ReadsExact, ReadExact
  <2>5. UNCHANGED <<branches, limit>>
    BY <1>8 DEF WriteBlock
  <2> QED BY <1>1, <2>1, <2>3, <2>4, <2>5
<1>9. CASE UNCHANGED <<log, branches, limit>>
  BY <1>9, QuietStutters
<1> QED
  BY <1>3, <1>4, <1>5, <1>6, <1>7, <1>8, <1>9
     DEF Next, Step, ReadBlock, ReadMemories, ReadBlocks, StoreSnapshot, GiveUp, vars

(* The store implements private copies (docs/architecture.md:41-47): from  *)
(* any number of forks of forks, at any point, and with any interleaving   *)
(* of writers, what a branch showed after any entry is never rewritten,    *)
(* and only entries of the branch itself change what it shows next         *)
(* (_lineage_locked, list_memories, get_active_blocks, create_branch).     *)
THEOREM BranchesArePrivateCopies == Spec => PromiseSpec
<1>1. Init => Promise!Init
  <2> SUFFICES ASSUME Init PROVE Promise!Init
    OBVIOUS
  <2>1. log = << >> /\ Len(log) = 0 /\ branches = {Main}
    BY DEF Init
  <2>2. \A b, k : To(b, k) = {}
    BY <2>1 DEF To, Visible
  <2>3. LiveOf({}) = {} /\ BlockOf({}) = {}
    BY DEF LiveOf, Derived, Of, BlockOf, Last
  <2>4. \A b, k : View(To(b, k)) = Promise!Nothing
    BY <2>2, <2>3 DEF View, Promise!Nothing
  <2>5. \A b : History(b) = [k \in 0..0 |-> Promise!Nothing]
    BY <2>1, <2>4 DEF History
  <2> QED BY <2>1, <2>5 DEF Promise!Init
<1>2. Inv /\ Exact /\ [Next]_vars => [Promise!Next]_Promise!vars
  BY StepsKeepThePromise
<1> QED BY <1>1, <1>2, Exactness, PTL DEF Spec, PromiseSpec, Promise!Spec
=============================================================================
