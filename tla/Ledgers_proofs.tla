--------------------------- MODULE Ledgers_proofs ---------------------------
(***************************************************************************)
(* Proofs about what a store keeps besides its events, for any constants:   *)
(* how it is opened (any processes, databases and openings), its tasks (any *)
(* tasks, sessions and callers) and its ledgers of trust (any branches,     *)
(* contents, incidents and callers).                                        *)
(*                                                                         *)
(* Opening: what a process read before others migrated is the difficulty:   *)
(* its version may be old, and its backup newer than that.  Reading ties    *)
(* the version it has to the database and Copying its backup to the         *)
(* version; Kept says that whoever may change the schema finds the copy in  *)
(* place.  Tasks: SourcesGrow.  Trust: LedgersGrow and LinksAgree.          *)
(***************************************************************************)
EXTENDS MCLedgers, TLAPS, FiniteSetTheorems, WellFoundedInduction, SequenceTheorems

-----------------------------------------------------------------------------
(* Opening. *)

Changing == {"base", "unseal", "hash", "seal", "migrate"}
Guarded == {"guard", "events", "compare", "ready", "refused"}
Places == {"closed", "connected", "copying", "copied"} \cup Changing \cup Guarded

OpeningTypes ==
  /\ found \in Founds
  /\ db = [version |-> db.version, has |-> db.has] /\ db.version \in Nat
  /\ at \in [Openers -> Places]
  /\ read \in [Openers -> Nat] /\ DOMAIN copy = Openers
  /\ \A p \in Openers : copy[p] # Nobody => copy[p].version \in Nat
  /\ moved \in [Openers -> BOOLEAN] /\ valid \in [Openers -> BOOLEAN]
  /\ verified \in [Openers -> BOOLEAN]
  /\ damaged \subseteq Parts /\ serving \subseteq Openers

\* A database that needs no migration is not changed at all.
Frozen == found.version >= Current => db = found

Ledgered ==
  /\ \A v \in Int : Taken(v) <=> v \in First..db.version
  /\ \A row \in ledger : row.version \in Int
  /\ \A x, y \in ledger : x.version = y.version => x = y
  /\ \A row \in ledger : row.from = IF row.version = First /\ found.version < First
                                    THEN found.version ELSE row.version - 1
  /\ \A v \in First..db.version : Alters(v) \subseteq db.has
  /\ db.version < First => db.version = found.version

Reading ==
  \A p \in Openers : at[p] \in {"copying", "copied"} \cup Changing =>
    read[p] <= db.version /\ (read[p] < First => read[p] = found.version)

\* A copy is not newer than the version its process has, or others have migrated
\* and this process will not.
Copying ==
  /\ \A p \in Openers :
       /\ at[p] \in {"closed", "connected", "copying"} \cup Guarded => copy[p] = Nobody
       /\ copy[p] # Nobody => copy[p].version <= read[p] \/ read[p] < db.version
  /\ \A row \in ledger : row.backup # Nobody => row.backup.version <= row.from

Safe == found.has = {} \/ found.version >= Current \/ found \in backups
Kept ==
  /\ db # found => Safe
  /\ \A p \in Openers : /\ at[p] = "copied" => Safe \/ copy[p] = found
                        /\ at[p] \in Changing => Safe

\* How far a process has come, the schema has come too.
Reached ==
  \A p \in Openers :
    /\ at[p] \in (Changing \ {"base"}) \cup Guarded => Base \subseteq db.has
    /\ at[p] \in {"seal", "migrate"} \cup Guarded => "hashes" \in db.has
    /\ at[p] \in Guarded => db.version = Current
    /\ at[p] \in {"copying", "copied"} \cup Changing => db.version <= Current
    /\ p \in serving => at[p] \in Guarded

Opened == OpeningTypes /\ Frozen /\ Ledgered /\ Reading /\ Copying /\ Kept /\ Reached

\* While a process verifies and nobody else committed, what it has seen is sound.
Guarding ==
  \A p \in Openers :
    /\ verified[p] => damaged = {}
    /\ Verifying(p) /\ valid[p] /\ ~moved[p] => "events" \notin damaged
    /\ at[p] = "compare" /\ valid[p] /\ ~moved[p] => "artifacts" \notin damaged

----------------------------------------------------------------------------
\* A migration that commits takes the database one version up, whatever its process
\* read before: one that another process has passed is refused.
LEMMA OneVersionUp ==
  ASSUME Opened, NEW p \in Openers, Migrate(p)
  PROVE  /\ Target(p) \in First..Current /\ ~Taken(Target(p))
         /\ db.version < Target(p) /\ db.version' = Target(p)
         /\ \A v \in First..Target(p) : v <= db.version \/ v = Target(p)
         /\ read[p] \in Nat /\ read[p] = db.version
         /\ read[p] = IF Target(p) = First /\ found.version < First
                      THEN found.version ELSE Target(p) - 1
<1>1. at[p] = "migrate" /\ Target(p) <= Current /\ ~Taken(Target(p)) /\ db.version' = Target(p)
  BY DEF Migrate, Steps, Goes
<1>2. read[p] \in Nat /\ db.version \in Nat /\ found.version \in Nat
  BY FoundsAssumption DEF Opened, OpeningTypes
<1>3. read[p] <= db.version /\ (read[p] < First => read[p] = found.version)
  BY <1>1 DEF Opened, Reading, Changing
<1>4. Target(p) \in Int /\ Target(p) >= First /\ Target(p) \notin First..db.version
  BY <1>1, <1>2 DEF Opened, Ledgered, Target, First
<1>5. db.version < First => db.version = found.version
  BY DEF Opened, Ledgered
<1> QED
  BY <1>1, <1>2, <1>3, <1>4, <1>5 DEF Target, First, Current

\* So the ledger goes on from where it was.
LEMMA LedgerGrows ==
  ASSUME Opened, NEW p \in Openers, Migrate(p)
  PROVE  Ledgered'
<1> DEFINE v == Target(p)
           new == Row(v, read[p], copy[p])
<1>1. /\ ledger' = ledger \cup {new} /\ found' = found
      /\ db' = [version |-> v, has |-> db.has \cup Alters(v)]
  BY DEF Migrate, Steps, Goes
<1>2. v \in Int /\ new.version = v /\ new.from = read[p]
  BY OneVersionUp DEF First, Current, Row
<1>3. \A row \in ledger : row.version # v
  BY OneVersionUp DEF Taken
<1>4. \A x \in Int : Taken(x)' <=> x \in First..v
  <2>1. \A x : Taken(x)' <=> Taken(x) \/ x = v
    BY <1>1, <1>2 DEF Taken
  <2>2. \A x \in Int : Taken(x) <=> x \in First..db.version
    BY DEF Opened, Ledgered
  <2> QED
    BY <2>1, <2>2, OneVersionUp DEF First, Current, Opened, OpeningTypes
<1>5. \A row \in ledger' : row.version \in Int
  BY <1>1, <1>2 DEF Opened, Ledgered
<1>6. \A x, y \in ledger' : x.version = y.version => x = y
  BY <1>1, <1>2, <1>3 DEF Opened, Ledgered
<1>7. \A row \in ledger' : row.from = IF row.version = First /\ found.version < First
                                      THEN found.version ELSE row.version - 1
  BY <1>1, <1>2, OneVersionUp DEF Opened, Ledgered
<1>8. \A x \in First..v : Alters(x) \subseteq db'.has
  <2>1. \A x \in First..v : x \in First..db.version \/ x = v
    BY OneVersionUp DEF First, Current, Opened, OpeningTypes
  <2> QED
    BY <2>1, <1>1 DEF Opened, Ledgered
<1> QED
  BY <1>1, <1>2, <1>4, <1>5, <1>6, <1>7, <1>8, OneVersionUp DEF Ledgered, First, Current

\* A copy that is newer than the version of its process stays unnamed.
LEMMA CopiesAreOlder ==
  ASSUME Opened, NEW p \in Openers, Migrate(p)
  PROVE  Copying'
<1> DEFINE v == Target(p)
           new == Row(v, read[p], copy[p])
<1>1. /\ ledger' = ledger \cup {new} /\ copy' = copy /\ read' = [read EXCEPT ![p] = v]
      /\ at[p] = "migrate" /\ at' = [at EXCEPT ![p] = "migrate"] /\ db'.version = v
  BY DEF Migrate, Steps, Goes
<1>2. at' = at
  BY <1>1 DEF Opened, OpeningTypes
<1>3. new.from = read[p] /\ new.backup = copy[p]
  BY DEF Row
<1>4. copy[p] # Nobody => copy[p].version <= read[p]
  <2>1. ~(read[p] < db.version)
    BY OneVersionUp
  <2> QED
    BY <2>1 DEF Opened, Copying
<1>5. ASSUME NEW q \in Openers, q # p, copy[q] # Nobody
      PROVE  copy[q].version <= read'[q] \/ read'[q] < db'.version
  <2>1. read'[q] = read[q] /\ read[q] \in Nat /\ db.version \in Nat /\ v \in Nat
    BY <1>1, <1>5, OneVersionUp DEF Opened, OpeningTypes, First, Current
  <2>2. copy[q].version <= read[q] \/ read[q] < db.version
    BY <1>5 DEF Opened, Copying
  <2> QED
    BY <2>1, <2>2, <1>1, OneVersionUp
<1>6. copy[p] # Nobody => copy[p].version <= read'[p]
  BY <1>1, <1>4, OneVersionUp DEF Opened, OpeningTypes
<1> QED
  BY <1>1, <1>2, <1>3, <1>4, <1>5, <1>6 DEF Opened, Copying

\* What a process read is not ahead of the database.
LEMMA VersionsAreOld ==
  ASSUME Opened, NEW p \in Openers, Migrate(p)
  PROVE  Reading'
<1>1. /\ read' = [read EXCEPT ![p] = Target(p)] /\ found' = found
      /\ at[p] = "migrate" /\ at' = [at EXCEPT ![p] = "migrate"]
  BY DEF Migrate, Steps, Goes
<1>2. at' = at /\ read \in [Openers -> Nat] /\ db.version \in Nat
  BY <1>1 DEF Opened, OpeningTypes
<1>3. SUFFICES ASSUME NEW q \in Openers, at[q] \in {"copying", "copied"} \cup Changing
               PROVE  read'[q] <= db'.version /\ (read'[q] < First => read'[q] = found.version)
  BY <1>1, <1>2 DEF Reading
<1>4. CASE q = p
  BY <1>1, <1>2, <1>4, OneVersionUp DEF First, Current
<1>5. CASE q # p
  <2>1. read'[q] = read[q] /\ read[q] <= db.version /\ (read[q] < First => read[q] = found.version)
    BY <1>1, <1>2, <1>3, <1>5 DEF Opened, Reading
  <2> QED
    BY <2>1, <1>2, OneVersionUp DEF First, Current
<1> QED
  BY <1>4, <1>5

\* What a process may still do to the schema follows from how far it has come,
\* whatever the others did since it read the version.
LEMMA OpenedStays ==
  Opened /\ [NextOpening]_openVars => Opened'
<1> SUFFICES ASSUME Opened, [NextOpening]_openVars PROVE Opened'
  OBVIOUS
<1> USE FoundsAssumption
    DEF Opened, OpeningTypes, Frozen, Ledgered, Reading, Copying, Kept, Reached,
        Steps, Goes, Committed, Quiet, Verdict, openVars, storeVars, ownVars,
        Places, Changing, Guarded, Opening, First, Current, Target, Taken, Row, Alters, Base, Safe, NeedsBackup,
        Verifying, Parts
<1>1. ASSUME NEW p \in Openers, Connect(p) PROVE Opened'
  BY <1>1 DEF Connect
<1>2. ASSUME NEW p \in Openers, FallBack(p) PROVE Opened'
  BY <1>2 DEF FallBack
<1>3. ASSUME NEW p \in Openers, ReadVersion(p) PROVE Opened'
  BY <1>3 DEF ReadVersion
<1>4. ASSUME NEW p \in Openers, CopyDatabase(p) PROVE Opened'
  BY <1>4 DEF CopyDatabase
<1>5. ASSUME NEW p \in Openers, KeepBackup(p) PROVE Opened'
  BY <1>5 DEF KeepBackup
<1>6. ASSUME NEW p \in Openers, ApplyBase(p) PROVE Opened'
  <2>1. OpeningTypes'
    BY <1>6 DEF ApplyBase
  <2>2. Frozen'
    BY <1>6 DEF ApplyBase
  <2>3. Ledgered'
    BY <1>6 DEF ApplyBase
  <2>4. Reading'
    BY <1>6 DEF ApplyBase
  <2>5. Copying'
    BY <1>6 DEF ApplyBase
  <2>6. Kept'
    BY <1>6 DEF ApplyBase
  <2>7. Reached'
    BY <1>6 DEF ApplyBase
  <2> QED
    BY <2>1, <2>2, <2>3, <2>4, <2>5, <2>6, <2>7
<1>7. ASSUME NEW p \in Openers, Unseal(p) PROVE Opened'
  BY <1>7 DEF Unseal
<1>8. ASSUME NEW p \in Openers, HashSnapshots(p) PROVE Opened'
  <2>1. OpeningTypes'
    BY <1>8 DEF HashSnapshots
  <2>2. Frozen'
    BY <1>8 DEF HashSnapshots
  <2>3. Ledgered'
    BY <1>8 DEF HashSnapshots
  <2>4. Reading'
    BY <1>8 DEF HashSnapshots
  <2>5. Copying'
    BY <1>8 DEF HashSnapshots
  <2>6. Kept'
    BY <1>8 DEF HashSnapshots
  <2>7. Reached'
    BY <1>8 DEF HashSnapshots
  <2> QED
    BY <2>1, <2>2, <2>3, <2>4, <2>5, <2>6, <2>7
<1>9. ASSUME NEW p \in Openers, Seal(p) PROVE Opened'
  BY <1>9 DEF Seal
<1>10. ASSUME NEW p \in Openers, Migrate(p) PROVE Opened'
  <2>1. OpeningTypes'
    BY <1>10 DEF Migrate
  <2>2. Frozen'
    BY <1>10 DEF Migrate
  <2>3. Ledgered'
    BY <1>10, LedgerGrows
  <2>4. Reading'
    BY <1>10, VersionsAreOld
  <2>5. Copying'
    BY <1>10, CopiesAreOlder
  <2>6. Kept'
    BY <1>10 DEF Migrate
  <2>7. Reached'
    BY <1>10 DEF Migrate
  <2> QED
    BY <2>1, <2>2, <2>3, <2>4, <2>5, <2>6, <2>7
<1>11. ASSUME NEW p \in Openers, Migrated(p) PROVE Opened'
  BY <1>11 DEF Migrated
<1>12. ASSUME NEW p \in Openers, Close(p) PROVE Opened'
  BY <1>12 DEF Close
<1>13. ASSUME NEW p \in Openers, Guard(p) PROVE Opened'
  BY <1>13 DEF Guard
<1>14. ASSUME NEW p \in Openers, VerifyEvents(p) PROVE Opened'
  BY <1>14 DEF VerifyEvents
<1>15. ASSUME NEW p \in Openers, VerifyArtifacts(p) PROVE Opened'
  BY <1>15 DEF VerifyArtifacts
<1>16. ASSUME NEW p \in Openers, Trust(p) PROVE Opened'
  BY <1>16 DEF Trust
<1>17. ASSUME NEW p \in Openers, TryAgain(p) PROVE Opened'
  BY <1>17 DEF TryAgain
<1>18. ASSUME NEW p \in Openers, Mismatch(p) PROVE Opened'
  BY <1>18 DEF Mismatch
<1>19. ASSUME NEW p \in Openers, AskAgain(p) PROVE Opened'
  BY <1>19 DEF AskAgain
<1>20. ASSUME NEW p \in Openers, Write(p) PROVE Opened'
  BY <1>20 DEF Write
<1>21. ASSUME NEW part \in Parts, Damage(part) PROVE Opened'
  BY <1>21 DEF Damage
<1>22. CASE UNCHANGED openVars
  BY <1>22
<1> QED
  BY <1>1, <1>2, <1>3, <1>4, <1>5, <1>6, <1>7, <1>8, <1>9, <1>10, <1>11, <1>12, <1>13,
     <1>14, <1>15, <1>16, <1>17, <1>18, <1>19, <1>20, <1>21, <1>22 DEF NextOpening

\* Only an undamaged database is ever recorded as verified: a change after the
\* verification began is noticed, and one before it is seen.
LEMMA GuardingStays ==
  OpeningTypes /\ Guarding /\ [NextOpening]_openVars => Guarding'
<1> SUFFICES ASSUME OpeningTypes, Guarding, [NextOpening]_openVars PROVE Guarding'
  OBVIOUS
<1> USE DEF OpeningTypes, Guarding, Steps, Goes, Committed, Quiet, Verdict, openVars, storeVars, ownVars,
        Places, Changing, Guarded, Opening, First, Current, Verifying, Parts
<1>1. ASSUME NEW p \in Openers, Connect(p) PROVE Guarding'
  BY <1>1 DEF Connect
<1>2. ASSUME NEW p \in Openers, FallBack(p) PROVE Guarding'
  BY <1>2 DEF FallBack
<1>3. ASSUME NEW p \in Openers, ReadVersion(p) PROVE Guarding'
  BY <1>3 DEF ReadVersion
<1>4. ASSUME NEW p \in Openers, CopyDatabase(p) PROVE Guarding'
  BY <1>4 DEF CopyDatabase
<1>5. ASSUME NEW p \in Openers, KeepBackup(p) PROVE Guarding'
  BY <1>5 DEF KeepBackup
<1>6. ASSUME NEW p \in Openers, ApplyBase(p) PROVE Guarding'
  BY <1>6 DEF ApplyBase
<1>7. ASSUME NEW p \in Openers, Unseal(p) PROVE Guarding'
  BY <1>7 DEF Unseal
<1>8. ASSUME NEW p \in Openers, HashSnapshots(p) PROVE Guarding'
  BY <1>8 DEF HashSnapshots
<1>9. ASSUME NEW p \in Openers, Seal(p) PROVE Guarding'
  BY <1>9 DEF Seal
<1>10. ASSUME NEW p \in Openers, Migrate(p) PROVE Guarding'
  BY <1>10 DEF Migrate
<1>11. ASSUME NEW p \in Openers, Migrated(p) PROVE Guarding'
  BY <1>11 DEF Migrated
<1>12. ASSUME NEW p \in Openers, Close(p) PROVE Guarding'
  BY <1>12 DEF Close
<1>13. ASSUME NEW p \in Openers, Guard(p) PROVE Guarding'
  BY <1>13 DEF Guard
<1>14. ASSUME NEW p \in Openers, VerifyEvents(p) PROVE Guarding'
  BY <1>14 DEF VerifyEvents
<1>15. ASSUME NEW p \in Openers, VerifyArtifacts(p) PROVE Guarding'
  BY <1>15 DEF VerifyArtifacts
<1>16. ASSUME NEW p \in Openers, Trust(p) PROVE Guarding'
  <2>1. damaged = {}
    BY <1>16 DEF Trust, Unchanged
  <2> QED
    BY <2>1, <1>16 DEF Trust
<1>17. ASSUME NEW p \in Openers, TryAgain(p) PROVE Guarding'
  BY <1>17 DEF TryAgain
<1>18. ASSUME NEW p \in Openers, Mismatch(p) PROVE Guarding'
  BY <1>18 DEF Mismatch
<1>19. ASSUME NEW p \in Openers, AskAgain(p) PROVE Guarding'
  BY <1>19 DEF AskAgain
<1>20. ASSUME NEW p \in Openers, Write(p) PROVE Guarding'
  BY <1>20 DEF Write
<1>21. ASSUME NEW part \in Parts, Damage(part) PROVE Guarding'
  BY <1>21 DEF Damage
<1>22. CASE UNCHANGED openVars
  BY <1>22
<1> QED
  BY <1>1, <1>2, <1>3, <1>4, <1>5, <1>6, <1>7, <1>8, <1>9, <1>10, <1>11, <1>12, <1>13,
     <1>14, <1>15, <1>16, <1>17, <1>18, <1>19, <1>20, <1>21, <1>22 DEF NextOpening

LEMMA InitiallyOpened ==
  InitOpening => Opened /\ Guarding
<1> SUFFICES ASSUME InitOpening PROVE Opened /\ Guarding
  OBVIOUS
<1>1. found \in Founds /\ db = found /\ ledger = {Row(v, v - 1, Nobody) : v \in First..found.version}
  BY DEF InitOpening
<1>2. OpeningTypes
  BY FoundsAssumption DEF InitOpening, OpeningTypes, Places, Changing
<1>3. Frozen /\ Kept
  BY DEF InitOpening, Frozen, Kept, Changing
<1>4. Reading /\ Reached /\ Guarding
  BY DEF InitOpening, Reading, Reached, Guarding, Changing, Guarded, Verifying
<1>5. \A row \in ledger : /\ row.version \in First..found.version /\ row.from = row.version - 1
                          /\ row.backup = Nobody /\ row = Row(row.version, row.version - 1, Nobody)
  BY <1>1 DEF Row
<1>6. Copying
  BY <1>5 DEF InitOpening, Copying
<1>7. \A v \in Int : Taken(v) <=> v \in First..found.version
  <2>1. ASSUME NEW v \in First..found.version PROVE Taken(v)
    <3>1. Row(v, v - 1, Nobody) \in ledger /\ Row(v, v - 1, Nobody).version = v
      BY <1>1 DEF Row
    <3> QED
      BY <3>1 DEF Taken
  <2>2. ASSUME NEW v, Taken(v) PROVE v \in First..found.version
    BY <2>2, <1>5 DEF Taken
  <2> QED
    BY <2>1, <2>2
<1>8. Ledgered
  <2>1. found.version \in Nat /\ \A v \in First..found.version : Alters(v) \subseteq found.has
    BY <1>1, FoundsAssumption
  <2>2. \A row \in ledger : row.version \in Int /\ row.version >= First /\ row.version <= found.version
    BY <1>5, <2>1 DEF First
  <2>3. \A x, y \in ledger : x.version = y.version => x = y
    BY <1>5
  <2>4. \A row \in ledger : row.from = IF row.version = First /\ found.version < First
                                       THEN found.version ELSE row.version - 1
    BY <1>5, <2>1, <2>2
  <2> QED
    BY <1>1, <1>7, <2>1, <2>2, <2>3, <2>4 DEF Ledgered
<1> QED
  BY <1>2, <1>3, <1>4, <1>6, <1>8 DEF Opened

\* Every reachable state is described by the three invariants.
LEMMA AlwaysOpened == SpecOpening => [](Opened /\ Guarding)
<1>1. InitOpening => Opened /\ Guarding
  BY InitiallyOpened
<1>2. Opened /\ Guarding /\ [NextOpening]_openVars => (Opened /\ Guarding)'
  BY OpenedStays, GuardingStays DEF Opened
<1> QED
  BY <1>1, <1>2, PTL DEF SpecOpening

----------------------------------------------------------------------------
\* Whoever changed an existing schema, a copy of the database as it was found lies
\* beside it, and no row of the ledger names a copy newer than what it migrated:
\* for any number of processes that open it, die and open it again.
\* (_initialize, _create_schema_backup.)
THEOREM CopyComesFirst == SpecOpening => []BackupBeforeChange
<1>1. Opened => BackupBeforeChange
  BY FoundsAssumption DEF Opened, OpeningTypes, Frozen, Kept, Copying, Safe, BackupBeforeChange, Current
<1> QED
  BY <1>1, AlwaysOpened, PTL

\* The ledger has one row for every version that was passed, each from the one
\* before, and a store that serves has the whole schema.  (_apply_schema_migrations.)
THEOREM LedgerIsTheHistory == SpecOpening => []HistoryComplete
<1>1. Opened => HistoryComplete
  BY DEF Opened, OpeningTypes, Ledgered, Reached, HistoryComplete, Taken, Guarded, First, Current
<1> QED
  BY <1>1, AlwaysOpened, PTL

\* A store takes its data for verified only while it is undamaged, however many
\* others commit and whatever they damage while it verifies.  (assert_integrity.)
THEOREM TrustIsEarned == SpecOpening => []VerifiedIsSound
<1>1. Guarding => VerifiedIsSound
  BY DEF Guarding, VerifiedIsSound
<1> QED
  BY <1>1, AlwaysOpened, PTL

-----------------------------------------------------------------------------
(* Tasks.  Every version of a task keeps the sources of the one before it,  *)
(* so what no source of the current version names no earlier one named.     *)

TaskRow == [branch : W!Branches, session : Sessions \cup {None},
            origin : {"untrusted", "operator", "agent"}]

Version == [status : W!Statuses, sources : SUBSET Nat, evidence : Nat,
            override : SUBSET Nat]

TaskTypes ==
  /\ log \in Seq(TaskRow)
  /\ inherited \in [W!Branches -> SUBSET Nat]
  /\ versions \in [Tasks -> Seq(Version)]

SourcesGrow ==
  \A t \in Tasks : \A i, j \in DOMAIN versions[t] :
    i <= j => versions[t][i].sources \subseteq versions[t][j].sources

LEMMA AppendedRow ==
  ASSUME NEW S, NEW s \in Seq(S), NEW e \in S
  PROVE  /\ Append(s, e) \in Seq(S) /\ Len(s) \in Nat
         /\ Len(Append(s, e)) = Len(s) + 1
         /\ DOMAIN Append(s, e) = 1..(Len(s) + 1) /\ DOMAIN s = 1..Len(s)
         /\ \A i \in 1..Len(s) : Append(s, e)[i] = s[i]
         /\ Append(s, e)[Len(s) + 1] = e
  BY AppendProperties, LenProperties

\* A version that keeps the sources of the current one and cites something new.
LEMMA NewVersion ==
  ASSUME TaskTypes, SourcesGrow, EvidenceMovesOnce, NEW t \in Tasks, NEW v \in Version,
         versions' = [versions EXCEPT ![t] = Append(versions[t], v)],
         versions[t] # << >> => W!Current(t).sources \subseteq v.sources,
         versions[t] # << >> => v.evidence \notin W!Current(t).sources
  PROVE  /\ versions' \in [Tasks -> Seq(Version)]
         /\ SourcesGrow' /\ EvidenceMovesOnce'
<1> DEFINE s == versions[t]
<1>1. s \in Seq(Version) /\ versions' = [versions EXCEPT ![t] = Append(s, v)]
  BY DEF TaskTypes
<1>2. /\ Append(s, v) \in Seq(Version) /\ Len(s) \in Nat
      /\ DOMAIN Append(s, v) = 1..(Len(s) + 1) /\ DOMAIN s = 1..Len(s)
      /\ \A i \in 1..Len(s) : Append(s, v)[i] = s[i]
      /\ Append(s, v)[Len(s) + 1] = v
  <2> HIDE DEF s
  <2> QED BY <1>1, AppendedRow
<1>3. \A i \in 1..Len(s) : s[i].sources \subseteq v.sources /\ v.evidence \notin s[i].sources
  <2> SUFFICES ASSUME NEW i \in 1..Len(s)
               PROVE  s[i].sources \subseteq v.sources /\ v.evidence \notin s[i].sources
    OBVIOUS
  <2>1. s # << >> /\ Len(s) \in 1..Len(s) /\ i <= Len(s)
    BY <1>1, <1>2, EmptySeq
  <2>2. s[i].sources \subseteq s[Len(s)].sources
    BY <1>2, <2>1 DEF SourcesGrow
  <2>3. s[Len(s)].sources \subseteq v.sources /\ v.evidence \notin s[Len(s)].sources
    BY <2>1 DEF W!Current
  <2> QED BY <2>2, <2>3
<1>4. /\ versions'[t] = Append(s, v)
      /\ \A u \in Tasks : u # t => versions'[u] = versions[u]
  BY <1>1 DEF TaskTypes
<1>5. versions' \in [Tasks -> Seq(Version)]
  BY <1>1, <1>2 DEF TaskTypes
<1> HIDE DEF s
<1>6. SourcesGrow'
  <2> SUFFICES ASSUME NEW u \in Tasks, NEW i \in DOMAIN versions'[u],
                      NEW j \in DOMAIN versions'[u], i <= j
               PROVE  versions'[u][i].sources \subseteq versions'[u][j].sources
    BY DEF SourcesGrow
  <2>1. CASE u # t
    BY <1>4, <2>1 DEF SourcesGrow
  <2>2. CASE u = t
    <3>1. \A m, n \in 1..Len(s) : m <= n => s[m].sources \subseteq s[n].sources
      BY <1>2 DEF SourcesGrow, s
    <3>2. i \in 1..Len(s) + 1 /\ j \in 1..Len(s) + 1 /\ versions'[t] = Append(s, v)
      BY <1>2, <1>4, <2>2
    <3>3. CASE j \in 1..Len(s)
      <4>1. i \in 1..Len(s)
        BY <1>2, <3>2, <3>3
      <4> QED BY <1>2, <2>2, <3>1, <3>2, <3>3, <4>1
    <3>4. CASE j = Len(s) + 1
      BY <1>2, <1>3, <2>2, <3>2, <3>4
    <3> QED BY <1>2, <3>2, <3>3, <3>4
  <2> QED BY <2>1, <2>2
<1>7. EvidenceMovesOnce'
  <2> SUFFICES ASSUME NEW u \in Tasks, NEW i \in DOMAIN versions'[u],
                      NEW j \in DOMAIN versions'[u], i < j
               PROVE  versions'[u][j].evidence \notin versions'[u][i].sources
    BY DEF EvidenceMovesOnce, W!EvidenceMovesOnce
  <2>1. CASE u # t
    BY <1>4, <2>1 DEF EvidenceMovesOnce, W!EvidenceMovesOnce
  <2>2. CASE u = t
    <3>1. \A m, n \in 1..Len(s) : m < n => s[n].evidence \notin s[m].sources
      BY <1>2 DEF EvidenceMovesOnce, W!EvidenceMovesOnce, s
    <3>2. i \in 1..Len(s) /\ j \in 1..Len(s) + 1 /\ versions'[t] = Append(s, v)
      BY <1>2, <1>4, <2>2
    <3>3. CASE j \in 1..Len(s)
      BY <1>2, <2>2, <3>1, <3>2, <3>3
    <3>4. CASE j = Len(s) + 1
      BY <1>2, <1>3, <2>2, <3>2, <3>4
    <3> QED BY <1>2, <3>2, <3>3, <3>4
  <2> QED BY <2>1, <2>2
<1> QED BY <1>5, <1>6, <1>7

\* What tasks and branches show are numbers of events.
LEMMA ShownAreNumbers ==
  ASSUME TaskTypes, NEW b \in W!Branches
  PROVE  W!Visible(b) \in SUBSET Nat /\ Len(log) \in Nat
  BY LenProperties DEF TaskTypes, W!Visible

\* A change of status, with whatever rows its caller appends before it.
LEMMA MoveKeeps ==
  ASSUME TaskTypes, SourcesGrow, EvidenceMovesOnce, NEW t \in Tasks,
         NEW status \in W!Statuses, NEW reopen, NEW rows \in Seq(TaskRow),
         NEW evidence, NEW override, W!Move(t, status, reopen, rows, evidence, override)
  PROVE  (TaskTypes /\ SourcesGrow /\ EvidenceMovesOnce)'
<1> DEFINE events == Append(log \o rows, W!Row(t, None, "untrusted"))
           last == Len(events)
           v == [status |-> status, sources |-> W!Current(t).sources \cup {evidence, last},
                 evidence |-> evidence, override |-> override]
<1>1. /\ versions[t] # << >> /\ W!Overridden(t, status, override)
      /\ evidence \in W!Visible(t) \cup (Len(log) + 1)..Len(log \o rows)
      /\ W!Unused(t, evidence)
      /\ log' = events /\ inherited' = inherited
      /\ versions' = [versions EXCEPT ![t] = Append(versions[t], v)]
  BY DEF W!Move
<1>2. t \in W!Branches /\ log \in Seq(TaskRow) /\ versions[t] \in Seq(Version)
  BY DEF W!Branches, TaskTypes
<1>3. log \o rows \in Seq(TaskRow) /\ Len(log \o rows) \in Nat /\ Len(log) \in Nat
  BY <1>2, ConcatProperties, LenProperties
<1>4. W!Row(t, None, "untrusted") \in TaskRow
  BY <1>2 DEF W!Row, TaskRow
<1>5. events \in Seq(TaskRow) /\ last \in Nat
  BY <1>3, <1>4, AppendedRow
<1>6. evidence \in Nat /\ override \in SUBSET Nat
  <2>1. W!Visible(t) \in SUBSET Nat
    BY <1>2, ShownAreNumbers
  <2> QED BY <1>1, <1>3, <2>1 DEF W!Overridden, W!Obligations
<1>7. W!Current(t) \in Version
  BY <1>1, <1>2, EmptySeq, LenProperties, ElementOfSeq DEF W!Current
<1>8. v \in Version
  <2> HIDE DEF events, last
  <2> QED BY <1>5, <1>6, <1>7 DEF Version
<1>9. v.evidence \notin W!Current(t).sources /\ W!Current(t).sources \subseteq v.sources
  BY <1>1 DEF W!Unused
<1> HIDE DEF v
<1>10. versions' \in [Tasks -> Seq(Version)] /\ SourcesGrow' /\ EvidenceMovesOnce'
  BY <1>1, <1>8, <1>9, NewVersion
<1> QED BY <1>1, <1>5, <1>10 DEF TaskTypes

LEMMA TasksStep ==
  TaskTypes /\ SourcesGrow /\ EvidenceMovesOnce /\ [W!WsNext]_(W!wsVars)
    => (TaskTypes /\ SourcesGrow /\ EvidenceMovesOnce)'
<1> SUFFICES ASSUME TaskTypes, SourcesGrow, EvidenceMovesOnce, [W!WsNext]_(W!wsVars)
             PROVE  (TaskTypes /\ SourcesGrow /\ EvidenceMovesOnce)'
  OBVIOUS
<1> DEFINE Goal == (TaskTypes /\ SourcesGrow /\ EvidenceMovesOnce)'
<1>0. log \in Seq(TaskRow) /\ Len(log) \in Nat /\ << >> \in Seq(TaskRow)
  BY LenProperties DEF TaskTypes
<1>1. ASSUME UNCHANGED versions, (log \in Seq(TaskRow))',
             (inherited \in [W!Branches -> SUBSET Nat])'
      PROVE  Goal
  BY <1>1 DEF TaskTypes, SourcesGrow, EvidenceMovesOnce, W!EvidenceMovesOnce
<1>2. ASSUME NEW b \in W!Branches, NEW o \in {"untrusted", "operator", "agent"}
      PROVE  W!Row(b, None, o) \in TaskRow /\ Append(log, W!Row(b, None, o)) \in Seq(TaskRow)
             /\ <<W!Row(b, None, o)>> \in Seq(TaskRow)
  <2>1. W!Row(b, None, o) \in TaskRow
    BY DEF W!Row, TaskRow
  <2> QED BY <1>0, <2>1, AppendedRow
<1>3. CASE UNCHANGED W!wsVars
  BY <1>0, <1>1, <1>3 DEF W!wsVars, TaskTypes
<1>4. ASSUME NEW t \in Tasks, NEW parent \in W!Branches, W!Start(t, parent) PROVE Goal
  <2> DEFINE v == W!FirstVersion(Len(log) + 1)
  <2>1. /\ versions[t] = << >> /\ log' = Append(log, W!Row(t, None, "untrusted"))
        /\ inherited' = [inherited EXCEPT ![t] = W!Visible(parent)]
        /\ versions' = [versions EXCEPT ![t] = <<v>>]
    BY <1>4 DEF W!Start, W!StartWith
  <2>2. v \in Version /\ <<v>> = Append(versions[t], v)
    BY <1>0, <2>1 DEF W!FirstVersion, Version, W!Statuses
  <2>3. versions' \in [Tasks -> Seq(Version)] /\ SourcesGrow' /\ EvidenceMovesOnce'
    <3> HIDE DEF v
    <3> QED BY <2>1, <2>2, NewVersion
  <2>4. log' \in Seq(TaskRow) /\ inherited' \in [W!Branches -> SUBSET Nat]
    BY <1>2, <2>1, ShownAreNumbers DEF W!Branches, TaskTypes
  <2> QED BY <2>3, <2>4 DEF TaskTypes
<1>5. ASSUME NEW t \in Tasks, NEW s \in Sessions, W!StartExisting(t, s) PROVE Goal
  BY <1>0, <1>1, <1>5 DEF W!StartExisting, TaskTypes
<1>6. ASSUME NEW t \in Tasks, NEW status \in W!Statuses, NEW reopen, NEW evidence,
             NEW override,
             \/ W!Move(t, status, reopen, << >>, evidence, override)
             \/ W!Move(t, status, reopen, <<W!Row(t, None, "operator")>>, evidence, override)
             \/ W!Move(t, status, reopen, <<W!Row(t, None, "untrusted")>>, evidence, override)
      PROVE  Goal
  BY <1>0, <1>2, <1>6, MoveKeeps DEF W!Branches
<1>7. ASSUME NEW t \in Tasks, NEW status \in W!Statuses, NEW override,
             \/ \E n \in DOMAIN log : W!SetStatus(t, status, n, override)
             \/ W!SetStatusAsOperator(t, status, override)
             \/ W!SetStatusUnproved(t, status)
      PROVE  Goal
  BY <1>6, <1>7 DEF W!SetStatus, W!SetStatusAsOperator, W!SetStatusUnproved
<1>8. ASSUME NEW t \in Tasks, W!ReopenAsOperator(t) \/ \E n \in DOMAIN log : W!Reopen(t, n)
      PROVE  Goal
  <2>1. "active" \in W!Statuses
    BY DEF W!Statuses
  <2> QED BY <1>6, <1>8, <2>1 DEF W!ReopenAsOperator, W!Reopen
<1>9. ASSUME NEW b \in W!Branches, W!Detect(b) PROVE Goal
  BY <1>1, <1>2, <1>9 DEF W!Detect, TaskTypes
<1>10. ASSUME NEW b \in W!Branches, NEW o \in {"untrusted", "operator", "agent"},
              W!AppendOther(b, o)
       PROVE  Goal
  BY <1>1, <1>2, <1>10 DEF W!AppendOther, TaskTypes
<1>11. ASSUME NEW n \in W!Numbers, W!Settle(n) \/ W!Undo(n) PROVE Goal
  BY <1>0, <1>1, <1>11 DEF W!Settle, W!Undo, TaskTypes
<1> QED
  BY <1>3, <1>4, <1>5, <1>7, <1>8, <1>9, <1>10, <1>11 DEF W!WsNext

(* One piece of evidence moves a task at most once, for any tasks, callers *)
(* and delegation: what a version cites was among the sources of no earlier *)
(* one (create_task_version of task_storage.py, set_status of tasks.py).    *)
THEOREM EvidenceIsSpentOnce == W!WsSpec => []EvidenceMovesOnce
<1>1. W!WsInit => TaskTypes /\ SourcesGrow /\ EvidenceMovesOnce
  BY DEF W!WsInit, TaskTypes, SourcesGrow, EvidenceMovesOnce, W!EvidenceMovesOnce
<1> QED BY <1>1, TasksStep, PTL DEF W!WsSpec

-----------------------------------------------------------------------------
(* Trust.  The ledgers only grow, so what a settled entry cites stays what  *)
(* it was: an event that its branch shows, of the origin it was appended    *)
(* with.  A link joins a candidate and a memory of one content.             *)

TrustRow == [branch : T!Branches, kind : {"message", "state"}, mark : Contents \cup {None},
             origin : Callers \cup {"user", "untrusted", "bootstrap"}]
EntryOf == [status : T!CandidateStatuses, source : Nat]
Candidate == [event : Nat, content : Contents, last : EntryOf]
Memory == [branch : T!Branches, content : Contents, sources : SUBSET Nat,
           authority : {"auto", "confirmed"}, extracted : BOOLEAN]

LogTypes ==
  /\ trustLog \in Seq(TrustRow)
  /\ \A n \in DOMAIN trustLog : trustLog[n].branch \in forked
  /\ Main \in forked /\ forked \subseteq T!Branches
  /\ trustInherited \in [T!Branches -> SUBSET DOMAIN trustLog]

LedgerTypes ==
  /\ candidates \in Seq(Candidate)
  /\ \A i \in DOMAIN candidates : candidates[i].event \in DOMAIN trustLog
  /\ memories \in Seq(Memory)
  /\ \E S : findings \in [Incidents -> S]

LinksAgree ==
  \A l \in links :
    /\ l.candidate \in DOMAIN candidates /\ l.memory \in DOMAIN memories
    /\ memories[l.memory].content = candidates[l.candidate].content

\* Who the entries that count as settled rest on.
EntriesTrusted ==
  /\ \A m \in DOMAIN memories : memories[m].extracted => memories[m].authority = "auto"
  /\ \A i \in DOMAIN candidates : T!Status(i) = "confirmed" =>
       T!Entrusted(T!BranchOf(i), candidates[i].last.source)
  /\ \A k \in Incidents : findings[k] # None /\ findings[k].status = "acknowledged" =>
       /\ T!Entrusted(Main, findings[k].source)
       /\ trustLog[findings[k].source].origin # "agent"

\* No step rewrites an event, a memory or a link, nor what a candidate says.
LogGrows ==
  /\ \A n \in DOMAIN trustLog : n \in DOMAIN trustLog' /\ trustLog'[n] = trustLog[n]
  /\ \A b \in forked : b \in forked' /\ trustInherited'[b] = trustInherited[b]

LedgersGrow ==
  /\ LogGrows
  /\ \A i \in DOMAIN candidates :
       /\ i \in DOMAIN candidates'
       /\ candidates'[i].event = candidates[i].event
       /\ candidates'[i].content = candidates[i].content
  /\ \A m \in DOMAIN memories : m \in DOMAIN memories' /\ memories'[m] = memories[m]
  /\ links \subseteq links'

LEMMA Least ==
  ASSUME NEW S \in SUBSET Nat, S # {}
  PROVE  T!Oldest(S) \in S
<1>1. PICK k \in S : TRUE
  OBVIOUS
<1> DEFINE B == S \cap 0..k
           Below(x) == {y \in 0..k : y < x}
           A == {Below(x) : x \in B}
           R == StrictSubsetOrdering(0..k)
<1>2. IsWellFoundedOn(R, SUBSET (0..k))
  <2>1. k \in Nat
    BY <1>1
  <2>2. IsFiniteSet(0..k)
    BY <2>1, FS_Interval
  <2> QED BY <2>2, FS_StrictSubsetOrderingWellFounded, FS_FiniteSubsetsOfFinite, Zenon
<1>3. A \subseteq SUBSET (0..k) /\ A # {}
  <2>1. k \in B
    BY <1>1
  <2> QED BY <2>1
<1>4. \E a \in A : \A b \in A : ~(<<b, a>> \in R)
  <2> HIDE DEF A, R
  <2> QED BY <1>2, <1>3, WFMin, Zenon
<1>5. PICK x \in B : \A y \in B : ~(<<Below(y), Below(x)>> \in R)
  BY <1>4
<1>6. ASSUME NEW y \in S, ~(x <= y) PROVE FALSE
  <2>1. y \in B /\ x \in 0..k
    BY <1>5, <1>6
  <2>2. Below(y) \subseteq Below(x) /\ y \in Below(x) /\ y \notin Below(y)
    BY <1>6, <2>1
  <2>3. <<Below(y), Below(x)>> \in R
    <3>1. Below(y) # Below(x)
      BY <2>2
    <3> HIDE DEF Below
    <3>2. Below(y) \in SUBSET (0..k) /\ Below(x) \in SUBSET (0..k)
      BY DEF Below
    <3> QED BY <3>1, <3>2, <2>2 DEF StrictSubsetOrdering
  <2> QED BY <2>1, <2>3, <1>5
<1> QED BY <1>5, <1>6 DEF T!Oldest

\* One row more in the log.
LEMMA LogAppended ==
  ASSUME NEW s \in Seq(TrustRow), NEW r \in TrustRow, NEW B,
         \A n \in DOMAIN s : s[n].branch \in B, r.branch \in B
  PROVE  /\ Append(s, r) \in Seq(TrustRow)
         /\ \A n \in DOMAIN s : n \in DOMAIN Append(s, r) /\ Append(s, r)[n] = s[n]
         /\ \A n \in DOMAIN Append(s, r) : Append(s, r)[n].branch \in B
         /\ Len(s) + 1 \in DOMAIN Append(s, r) /\ Append(s, r)[Len(s) + 1] = r
         /\ \A n \in DOMAIN Append(s, r) : n \in DOMAIN s \/ n = Len(s) + 1
         /\ Len(s) \in Nat /\ DOMAIN s \subseteq Nat
  BY AppendedRow

\* A message with the state event that follows it.
LEMMA TwoAppended ==
  ASSUME NEW s \in Seq(TrustRow), NEW r \in TrustRow, NEW q \in TrustRow, NEW B,
         \A n \in DOMAIN s : s[n].branch \in B, r.branch \in B, q.branch \in B
  PROVE  LET t == s \o <<r, q>> IN
         /\ t \in Seq(TrustRow)
         /\ \A n \in DOMAIN s : n \in DOMAIN t /\ t[n] = s[n]
         /\ \A n \in DOMAIN t : t[n].branch \in B
         /\ Len(s) + 1 \in DOMAIN t /\ t[Len(s) + 1] = r
         /\ \A n \in DOMAIN t : n \in DOMAIN s \/ n = Len(s) + 1 \/ n = Len(s) + 2
         /\ t[Len(s) + 2] = q /\ Len(s) \in Nat
<1>1. <<r, q>> \in Seq(TrustRow) /\ Len(<<r, q>>) = 2 /\ <<r, q>>[1] = r /\ <<r, q>>[2] = q
  OBVIOUS
<1>2. DOMAIN s = 1..Len(s) /\ Len(s) \in Nat
  BY LenProperties
<1>3. /\ s \o <<r, q>> \in Seq(TrustRow) /\ Len(s \o <<r, q>>) = Len(s) + 2
      /\ DOMAIN (s \o <<r, q>>) = 1..(Len(s) + 2)
      /\ \A n \in 1..Len(s) : (s \o <<r, q>>)[n] = s[n]
      /\ (s \o <<r, q>>)[Len(s) + 1] = r /\ (s \o <<r, q>>)[Len(s) + 2] = q
  BY <1>1, <1>2, ConcatProperties, LenProperties
<1> QED BY <1>2, <1>3

LEMMA StateFits ==
  ASSUME NEW b \in T!Branches
  PROVE  T!State(b) \in TrustRow /\ T!State(b).branch = b /\ T!State(b).mark = None
  BY DEF T!State, T!Row, TrustRow

LEMMA RowFits ==
  ASSUME NEW b \in T!Branches, NEW o \in Callers \cup {"user", "untrusted", "bootstrap"},
         NEW k \in {"message", "state"}, NEW c \in Contents \cup {None}
  PROVE  /\ T!Row(b, o, k, c) \in TrustRow /\ T!Row(b, o, k, c).branch = b
         /\ T!Row(b, o, k, c).mark = c /\ T!Row(b, o, k, c).origin = o
  BY DEF T!Row, TrustRow

LEMMA LogStep ==
  ASSUME LogTypes, UNCHANGED <<trustInherited, forked>>,
         NEW r \in TrustRow, r.branch \in forked, NEW q \in TrustRow, q.branch \in forked,
         \/ UNCHANGED trustLog
         \/ trustLog' = Append(trustLog, r)
         \/ trustLog' = trustLog \o <<r, q>>
  PROVE  /\ LogTypes' /\ LogGrows
         /\ trustLog' = Append(trustLog, r) \/ trustLog' = trustLog \o <<r, q>> =>
              Len(trustLog) + 1 \in DOMAIN trustLog' /\ trustLog'[Len(trustLog) + 1] = r
<1>1. CASE UNCHANGED trustLog
  <2>1. LogTypes' /\ LogGrows
    BY <1>1 DEF LogTypes, LogGrows
  <2>2. /\ Len(Append(trustLog, r)) = Len(trustLog) + 1
        /\ Len(trustLog \o <<r, q>>) = Len(trustLog) + 2 /\ Len(trustLog) \in Nat
    <3>1. <<r, q>> \in Seq(TrustRow) /\ Len(<<r, q>>) = 2
      OBVIOUS
    <3> QED BY <3>1, AppendedRow, ConcatProperties, LenProperties DEF LogTypes
  <2> QED BY <1>1, <2>1, <2>2
<1>2. CASE trustLog' = Append(trustLog, r)
  <2> DEFINE t == Append(trustLog, r)
  <2>1. /\ t \in Seq(TrustRow)
        /\ \A n \in DOMAIN trustLog : n \in DOMAIN t /\ t[n] = trustLog[n]
        /\ \A n \in DOMAIN t : t[n].branch \in forked
        /\ Len(trustLog) + 1 \in DOMAIN t /\ t[Len(trustLog) + 1] = r
    BY LogAppended DEF LogTypes
  <2> HIDE DEF t
  <2>2. trustLog' = t
    BY <1>2 DEF t
  <2> QED BY <2>1, <2>2 DEF LogTypes, LogGrows
<1>3. CASE trustLog' = trustLog \o <<r, q>>
  <2> DEFINE t == trustLog \o <<r, q>>
  <2>1. /\ t \in Seq(TrustRow)
        /\ \A n \in DOMAIN trustLog : n \in DOMAIN t /\ t[n] = trustLog[n]
        /\ \A n \in DOMAIN t : t[n].branch \in forked
        /\ Len(trustLog) + 1 \in DOMAIN t /\ t[Len(trustLog) + 1] = r
    BY TwoAppended DEF LogTypes
  <2> HIDE DEF t
  <2>2. trustLog' = t
    BY <1>3 DEF t
  <2> QED BY <2>1, <2>2 DEF LogTypes, LogGrows
<1> QED BY <1>1, <1>2, <1>3

\* A transition of one candidate.
LEMMA CandidateMoved ==
  ASSUME LedgerTypes, NEW i \in DOMAIN candidates, NEW e \in EntryOf,
         candidates' = [candidates EXCEPT ![i].last = e]
  PROVE  /\ candidates' \in Seq(Candidate) /\ DOMAIN candidates' = DOMAIN candidates
         /\ candidates'[i].last = e
         /\ \A j \in DOMAIN candidates :
              /\ candidates'[j].event = candidates[j].event
              /\ candidates'[j].content = candidates[j].content
              /\ j # i => candidates'[j] = candidates[j]
<1>1. candidates \in Seq(Candidate) /\ Len(candidates) \in Nat
      /\ DOMAIN candidates = 1..Len(candidates)
      /\ \A j \in 1..Len(candidates) : candidates[j] \in Candidate
  BY LenProperties, ElementOfSeq DEF LedgerTypes
<1> DEFINE f == candidates'
<1>2. DOMAIN f = DOMAIN candidates /\ \A j \in DOMAIN candidates :
        f[j] = IF j = i THEN [candidates[i] EXCEPT !.last = e] ELSE candidates[j]
  BY <1>1
<1>3. [candidates[i] EXCEPT !.last = e] \in Candidate
  BY <1>1 DEF Candidate
<1>4. f \in [1..Len(candidates) -> Candidate]
  <2>1. f = [j \in 1..Len(candidates) |->
              IF j = i THEN [candidates[i] EXCEPT !.last = e] ELSE candidates[j]]
    BY <1>1
  <2> HIDE DEF f
  <2> QED BY <1>1, <1>3, <2>1
<1> HIDE DEF f
<1>5. f \in Seq(Candidate)
  BY <1>1, <1>4
<1>6. /\ f[i].last = e /\ f[i].event = candidates[i].event
      /\ f[i].content = candidates[i].content
  BY <1>1, <1>2 DEF Candidate
<1> QED BY <1>2, <1>5, <1>6 DEF f

\* One candidate more, from an event of the log.
LEMMA CandidateAppended ==
  ASSUME LedgerTypes, NEW e \in DOMAIN trustLog, DOMAIN trustLog \subseteq Nat,
         NEW c \in Contents, NEW x \in EntryOf,
         candidates' = Append(candidates, [event |-> e, content |-> c, last |-> x])
  PROVE  LET i == Len(candidates) + 1 IN
         /\ candidates' \in Seq(Candidate) /\ i \in DOMAIN candidates'
         /\ candidates'[i].event = e /\ candidates'[i].content = c /\ candidates'[i].last = x
         /\ \A j \in DOMAIN candidates : j \in DOMAIN candidates' /\ candidates'[j] = candidates[j]
         /\ \A j \in DOMAIN candidates' : j \in DOMAIN candidates \/ j = i
<1> DEFINE r == [event |-> e, content |-> c, last |-> x]
<1>1. r \in Candidate /\ r.event = e /\ r.content = c /\ r.last = x
  BY DEF Candidate
<1>2. candidates \in Seq(Candidate) /\ candidates' = Append(candidates, r)
  BY DEF LedgerTypes
<1> HIDE DEF r
<1> QED BY <1>1, <1>2, AppendedRow

LEMMA MemoryAppended ==
  ASSUME LedgerTypes, NEW m \in Memory, memories' = Append(memories, m)
  PROVE  LET i == Len(memories) + 1 IN
         /\ memories' \in Seq(Memory) /\ i \in DOMAIN memories' /\ memories'[i] = m
         /\ \A j \in DOMAIN memories : j \in DOMAIN memories' /\ memories'[j] = memories[j]
         /\ \A j \in DOMAIN memories' : j \in DOMAIN memories \/ j = i
  BY AppendedRow DEF LedgerTypes

LEMMA FindingChanged ==
  ASSUME LedgerTypes, NEW k \in Incidents, NEW e, findings' = [findings EXCEPT ![k] = e]
  PROVE  /\ \E S : findings' \in [Incidents -> S]
         /\ findings'[k] = e /\ \A j \in Incidents : j # k => findings'[j] = findings[j]
<1>1. PICK S : findings \in [Incidents -> S]
  BY DEF LedgerTypes
<1>2. findings' \in [Incidents -> S \cup {e}]
  BY <1>1
<1> QED BY <1>1, <1>2

\* Candidates and memories of one content.
LEMMA OldestOnes ==
  ASSUME LedgerTypes, LinksAgree
  PROVE  /\ \A c, b : T!ExistingMemory(c, b) # {} =>
              LET m == T!Oldest(T!ExistingMemory(c, b)) IN
              m \in DOMAIN memories /\ memories[m].content = c
         /\ \A c : T!Matching(c) # {} =>
              LET i == T!Oldest(T!Matching(c)) IN
              i \in DOMAIN candidates /\ candidates[i].content = c
         /\ \A i \in DOMAIN candidates : T!MemoryOf(i) # {} =>
              LET m == T!Oldest(T!MemoryOf(i)) IN
              m \in DOMAIN memories /\ memories[m].content = candidates[i].content
<1>1. DOMAIN memories \subseteq Nat /\ DOMAIN candidates \subseteq Nat
  BY LenProperties DEF LedgerTypes
<1>2. ASSUME NEW c, NEW b, T!ExistingMemory(c, b) # {}
      PROVE  T!Oldest(T!ExistingMemory(c, b)) \in T!ExistingMemory(c, b)
  <2>1. T!ExistingMemory(c, b) \in SUBSET Nat
    BY <1>1 DEF T!ExistingMemory
  <2> QED BY <1>2, <2>1, Least
<1>3. ASSUME NEW c, T!Matching(c) # {} PROVE T!Oldest(T!Matching(c)) \in T!Matching(c)
  <2>1. T!Matching(c) \in SUBSET Nat
    BY <1>1 DEF T!Matching
  <2> QED BY <1>3, <2>1, Least
<1>4. ASSUME NEW i \in DOMAIN candidates, T!MemoryOf(i) # {}
      PROVE  T!Oldest(T!MemoryOf(i)) \in T!MemoryOf(i)
  <2>1. T!MemoryOf(i) \in SUBSET Nat
    BY <1>1 DEF T!MemoryOf, LinksAgree
  <2> QED BY <1>4, <2>1, Least
<1>5. \A i \in DOMAIN candidates : \A m \in T!MemoryOf(i) :
        m \in DOMAIN memories /\ memories[m].content = candidates[i].content
  BY DEF T!MemoryOf, LinksAgree
<1>6. \A c, b : \A m \in T!ExistingMemory(c, b) : m \in DOMAIN memories /\ memories[m].content = c
  BY DEF T!ExistingMemory
<1>7. \A c : \A i \in T!Matching(c) : i \in DOMAIN candidates /\ candidates[i].content = c
  BY DEF T!Matching
<1> QED BY <1>2, <1>3, <1>4, <1>5, <1>6, <1>7

LEMMA EntrustedKept ==
  ASSUME LogTypes, LogGrows, NEW b \in forked, NEW n, T!Entrusted(b, n)
  PROVE  T!Entrusted(b, n)' /\ n \in DOMAIN trustLog /\ trustLog'[n] = trustLog[n]
<1>1. n \in DOMAIN trustLog /\ b \in T!Branches
  BY DEF LogTypes, T!Entrusted, T!Visible
<1> QED BY <1>1 DEF LogGrows, T!Entrusted, T!Visible

LEMMA LinkAdded ==
  ASSUME LinksAgree, LedgersGrow, NEW l,
         \/ UNCHANGED links
         \/ /\ links' = links \cup {l}
            /\ l.candidate \in DOMAIN candidates' /\ l.memory \in DOMAIN memories'
            /\ memories'[l.memory].content = candidates'[l.candidate].content
  PROVE  LinksAgree'
<1>1. \A k \in links : /\ k.candidate \in DOMAIN candidates' /\ k.memory \in DOMAIN memories'
                       /\ memories'[k.memory].content = candidates'[k.candidate].content
  BY DEF LinksAgree, LedgersGrow
<1> QED BY <1>1 DEF LinksAgree

LEMMA MarkersStay ==
  ASSUME MarkersKept, LedgersGrow,
         \A n \in DOMAIN trustLog' :
           \/ n \in DOMAIN trustLog
           \/ trustLog'[n].mark = None
           \/ \E m \in DOMAIN memories' :
                /\ memories'[m].content = trustLog'[n].mark
                /\ \/ n \in memories'[m].sources
                   \/ \E l \in links' : l.memory = m /\ l.relation = "confirmed_as" /\ l.source = n
  PROVE  MarkersKept'
<1> SUFFICES ASSUME NEW n \in DOMAIN trustLog', trustLog'[n].mark # None
             PROVE  \E m \in DOMAIN memories' :
                      /\ memories'[m].content = trustLog'[n].mark
                      /\ \/ n \in memories'[m].sources
                         \/ \E l \in links' : l.memory = m /\ l.relation = "confirmed_as" /\ l.source = n
  BY DEF MarkersKept, T!MarkersKept
<1>1. CASE n \in DOMAIN trustLog
  <2>1. trustLog'[n] = trustLog[n]
    BY <1>1 DEF LedgersGrow, LogGrows
  <2>2. PICK m \in DOMAIN memories :
          /\ memories[m].content = trustLog[n].mark
          /\ \/ n \in memories[m].sources
             \/ \E l \in links : l.memory = m /\ l.relation = "confirmed_as" /\ l.source = n
    BY <1>1, <2>1 DEF MarkersKept, T!MarkersKept
  <2>3. m \in DOMAIN memories' /\ memories'[m] = memories[m] /\ links \subseteq links'
    BY <2>2 DEF LedgersGrow
  <2> QED BY <2>1, <2>2, <2>3
<1> QED BY <1>1

LEMMA EntriesStay ==
  ASSUME LogTypes, LedgerTypes, EntriesTrusted, LedgersGrow,
         \A m \in DOMAIN memories' : \/ m \in DOMAIN memories
                                     \/ memories'[m].extracted => memories'[m].authority = "auto",
         \A i \in DOMAIN candidates' :
           \/ i \in DOMAIN candidates /\ candidates'[i].last = candidates[i].last
           \/ candidates'[i].last.status # "confirmed"
           \/ T!Entrusted(T!BranchOf(i), candidates[i].last.source)',
         \A k \in Incidents :
           \/ findings'[k] = findings[k]
           \/ findings'[k].status # "acknowledged"
           \/ /\ T!Entrusted(Main, findings[k].source)'
              /\ trustLog'[findings'[k].source].origin # "agent"
  PROVE  EntriesTrusted'
<1>1. ASSUME NEW m \in DOMAIN memories', memories'[m].extracted
      PROVE  memories'[m].authority = "auto"
  BY <1>1 DEF EntriesTrusted, LedgersGrow
<1>2. ASSUME NEW i \in DOMAIN candidates', candidates'[i].last.status = "confirmed"
      PROVE  T!Entrusted(T!BranchOf(i), candidates[i].last.source)'
  <2>1. CASE i \in DOMAIN candidates /\ candidates'[i].last = candidates[i].last
    <3>1. PICK b \in forked : b = T!BranchOf(i)
      BY <2>1 DEF T!BranchOf, LogTypes, LedgerTypes
    <3>2. PICK n : n = candidates[i].last.source
      OBVIOUS
    <3>3. T!Entrusted(b, n)
      BY <1>2, <2>1, <3>1, <3>2 DEF EntriesTrusted, T!Status
    <3>4. T!Entrusted(b, n)'
      BY <3>3, EntrustedKept DEF LedgersGrow
    <3>5. T!BranchOf(i)' = b /\ candidates'[i].last.source = n
      BY <2>1, <3>1, <3>2 DEF T!BranchOf, LedgersGrow, LogGrows, LedgerTypes
    <3> QED BY <3>4, <3>5
  <2> QED BY <1>2, <2>1
<1>3. ASSUME NEW k \in Incidents, findings'[k] # None, findings'[k].status = "acknowledged"
      PROVE  /\ T!Entrusted(Main, findings[k].source)'
             /\ trustLog'[findings'[k].source].origin # "agent"
  <2>1. CASE findings'[k] = findings[k]
    <3>1. PICK n : n = findings[k].source
      OBVIOUS
    <3>2. Main \in forked /\ T!Entrusted(Main, n) /\ trustLog[n].origin # "agent"
      BY <1>3, <2>1, <3>1 DEF EntriesTrusted, LogTypes
    <3>3. T!Entrusted(Main, n)' /\ trustLog'[n] = trustLog[n]
      BY <3>2, EntrustedKept DEF LedgersGrow
    <3> QED BY <2>1, <3>1, <3>2, <3>3
  <2> QED BY <1>3, <2>1
<1> QED BY <1>1, <1>2, <1>3 DEF EntriesTrusted, T!Status

TrustInv == LogTypes /\ LedgerTypes /\ LinksAgree /\ EntriesTrusted /\ MarkersKept

\* A step that only appends events without a mark, or does not touch the log.
LEMMA OthersStay ==
  ASSUME TrustInv, LogTypes', LogGrows, UNCHANGED <<memories, links>>,
         \A n \in DOMAIN trustLog' : n \in DOMAIN trustLog \/ trustLog'[n].mark = None,
         candidates' \in Seq(Candidate), DOMAIN candidates' = DOMAIN candidates,
         \A i \in DOMAIN candidates : /\ candidates'[i].event = candidates[i].event
                                      /\ candidates'[i].content = candidates[i].content,
         \E S : findings' \in [Incidents -> S]
  PROVE  LedgerTypes' /\ LinksAgree' /\ MarkersKept' /\ LedgersGrow
<1>1. LedgersGrow
  BY DEF LedgersGrow
<1>2. LedgerTypes'
  BY DEF TrustInv, LedgerTypes, LogGrows
<1>3. LinksAgree'
  BY <1>1, LinkAdded DEF TrustInv
<1>4. MarkersKept'
  BY <1>1, MarkersStay DEF TrustInv
<1> QED BY <1>1, <1>2, <1>3, <1>4

\* A prompt with a marker, with the state event of what it leads to or without.
LEMMA MarkedRows ==
  ASSUME LogTypes, UNCHANGED <<trustInherited, forked>>, NEW b \in forked,
         NEW r \in TrustRow, r.branch = b,
         trustLog' = Append(trustLog, r) \/ trustLog' = trustLog \o <<r, T!State(b)>>
  PROVE  LET n == Len(trustLog) + 1 IN
         /\ LogTypes' /\ LogGrows /\ n \in DOMAIN trustLog' /\ trustLog'[n] = r
         /\ \A k \in DOMAIN trustLog' : k \in DOMAIN trustLog \/ k = n \/ trustLog'[k].mark = None
<1> DEFINE q == T!State(b)
           n == Len(trustLog) + 1
<1>1. b \in T!Branches
  BY DEF LogTypes
<1>2. q \in TrustRow /\ q.branch = b /\ q.mark = None
  BY <1>1, StateFits
<1> HIDE DEF q
<1>3. trustLog' = Append(trustLog, r) \/ trustLog' = trustLog \o <<r, q>>
  BY DEF q
<1>4. LogTypes' /\ LogGrows /\ n \in DOMAIN trustLog' /\ trustLog'[n] = r
  BY <1>2, <1>3, LogStep
<1>5. CASE trustLog' = Append(trustLog, r)
  BY <1>4, <1>5, LogAppended DEF LogTypes
<1>6. CASE trustLog' = trustLog \o <<r, q>>
  <2> DEFINE t == trustLog \o <<r, q>>
  <2>1. /\ \A k \in DOMAIN t : k \in DOMAIN trustLog \/ k = n \/ k = Len(trustLog) + 2
        /\ t[Len(trustLog) + 2] = q
    BY <1>2, TwoAppended DEF LogTypes
  <2> HIDE DEF t
  <2> QED BY <1>2, <1>4, <1>6, <2>1 DEF t
<1> QED BY <1>3, <1>5, <1>6

LEMMA TrustStep == TrustInv /\ [T!Next]_(T!vars) => TrustInv'
<1> SUFFICES ASSUME TrustInv, [T!Next]_(T!vars) PROVE TrustInv'
  OBVIOUS
<1> DEFINE Goal == TrustInv'
<1>0. /\ LogTypes /\ LedgerTypes /\ LinksAgree /\ EntriesTrusted /\ MarkersKept
      /\ Len(trustLog) \in Nat /\ DOMAIN trustLog = 1..Len(trustLog)
      /\ candidates \in Seq(Candidate) /\ (\E S : findings \in [Incidents -> S])
  BY LenProperties DEF TrustInv, LogTypes, LedgerTypes
\* What one event more means for the log.
<1>a. ASSUME NEW r \in TrustRow, r.branch \in forked, trustLog' = Append(trustLog, r),
             UNCHANGED <<trustInherited, forked>>
      PROVE  /\ LogTypes' /\ LogGrows
             /\ Len(trustLog) + 1 \in DOMAIN trustLog' /\ trustLog'[Len(trustLog) + 1] = r
             /\ \A n \in DOMAIN trustLog' : n \in DOMAIN trustLog \/ n = Len(trustLog) + 1
  <2>1. /\ LogTypes' /\ LogGrows
        /\ Len(trustLog) + 1 \in DOMAIN trustLog' /\ trustLog'[Len(trustLog) + 1] = r
    BY <1>0, <1>a, LogStep
  <2>2. \A n \in DOMAIN trustLog' : n \in DOMAIN trustLog \/ n = Len(trustLog) + 1
    BY <1>0, <1>a, LogAppended DEF LogTypes
  <2> QED BY <2>1, <2>2
<1>b. ASSUME NEW b \in forked, trustLog' = Append(trustLog, T!State(b)),
             UNCHANGED <<trustInherited, forked>>
      PROVE  /\ LogTypes' /\ LogGrows
             /\ \A n \in DOMAIN trustLog' : n \in DOMAIN trustLog \/ trustLog'[n].mark = None
  <2>1. T!State(b) \in TrustRow /\ T!State(b).branch = b /\ T!State(b).mark = None
    BY <1>0, StateFits DEF LogTypes
  <2> HIDE DEF T!State
  <2> QED BY <1>a, <1>b, <2>1
<1>c. ASSUME UNCHANGED <<trustLog, trustInherited, forked, candidates, memories, links, findings>>
      PROVE  Goal
  <2>1. LogTypes' /\ LogGrows
    BY <1>0, <1>c DEF LogTypes, LogGrows
  <2>2. LedgerTypes' /\ LinksAgree' /\ MarkersKept' /\ LedgersGrow
    BY <1>0, <1>c, <2>1, OthersStay
  <2>3. EntriesTrusted'
    BY <1>0, <1>c, <2>2, EntriesStay
  <2> QED BY <2>1, <2>2, <2>3 DEF TrustInv
<1>1. CASE UNCHANGED T!vars
  BY <1>1, <1>c DEF T!vars
<1>2. ASSUME NEW b \in T!Branches, NEW p \in T!Branches, T!Fork(b, p) PROVE Goal
  <2>1. LogTypes' /\ LogGrows /\ UNCHANGED <<trustLog, candidates, memories, links, findings>>
    <3>1. T!Visible(p) \in SUBSET DOMAIN trustLog
      BY <1>0, <1>2 DEF T!Visible, LogTypes
    <3> HIDE DEF T!Visible
    <3> QED BY <1>0, <1>2, <3>1 DEF T!Fork, LogTypes, LogGrows
  <2>2. LedgerTypes' /\ LinksAgree' /\ MarkersKept' /\ LedgersGrow
    BY <1>0, <2>1, OthersStay
  <2>3. EntriesTrusted'
    BY <1>0, <2>1, <2>2, EntriesStay
  <2> QED BY <2>1, <2>2, <2>3 DEF TrustInv
<1>3. ASSUME NEW b \in T!Branches, NEW o \in Callers, T!AppendOther(b, o) PROVE Goal
  <2> DEFINE r == T!Row(b, o, IF o \in {"operator", "agent"} THEN "state" ELSE "message", None)
  <2>1. r \in TrustRow /\ r.branch = b /\ r.mark = None
    BY RowFits
  <2>2. /\ trustLog' = Append(trustLog, r) /\ b \in forked
        /\ UNCHANGED <<trustInherited, forked, candidates, memories, links, findings>>
    BY <1>3 DEF T!AppendOther
  <2> HIDE DEF r
  <2>3. /\ LogTypes' /\ LogGrows
        /\ \A n \in DOMAIN trustLog' : n \in DOMAIN trustLog \/ trustLog'[n].mark = None
    BY <1>a, <2>1, <2>2
  <2>4. LedgerTypes' /\ LinksAgree' /\ MarkersKept' /\ LedgersGrow
    BY <1>0, <2>2, <2>3, OthersStay
  <2>5. EntriesTrusted'
    BY <1>0, <2>2, <2>4, EntriesStay
  <2> QED BY <2>3, <2>4, <2>5 DEF TrustInv
<1>4. ASSUME NEW n \in DOMAIN trustLog, NEW c \in Contents, NEW s \in {"auto", "quarantined"},
             T!Extract(n, c, s)
      PROVE  Goal
  <2> DEFINE i == Len(candidates) + 1
             b == trustLog[n].branch
             x == T!Entry(s, n)
             same == T!ExistingMemory(c, b)
             m == [branch |-> b, content |-> c, sources |-> {n}, authority |-> "auto",
                   extracted |-> TRUE]
  <2>1. /\ x \in EntryOf /\ x.status # "confirmed" /\ b \in forked /\ b \in T!Branches
        /\ m \in Memory /\ m.content = c /\ m.authority = "auto"
    BY <1>0 DEF T!Entry, EntryOf, T!CandidateStatuses, LogTypes, Memory
  <2>2. /\ candidates' = Append(candidates, [event |-> n, content |-> c, last |-> x])
        /\ UNCHANGED <<trustInherited, forked, findings>>
        /\ \/ UNCHANGED <<trustLog, memories, links>>
           \/ /\ same # {} /\ UNCHANGED <<trustLog, memories>>
              /\ links' = links \cup {T!Link(i, T!Oldest(same), "supports", n)}
           \/ /\ trustLog' = Append(trustLog, T!State(b))
              /\ memories' = Append(memories, m)
              /\ links' = links \cup {T!Link(i, Len(memories) + 1, "derived", n)}
    BY <1>4 DEF T!Extract
  <2> HIDE DEF x, m
  <2>3. /\ candidates' \in Seq(Candidate) /\ i \in DOMAIN candidates'
        /\ candidates'[i].event = n /\ candidates'[i].content = c /\ candidates'[i].last = x
        /\ \A j \in DOMAIN candidates : j \in DOMAIN candidates' /\ candidates'[j] = candidates[j]
        /\ \A j \in DOMAIN candidates' : j \in DOMAIN candidates \/ j = i
    BY <1>0, <2>1, <2>2, CandidateAppended
  <2>4. /\ LogTypes' /\ LogGrows
        /\ \A k \in DOMAIN trustLog' : k \in DOMAIN trustLog \/ trustLog'[k].mark = None
    <3>1. CASE UNCHANGED trustLog
      BY <1>0, <2>2, <3>1 DEF LogTypes, LogGrows
    <3>2. CASE trustLog' = Append(trustLog, T!State(b))
      <4> HIDE DEF b
      <4> QED BY <1>b, <2>1, <2>2, <3>2
    <3> QED BY <2>2, <3>1, <3>2
  <2>5. same # {} => T!Oldest(same) \in DOMAIN memories /\ memories[T!Oldest(same)].content = c
    BY <1>0, OldestOnes
  <2>6. PICK l : /\ l.candidate = i /\ l.memory = T!Oldest(same)
                 /\ l = T!Link(i, T!Oldest(same), "supports", n)
    BY DEF T!Link
  <2>7. PICK d : /\ d.candidate = i /\ d.memory = Len(memories) + 1
                 /\ d = T!Link(i, Len(memories) + 1, "derived", n)
    BY DEF T!Link
  <2> HIDE DEF i, same
  <2>8. /\ memories' \in Seq(Memory) /\ links \subseteq links'
        /\ \A j \in DOMAIN memories : j \in DOMAIN memories' /\ memories'[j] = memories[j]
        /\ \A j \in DOMAIN memories' : j \in DOMAIN memories \/ memories'[j].authority = "auto"
        /\ \/ UNCHANGED links
           \/ /\ links' = links \cup {l}
              /\ l.memory \in DOMAIN memories' /\ memories'[l.memory].content = c
           \/ /\ links' = links \cup {d}
              /\ d.memory \in DOMAIN memories' /\ memories'[d.memory].content = c
    <3>1. CASE UNCHANGED <<memories, links>>
      BY <1>0, <3>1 DEF LedgerTypes
    <3>2. CASE same # {} /\ UNCHANGED memories /\ links' = links \cup {l}
      BY <1>0, <2>5, <2>6, <3>2 DEF LedgerTypes
    <3>3. CASE memories' = Append(memories, m) /\ links' = links \cup {d}
      <4> DEFINE k == Len(memories) + 1
      <4>1. /\ memories' \in Seq(Memory) /\ k \in DOMAIN memories' /\ memories'[k] = m
            /\ \A j \in DOMAIN memories : j \in DOMAIN memories' /\ memories'[j] = memories[j]
            /\ \A j \in DOMAIN memories' : j \in DOMAIN memories \/ j = k
        BY <1>0, <2>1, <3>3, MemoryAppended
      <4> HIDE DEF k
      <4>2. d.memory = k
        BY <2>7 DEF k
      <4> QED BY <2>1, <3>3, <4>1, <4>2
    <3> QED BY <2>2, <2>6, <2>7, <3>1, <3>2, <3>3
  <2>9. LedgersGrow
    BY <2>3, <2>4, <2>8 DEF LedgersGrow
  <2>10. LedgerTypes'
    <3>1. \A j \in DOMAIN candidates : candidates'[j].event \in DOMAIN trustLog'
      BY <1>0, <2>3, <2>4 DEF LedgerTypes, LogGrows
    <3>2. candidates'[i].event \in DOMAIN trustLog'
      BY <2>3, <2>4 DEF LogGrows
    <3>3. \A j \in DOMAIN candidates' : candidates'[j].event \in DOMAIN trustLog'
      BY <2>3, <3>1, <3>2
    <3> QED BY <1>0, <2>2, <2>3, <2>8, <3>3 DEF LedgerTypes
  <2>11. LinksAgree'
    <3>1. CASE UNCHANGED links
      BY <1>0, <2>9, <3>1, LinkAdded
    <3>2. CASE links' = links \cup {l} /\ l.memory \in DOMAIN memories'
               /\ memories'[l.memory].content = c
      BY <1>0, <2>3, <2>6, <2>9, <3>2, LinkAdded
    <3>3. CASE links' = links \cup {d} /\ d.memory \in DOMAIN memories'
               /\ memories'[d.memory].content = c
      BY <1>0, <2>3, <2>7, <2>9, <3>3, LinkAdded
    <3> QED BY <2>8, <3>1, <3>2, <3>3
  <2>12. MarkersKept'
    BY <1>0, <2>4, <2>9, MarkersStay
  <2>13. EntriesTrusted'
    BY <1>0, <2>1, <2>2, <2>3, <2>8, <2>9, EntriesStay
  <2> QED BY <2>4, <2>10, <2>11, <2>12, <2>13 DEF TrustInv
<1>5. ASSUME NEW i \in DOMAIN candidates, NEW to \in T!CandidateStatuses, NEW b \in T!Branches,
             T!RequestCandidate(i, to, b)
      PROVE  Goal
  <2> DEFINE e == T!Entry(to, Len(trustLog) + 1)
  <2>1. e \in EntryOf /\ e.status = to /\ to # "confirmed"
    BY <1>0, <1>5 DEF T!Entry, EntryOf, T!RequestCandidate
  <2>2. /\ trustLog' = Append(trustLog, T!State(b)) /\ b \in forked
        /\ candidates' = [candidates EXCEPT ![i].last = e]
        /\ UNCHANGED <<trustInherited, forked, memories, links, findings>>
    BY <1>0, <1>5 DEF T!RequestCandidate, T!BranchOf, LogTypes, LedgerTypes
  <2> HIDE DEF e
  <2>3. /\ LogTypes' /\ LogGrows
        /\ \A n \in DOMAIN trustLog' : n \in DOMAIN trustLog \/ trustLog'[n].mark = None
    BY <1>b, <2>2
  <2>4. /\ candidates' \in Seq(Candidate) /\ DOMAIN candidates' = DOMAIN candidates
        /\ candidates'[i].last = e
        /\ \A j \in DOMAIN candidates :
             /\ candidates'[j].event = candidates[j].event
             /\ candidates'[j].content = candidates[j].content
             /\ j # i => candidates'[j] = candidates[j]
    BY <1>0, <2>1, <2>2, CandidateMoved
  <2>5. LedgerTypes' /\ LinksAgree' /\ MarkersKept' /\ LedgersGrow
    BY <1>0, <2>2, <2>3, <2>4, OthersStay
  <2>6. EntriesTrusted'
    BY <1>0, <2>1, <2>2, <2>4, <2>5, EntriesStay
  <2> QED BY <2>3, <2>5, <2>6 DEF TrustInv
<1>6. ASSUME NEW i \in DOMAIN candidates, NEW to \in T!CandidateGates.targets,
             NEW n \in DOMAIN trustLog, T!TransitionCandidate(i, to, n)
      PROVE  Goal
  <2> DEFINE e == T!Entry(to, n)
  <2>1. e \in EntryOf /\ e.source = n
    BY <1>0 DEF T!Entry, EntryOf, T!CandidateGates, T!CandidateStatuses
  <2>2. /\ candidates' = [candidates EXCEPT ![i].last = e]
        /\ T!Entrusted(T!BranchOf(i), n)
        /\ UNCHANGED <<trustLog, trustInherited, forked, memories, links, findings>>
    BY <1>6 DEF T!TransitionCandidate, T!Settles, T!CandidateGates, T!Entrusted
  <2> HIDE DEF e
  <2>3. /\ LogTypes' /\ LogGrows
        /\ \A k \in DOMAIN trustLog' : k \in DOMAIN trustLog \/ trustLog'[k].mark = None
    BY <1>0, <2>2 DEF LogTypes, LogGrows
  <2>4. /\ candidates' \in Seq(Candidate) /\ DOMAIN candidates' = DOMAIN candidates
        /\ candidates'[i].last = e
        /\ \A j \in DOMAIN candidates :
             /\ candidates'[j].event = candidates[j].event
             /\ candidates'[j].content = candidates[j].content
             /\ j # i => candidates'[j] = candidates[j]
    BY <1>0, <2>1, <2>2, CandidateMoved
  <2>5. LedgerTypes' /\ LinksAgree' /\ MarkersKept' /\ LedgersGrow
    BY <1>0, <2>2, <2>3, <2>4, OthersStay
  <2>6. T!Entrusted(T!BranchOf(i), candidates[i].last.source)'
    BY <2>1, <2>2, <2>4 DEF T!BranchOf, T!Entrusted, T!Visible
  <2>7. EntriesTrusted'
    BY <1>0, <2>2, <2>4, <2>5, <2>6, EntriesStay
  <2> QED BY <2>3, <2>5, <2>7 DEF TrustInv
<1>7. ASSUME NEW b \in T!Branches, NEW c \in Contents, NEW o \in {"user", "untrusted"},
             T!MarkNew(b, c, o)
      PROVE  Goal
  <2> DEFINE n == Len(trustLog) + 1
             r == T!Row(b, o, "message", c)
             m == [branch |-> b, content |-> c, sources |-> {n}, extracted |-> FALSE,
                   authority |-> IF o = "user" THEN "confirmed" ELSE "auto"]
  <2>1. /\ r \in TrustRow /\ r.branch = b /\ r.mark = c
        /\ T!State(b) \in TrustRow /\ T!State(b).branch = b /\ T!State(b).mark = None
        /\ m \in Memory /\ m.content = c /\ n \in m.sources /\ ~m.extracted
    <3>1. m \in Memory /\ m.content = c /\ n \in m.sources /\ ~m.extracted
      BY <1>0 DEF Memory
    <3> HIDE DEF m
    <3>2. T!State(b) \in TrustRow /\ T!State(b).branch = b /\ T!State(b).mark = None
      BY StateFits
    <3>3. r \in TrustRow /\ r.branch = b /\ r.mark = c
      BY RowFits
    <3> HIDE DEF r
    <3> QED BY <3>1, <3>2, <3>3
  <2>2. /\ b \in forked /\ trustLog' = trustLog \o <<r, T!State(b)>>
        /\ memories' = Append(memories, m)
        /\ UNCHANGED <<trustInherited, forked, candidates, links, findings>>
    BY <1>7 DEF T!MarkNew
  <2> HIDE DEF r, m
  <2>3. /\ LogTypes' /\ LogGrows /\ n \in DOMAIN trustLog' /\ trustLog'[n] = r
        /\ \A k \in DOMAIN trustLog' : k \in DOMAIN trustLog \/ k = n \/ trustLog'[k].mark = None
    BY <1>0, <2>1, <2>2, MarkedRows
  <2>4. LET k == Len(memories) + 1 IN
        /\ memories' \in Seq(Memory) /\ k \in DOMAIN memories' /\ memories'[k] = m
        /\ \A j \in DOMAIN memories : j \in DOMAIN memories' /\ memories'[j] = memories[j]
        /\ \A j \in DOMAIN memories' : j \in DOMAIN memories \/ j = k
    BY <1>0, <2>1, <2>2, MemoryAppended
  <2> HIDE DEF n
  <2>5. LedgersGrow
    BY <2>2, <2>3, <2>4 DEF LedgersGrow
  <2>6. LedgerTypes'
    BY <1>0, <2>2, <2>3, <2>4 DEF LedgerTypes, LogGrows
  <2>7. LinksAgree'
    BY <1>0, <2>2, <2>5, LinkAdded
  <2>8. MarkersKept'
    BY <1>0, <2>1, <2>3, <2>4, <2>5, MarkersStay
  <2>9. EntriesTrusted'
    BY <1>0, <2>1, <2>2, <2>4, <2>5, EntriesStay
  <2> QED BY <2>3, <2>6, <2>7, <2>8, <2>9 DEF TrustInv
<1>8. ASSUME NEW b \in T!Branches, NEW c \in Contents, T!MarkMatch(b, c) PROVE Goal
  <2>1. PICK i \in DOMAIN candidates :
          i = T!Oldest(T!Matching(c)) /\ candidates[i].content = c /\ b = T!BranchOf(i)
    BY <1>0, <1>8, OldestOnes DEF T!MarkMatch
  <2> DEFINE n == Len(trustLog) + 1
             r == T!Row(b, "user", "message", c)
             e == T!Confirmed(candidates[i].last, n)
             m == [branch |-> b, content |-> c, sources |-> {candidates[i].event, n},
                   authority |-> "confirmed", extracted |-> FALSE]
             old == T!Oldest(T!MemoryOf(i))
             new == Len(memories) + 1
  <2>2. r \in TrustRow /\ r.branch = b /\ r.mark = c /\ r.origin = "user"
    BY RowFits
  <2>3. candidates[i] \in Candidate
    BY <1>0, <2>1, ElementOfSeq, LenProperties
  <2>4. m \in Memory /\ m.content = c /\ ~m.extracted
    BY <1>0, <2>3 DEF Memory, Candidate
  <2>5. /\ e \in EntryOf
        /\ e = candidates[i].last \/ e.source = n
    <3>1. CASE candidates[i].last.status = "confirmed"
      BY <2>3, <3>1 DEF T!Confirmed, Candidate
    <3>2. CASE candidates[i].last.status # "confirmed"
      BY <1>0, <3>2 DEF T!Confirmed, T!Entry, EntryOf, T!CandidateStatuses
    <3> QED BY <3>1, <3>2
  <2>6. /\ b \in forked
        /\ trustLog' = Append(trustLog, r) \/ trustLog' = trustLog \o <<r, T!State(b)>>
        /\ candidates' = [candidates EXCEPT ![i].last = e]
        /\ UNCHANGED <<trustInherited, forked, findings>>
        /\ \/ /\ T!MemoryOf(i) # {} /\ UNCHANGED memories
              /\ links' = links \cup {T!Link(i, old, "confirmed_as", n)}
           \/ /\ memories' = Append(memories, m)
              /\ links' = links \cup {T!Link(i, new, "confirmed_as", n)}
    BY <1>8, <2>1 DEF T!MarkMatch, T!ConfirmedLinks
  <2>7. T!MemoryOf(i) # {} => old \in DOMAIN memories /\ memories[old].content = c
    BY <1>0, <2>1, OldestOnes
  <2>8. \A k : /\ T!Link(i, k, "confirmed_as", n).candidate = i
               /\ T!Link(i, k, "confirmed_as", n).memory = k
               /\ T!Link(i, k, "confirmed_as", n).relation = "confirmed_as"
               /\ T!Link(i, k, "confirmed_as", n).source = n
    BY DEF T!Link
  <2> HIDE DEF r, e, m
  <2>9. /\ LogTypes' /\ LogGrows /\ n \in DOMAIN trustLog' /\ trustLog'[n] = r
        /\ \A k \in DOMAIN trustLog' : k \in DOMAIN trustLog \/ k = n \/ trustLog'[k].mark = None
    BY <1>0, <2>2, <2>6, MarkedRows
  <2>10. /\ candidates' \in Seq(Candidate) /\ DOMAIN candidates' = DOMAIN candidates
         /\ candidates'[i].last = e
         /\ \A j \in DOMAIN candidates :
              /\ candidates'[j].event = candidates[j].event
              /\ candidates'[j].content = candidates[j].content
              /\ j # i => candidates'[j] = candidates[j]
    BY <1>0, <2>1, <2>5, <2>6, CandidateMoved
  <2> HIDE DEF n, old
  <2>11. PICK l : /\ l.candidate = i /\ l.relation = "confirmed_as" /\ l.source = n
                  /\ links' = links \cup {l}
                  /\ \/ UNCHANGED memories /\ T!MemoryOf(i) # {} /\ l.memory = old
                     \/ memories' = Append(memories, m) /\ l.memory = new
    BY <2>6, <2>8
  <2>12. /\ memories' \in Seq(Memory)
         /\ \A j \in DOMAIN memories : j \in DOMAIN memories' /\ memories'[j] = memories[j]
         /\ \A j \in DOMAIN memories' : j \in DOMAIN memories \/ ~memories'[j].extracted
         /\ l.memory \in DOMAIN memories' /\ memories'[l.memory].content = c
    <3>1. CASE UNCHANGED memories /\ T!MemoryOf(i) # {} /\ l.memory = old
      BY <1>0, <2>7, <3>1 DEF LedgerTypes
    <3>2. CASE memories' = Append(memories, m) /\ l.memory = new
      <4>1. /\ memories' \in Seq(Memory) /\ new \in DOMAIN memories' /\ memories'[new] = m
            /\ \A j \in DOMAIN memories : j \in DOMAIN memories' /\ memories'[j] = memories[j]
            /\ \A j \in DOMAIN memories' : j \in DOMAIN memories \/ j = new
        BY <1>0, <2>4, <3>2, MemoryAppended
      <4> HIDE DEF new
      <4> QED BY <2>4, <3>2, <4>1
    <3> QED BY <2>11, <3>1, <3>2
  <2> HIDE DEF new
  <2>13. LedgersGrow
    BY <2>9, <2>10, <2>11, <2>12 DEF LedgersGrow
  <2>14. LedgerTypes'
    BY <1>0, <2>6, <2>9, <2>10, <2>12 DEF LedgerTypes, LogGrows
  <2>15. LinksAgree'
    BY <1>0, <2>1, <2>10, <2>11, <2>12, <2>13, LinkAdded
  <2>16. MarkersKept'
    BY <1>0, <2>2, <2>9, <2>11, <2>12, <2>13, MarkersStay
  <2>17. EntriesTrusted'
    <3>1. e = candidates[i].last \/ T!Entrusted(T!BranchOf(i), candidates[i].last.source)'
      <4> SUFFICES ASSUME e.source = n
                   PROVE  T!Entrusted(T!BranchOf(i), candidates[i].last.source)'
        BY <2>5
      <4>1. T!BranchOf(i)' = b
        BY <1>0, <2>1, <2>9, <2>10 DEF T!BranchOf, LogGrows, LedgerTypes
      <4> QED BY <2>2, <2>9, <2>10, <4>1 DEF T!Entrusted, T!Visible
    <3> QED BY <1>0, <2>6, <2>10, <2>12, <2>13, <3>1, EntriesStay
  <2> QED BY <2>9, <2>14, <2>15, <2>16, <2>17 DEF TrustInv
<1>9. ASSUME NEW k \in Incidents, NEW b \in forked, NEW e, e.status # "acknowledged",
             trustLog' = Append(trustLog, T!State(b)), findings' = [findings EXCEPT ![k] = e],
             UNCHANGED <<trustInherited, forked, candidates, memories, links>>
      PROVE  Goal
  <2>1. /\ LogTypes' /\ LogGrows
        /\ \A n \in DOMAIN trustLog' : n \in DOMAIN trustLog \/ trustLog'[n].mark = None
    BY <1>b, <1>9
  <2>2. /\ \E S : findings' \in [Incidents -> S]
        /\ findings'[k] = e /\ \A j \in Incidents : j # k => findings'[j] = findings[j]
    BY <1>0, <1>9, FindingChanged
  <2>3. LedgerTypes' /\ LinksAgree' /\ MarkersKept' /\ LedgersGrow
    BY <1>0, <1>9, <2>1, <2>2, OthersStay
  <2>4. EntriesTrusted'
    BY <1>0, <1>9, <2>2, <2>3, EntriesStay
  <2> QED BY <2>1, <2>3, <2>4 DEF TrustInv
<1>10. ASSUME NEW k \in Incidents, T!RecordFinding(k) \/ \E b \in T!Branches : T!RequestAck(k, b)
       PROVE  Goal
  <2>1. CASE T!RecordFinding(k)
    BY <1>0, <1>9, <2>1 DEF T!RecordFinding, T!Entry, LogTypes
  <2>2. ASSUME NEW b \in T!Branches, T!RequestAck(k, b) PROVE Goal
    BY <1>9, <2>2 DEF T!RequestAck, T!Entry
  <2> QED BY <1>10, <2>1, <2>2
<1>11. ASSUME NEW k \in Incidents, NEW to, NEW n \in DOMAIN trustLog,
              to \in T!FindingGates.targets, T!TransitionFinding(k, to, n)
       PROVE  Goal
  <2> DEFINE e == T!Entry(to, n)
  <2>1. e.source = n
    BY DEF T!Entry
  <2>2. /\ findings' = [findings EXCEPT ![k] = e]
        /\ T!Entrusted(Main, n) /\ trustLog[n].origin # "agent"
        /\ UNCHANGED <<trustLog, trustInherited, forked, candidates, memories, links>>
    BY <1>11 DEF T!TransitionFinding, T!Settles, T!FindingGates, T!Entrusted
  <2> HIDE DEF e
  <2>3. /\ LogTypes' /\ LogGrows
        /\ \A j \in DOMAIN trustLog' : j \in DOMAIN trustLog \/ trustLog'[j].mark = None
    BY <1>0, <2>2 DEF LogTypes, LogGrows
  <2>4. /\ \E S : findings' \in [Incidents -> S]
        /\ findings'[k] = e /\ \A j \in Incidents : j # k => findings'[j] = findings[j]
    BY <1>0, <2>2, FindingChanged
  <2>5. LedgerTypes' /\ LinksAgree' /\ MarkersKept' /\ LedgersGrow
    BY <1>0, <2>2, <2>3, <2>4, OthersStay
  <2>6. T!Entrusted(Main, findings[k].source)' /\ trustLog'[findings'[k].source].origin # "agent"
    BY <2>1, <2>2, <2>4 DEF T!Entrusted, T!Visible
  <2>7. EntriesTrusted'
    BY <1>0, <2>2, <2>4, <2>5, <2>6, EntriesStay
  <2> QED BY <2>3, <2>5, <2>7 DEF TrustInv
<1>12. ASSUME NEW d \in BOOLEAN, T!Bootstrap(d) PROVE Goal
  <2> DEFINE r == T!Row(Main, "bootstrap", "state", None)
  <2>0. Main \in forked /\ Main \in T!Branches
    BY <1>0 DEF LogTypes, T!Branches
  <2>1. r \in TrustRow /\ r.branch = Main /\ r.mark = None /\ Main \in forked
    BY <2>0, RowFits
  <2>2. /\ trustLog' = Append(trustLog, r)
        /\ UNCHANGED <<trustInherited, forked, candidates, memories, links, findings>>
    BY <1>12 DEF T!Bootstrap
  <2> HIDE DEF r
  <2>3. /\ LogTypes' /\ LogGrows
        /\ \A n \in DOMAIN trustLog' : n \in DOMAIN trustLog \/ trustLog'[n].mark = None
    BY <1>a, <2>1, <2>2
  <2>4. LedgerTypes' /\ LinksAgree' /\ MarkersKept' /\ LedgersGrow
    BY <1>0, <2>2, <2>3, OthersStay
  <2>5. EntriesTrusted'
    BY <1>0, <2>2, <2>4, EntriesStay
  <2> QED BY <2>3, <2>4, <2>5 DEF TrustInv
<1>13. ASSUME NEW d \in BOOLEAN, NEW n \in DOMAIN trustLog, T!ActivatePolicy(d, n) PROVE Goal
  BY <1>13, <1>c DEF T!ActivatePolicy
<1> QED
  BY <1>1, <1>2, <1>3, <1>4, <1>5, <1>6, <1>7, <1>8, <1>10, <1>11, <1>12, <1>13 DEF T!Next

LEMMA TrustHolds == T!Spec => []TrustInv
<1>1. T!Init => TrustInv
  <2> SUFFICES ASSUME T!Init PROVE TrustInv
    OBVIOUS
  <2>1. /\ trustLog = << >> /\ trustInherited = [b \in T!Branches |-> {}] /\ forked = {Main}
        /\ candidates = << >> /\ memories = << >> /\ links = {}
        /\ findings = [k \in Incidents |-> None]
    BY DEF T!Init
  <2>2. LogTypes
    BY <2>1 DEF LogTypes, T!Branches
  <2>3. LedgerTypes
    <3>1. findings \in [Incidents -> {None}]
      BY <2>1
    <3>2. candidates \in Seq(Candidate) /\ memories \in Seq(Memory) /\ DOMAIN candidates = {}
      BY <2>1
    <3> QED BY <3>1, <3>2 DEF LedgerTypes
  <2>4. LinksAgree
    BY <2>1 DEF LinksAgree
  <2>5. MarkersKept
    BY <2>1 DEF MarkersKept, T!MarkersKept
  <2>6. EntriesTrusted
    BY <2>1 DEF EntriesTrusted
  <2> QED BY <2>2, <2>3, <2>4, <2>5, <2>6 DEF TrustInv
<1> QED BY <1>1, TrustStep, PTL DEF T!Spec

(* No accepted marker is lost, for any branches, contents and callers: the  *)
(* memory it was kept in is never dropped, and a link to it keeps its       *)
(* content (consolidate_event and confirm_candidate_match).                 *)
THEOREM MarkersAreKept == T!Spec => []MarkersKept
<1>1. TrustInv => MarkersKept
  BY DEF TrustInv
<1> QED BY <1>1, TrustHolds, PTL

(* Every confirmed candidate of every memory, and every acknowledged        *)
(* finding, was settled by an event that its branch shows, of an origin     *)
(* that may settle it, for any branches, contents and callers; and nothing  *)
(* else confirms what extraction proposed (validate_transition,             *)
(* transition_candidate, transition_finding, confirm_candidate_match).      *)
THEOREM OnlyTrustSettles == T!Spec => []SettledByTrust
<1>1. TrustInv => SettledByTrust
  <2> SUFFICES ASSUME TrustInv PROVE SettledByTrust
    OBVIOUS
  <2>1. ASSUME NEW m \in DOMAIN memories, NEW l \in links,
               l.memory = m, T!Status(l.candidate) = "confirmed"
        PROVE  T!Entrusted(T!BranchOf(l.candidate), candidates[l.candidate].last.source)
    BY <2>1 DEF TrustInv, EntriesTrusted, LinksAgree
  <2>2. ASSUME NEW m \in DOMAIN memories, memories[m].extracted, T!Authority(m) = "confirmed"
        PROVE  \E l \in links : l.memory = m /\ T!Status(l.candidate) = "confirmed"
    BY <2>2 DEF T!Authority, TrustInv, EntriesTrusted
  <2>3. \A k \in Incidents : findings[k] # None /\ findings[k].status = "acknowledged" =>
          /\ T!Entrusted(Main, findings[k].source)
          /\ trustLog[findings[k].source].origin # "agent"
    BY DEF TrustInv, EntriesTrusted
  <2> QED BY <2>1, <2>2, <2>3 DEF SettledByTrust, T!SettledByTrust
<1> QED BY <1>1, TrustHolds, PTL
=============================================================================
