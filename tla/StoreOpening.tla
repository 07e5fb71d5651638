---------------------------- MODULE StoreOpening ----------------------------
(***************************************************************************)
(* Opening a database and trusting it (storage.py): the version gate, the   *)
(* backup before a change, the numbered migrations with their ledger, and   *)
(* the guard that verifies the chain again after another connection         *)
(* committed.                                                               *)
(*                                                                         *)
(* Each process has one connection, and a statement outside a transaction   *)
(* is a step of its own.  PRAGMA data_version and schema_version are only   *)
(* ever compared for equality: moved and verified say whether a commit of   *)
(* another connection lies between.  Somebody else may damage the events or *)
(* the artifacts and repair them.  Simplifications: full-text index and     *)
(* in-memory stores are left out, a temporary backup that stays behind is   *)
(* not seen again, a process that gives up can open the database again.     *)
(***************************************************************************)
EXTENDS Integers

CONSTANTS
  Openers,    \* processes
  Nobody,     \* not a process, not a backup
  Founds,     \* databases that the processes may find: version and content
  MaxOpens    \* bound: openings in all

VARIABLES
  found,      \* the database as it was found
  db,         \* the database: its version and what its schema has
  ledger,     \* rows of schema_migrations
  backups,    \* verified copies beside the database
  damaged,    \* parts of the data that do not match their hashes
  sealed,     \* the trigger that keeps snapshots as they are is there
  exclusive,  \* process that holds the database in rollback-journal mode
  at,         \* process -> where it is
  read,       \* process -> the version it has read or migrated to
  copy,       \* process -> its backup, or Nobody
  moved,      \* process -> others committed since its verification began
  valid,      \* process -> what it has verified so far matches
  verified,   \* process -> the versions it recorded are the current ones
  serving,    \* processes whose store is open
  tries,      \* process -> verifications it may still begin
  opens       \* openings so far

storeVars == <<db, ledger, backups, sealed, exclusive>>
ownVars == <<read, copy, valid, tries>>
openVars == <<found, storeVars, damaged, at, moved, verified, serving, ownVars, opens>>

First == 7
Current == 11
Base == {"tables", "base"}
Alters(v) == IF v = 8 THEN {"validity"} ELSE IF v = 9 THEN {"kinds"} ELSE {}
Row(v, from, backup) == [version |-> v, from |-> from, backup |-> backup]

\* Databases that this program or a newer one left: whatever else they have, their
\* schema has what their version promises.
ASSUME FoundsAssumption ==
  \A f \in Founds :
    /\ f = [version |-> f.version, has |-> f.has] /\ f.version \in Nat
    /\ \A v \in First..f.version : Alters(v) \subseteq f.has
    /\ f.version >= Current => Base \cup {"hashes"} \subseteq f.has

InitOpening ==
  /\ found \in Founds /\ db = found
  /\ ledger = {Row(v, v - 1, Nobody) : v \in First..found.version}
  /\ backups = {} /\ damaged = {} /\ sealed = TRUE /\ exclusive = Nobody
  /\ at = [p \in Openers |-> "closed"]
  /\ read = [p \in Openers |-> 0] /\ copy = [p \in Openers |-> Nobody]
  /\ moved = [p \in Openers |-> FALSE] /\ valid = [p \in Openers |-> FALSE]
  /\ serving = {} /\ verified = [p \in Openers |-> FALSE]
  /\ tries = [p \in Openers |-> 0] /\ opens = 0

Verifying(p) == at[p] \in {"events", "compare"}

\* What a commit of one connection means to the others.
Committed(p) ==
  /\ moved' = [q \in Openers |-> Verifying(q) /\ (q # p \/ moved[q])]
  /\ verified' = [q \in Openers |-> q = p /\ verified[q]]
Quiet == UNCHANGED <<moved, verified>>
Goes(p, places, next) ==
  /\ at[p] \in places
  /\ at' = [at EXCEPT ![p] = next]
  /\ UNCHANGED found
Steps(p, places, next) == Goes(p, places, next) /\ UNCHANGED opens

----------------------------------------------------------------------------
\* _configure, or after an operational error _configure_rollback_fallback, which
\* needs the database for itself.
Connect(p) ==
  /\ Goes(p, {"closed"}, "connected")
  /\ opens < MaxOpens /\ opens' = opens + 1
  /\ exclusive = Nobody
  /\ UNCHANGED <<storeVars, damaged, ownVars, serving>> /\ Quiet

Opening == {"connected", "copying", "copied", "base", "unseal", "hash", "seal", "migrate"}
FallBack(p) ==
  /\ Steps(p, Opening, "connected")
  /\ exclusive = Nobody /\ \A q \in Openers \ {p} : at[q] = "closed"
  /\ exclusive' = p
  /\ read' = [read EXCEPT ![p] = 0] /\ copy' = [copy EXCEPT ![p] = Nobody]
  /\ UNCHANGED <<db, ledger, backups, sealed, damaged, valid, tries, serving>> /\ Quiet

\* _stored_storage_schema_version and _has_existing_schema; a newer database is
\* refused.
NeedsBackup_Versioned(version) == 0 < version /\ version < Current
NeedsBackup(version) == version < Current /\ db.has # {}
ReadVersion(p) ==
  /\ Steps(p, {"connected"}, IF NeedsBackup(db.version) THEN "copying" ELSE "base")
  /\ db.version <= Current
  /\ read' = [read EXCEPT ![p] = db.version]
  /\ UNCHANGED <<storeVars, damaged, copy, valid, tries, serving>> /\ Quiet

\* _create_schema_backup: copied to a temporary file, then verified and renamed.
CopyDatabase(p) ==
  /\ Steps(p, {"copying"}, "copied")
  /\ copy' = [copy EXCEPT ![p] = db]
  /\ UNCHANGED <<storeVars, damaged, read, valid, tries, serving>> /\ Quiet

KeepBackup(p) ==
  /\ Steps(p, {"copied"}, "base")
  /\ backups' = backups \cup {copy[p]}
  /\ UNCHANGED <<db, ledger, sealed, exclusive, damaged, ownVars, serving>> /\ Quiet

\* _initialize: additions outside the numbered migrations.
ApplyBase(p) ==
  /\ Steps(p, {"base"}, "unseal")
  /\ db' = [db EXCEPT !.has = @ \cup Base]
  /\ UNCHANGED <<ledger, backups, sealed, exclusive, damaged, ownVars, serving>> /\ Committed(p)

\* _initialize_snapshot_schema: old snapshots get their hashes while the trigger is
\* gone, unless somebody who opens too has brought it back.
Unseal(p) ==
  /\ Steps(p, {"unseal"}, "hash")
  /\ sealed' = FALSE
  /\ UNCHANGED <<db, ledger, backups, exclusive, damaged, ownVars, serving>> /\ Committed(p)

HashSnapshots(p) ==
  /\ Steps(p, {"hash"}, "seal")
  /\ "hashes" \notin db.has => ~sealed
  /\ db' = [db EXCEPT !.has = @ \cup {"hashes"}]
  /\ UNCHANGED <<ledger, backups, sealed, exclusive, damaged, ownVars, serving>> /\ Committed(p)

Seal(p) ==
  /\ Steps(p, {"seal"}, "migrate")
  /\ sealed' = TRUE
  /\ UNCHANGED <<db, ledger, backups, exclusive, damaged, ownVars, serving>> /\ Committed(p)

\* _apply_schema_migrations: one transaction per version.  The row of a version
\* that another process has migrated to is there already, and the transaction fails.
Target(p) == IF read[p] + 1 < First THEN First ELSE read[p] + 1
Taken_Ignored(v) == FALSE
Taken(v) == \E row \in ledger : row.version = v
Migrate(p) ==
  LET v == Target(p)
      new == Row(v, read[p], copy[p])
  IN /\ Steps(p, {"migrate"}, "migrate")
     /\ v <= Current /\ ~Taken(v)
     /\ db' = [version |-> v, has |-> db.has \cup Alters(v)]
     /\ ledger' = ledger \cup {new}
     /\ read' = [read EXCEPT ![p] = v]
     /\ UNCHANGED <<backups, sealed, exclusive, damaged, copy, valid, tries, serving>> /\ Committed(p)

Migrated(p) ==
  /\ Steps(p, {"migrate"}, "guard")
  /\ read[p] = Current
  /\ tries' = [tries EXCEPT ![p] = 3]
  /\ read' = [read EXCEPT ![p] = 0] /\ copy' = [copy EXCEPT ![p] = Nobody]
  /\ UNCHANGED <<storeVars, damaged, valid, serving>> /\ Quiet

\* An exception, of a conflicting migration or a refused update for one, or the end
\* of the process.
Close(p) ==
  /\ Steps(p, {at[p]} \ {"closed"}, "closed")
  /\ serving' = serving \ {p}
  /\ exclusive' = IF exclusive = p THEN Nobody ELSE exclusive
  /\ read' = [read EXCEPT ![p] = 0] /\ copy' = [copy EXCEPT ![p] = Nobody]
  /\ moved' = [moved EXCEPT ![p] = FALSE] /\ verified' = [verified EXCEPT ![p] = FALSE]
  /\ valid' = [valid EXCEPT ![p] = FALSE] /\ tries' = [tries EXCEPT ![p] = 0]
  /\ UNCHANGED <<db, ledger, backups, sealed, damaged>>

----------------------------------------------------------------------------
\* assert_integrity, at the end of the opening and in _guard_read: the events are
\* verified, then what hangs on them, and all again when others committed
\* meanwhile, three times in all.
Guard(p) ==
  /\ Steps(p, {"ready"}, "guard")
  /\ ~verified[p]
  /\ tries' = [tries EXCEPT ![p] = 3]
  /\ UNCHANGED <<storeVars, damaged, read, copy, valid, serving>> /\ Quiet

VerifyEvents(p) ==
  /\ Steps(p, {"guard"}, "events")
  /\ moved' = [moved EXCEPT ![p] = FALSE]
  /\ valid' = [valid EXCEPT ![p] = "events" \notin damaged]
  /\ tries' = [tries EXCEPT ![p] = @ - 1]
  /\ UNCHANGED <<storeVars, damaged, verified, read, copy, serving>>

VerifyArtifacts(p) ==
  /\ Steps(p, {"events"}, "compare")
  /\ valid' = [valid EXCEPT ![p] = @ /\ "artifacts" \notin damaged]
  /\ UNCHANGED <<storeVars, damaged, read, copy, tries, serving>> /\ Quiet

Unchanged_Assumed(p) == TRUE
Unchanged(p) == ~moved[p]
Verdict(p, next) ==
  /\ Steps(p, {"compare"}, next)
  /\ moved' = [moved EXCEPT ![p] = FALSE] /\ valid' = [valid EXCEPT ![p] = FALSE]
  /\ UNCHANGED <<storeVars, damaged, read, copy>>

Trust(p) ==
  /\ valid[p] /\ Unchanged(p) /\ Verdict(p, "ready")
  /\ serving' = serving \cup {p}
  /\ verified' = [verified EXCEPT ![p] = TRUE]
  /\ tries' = [tries EXCEPT ![p] = 0]

TryAgain(p) ==
  /\ valid[p] /\ ~Unchanged(p) /\ Verdict(p, IF tries[p] > 0 THEN "guard" ELSE "refused")
  /\ UNCHANGED <<verified, serving, tries>>

Mismatch(p) ==
  /\ ~valid[p] /\ Verdict(p, "refused")
  /\ tries' = [tries EXCEPT ![p] = 0]
  /\ UNCHANGED <<verified, serving>>

\* A reader that is refused may ask again; an opener gives up (StoreIntegrityError).
AskAgain(p) ==
  /\ p \in serving /\ Steps(p, {"refused"}, "ready")
  /\ UNCHANGED <<storeVars, damaged, ownVars, serving>> /\ Quiet

\* Any transaction of a store that is open.
Write(p) ==
  /\ Steps(p, {"ready"}, "ready")
  /\ UNCHANGED <<storeVars, damaged, ownVars, serving>> /\ Committed(p)

\* Somebody else changes the data, or puts it right again: nobody looks at it before
\* the store is migrated.
Parts == {"events", "artifacts"}
Damage(part) ==
  /\ exclusive = Nobody /\ \E p \in Openers : at[p] \notin Opening \cup {"closed"}
  /\ damaged' = (damaged \ {part}) \cup ({part} \ damaged)
  /\ moved' = [p \in Openers |-> Verifying(p)] /\ verified' = [p \in Openers |-> FALSE]
  /\ UNCHANGED <<found, storeVars, at, ownVars, serving, opens>>

NextOpening ==
  \/ \E p \in Openers :
       \/ Connect(p) \/ FallBack(p) \/ ReadVersion(p) \/ CopyDatabase(p) \/ KeepBackup(p)
       \/ ApplyBase(p) \/ Unseal(p) \/ HashSnapshots(p) \/ Seal(p)
       \/ Migrate(p) \/ Migrated(p) \/ Close(p)
       \/ Guard(p) \/ VerifyEvents(p) \/ VerifyArtifacts(p)
       \/ Trust(p) \/ TryAgain(p) \/ Mismatch(p) \/ AskAgain(p) \/ Write(p)
  \/ \E part \in Parts : Damage(part)

SpecOpening == InitOpening /\ [][NextOpening]_openVars

----------------------------------------------------------------------------
\* Whoever changed an existing schema, and wherever that was interrupted, a verified
\* copy of the database as it was found lies beside it, every ledger row names a copy
\* older than its migration, and a newer database is left alone.  (_initialize,
\* _create_schema_backup; docs/backup.md, "Schema upgrades".)
BackupBeforeChange ==
  /\ db # found /\ found.has # {} => found \in backups
  /\ \A row \in ledger : row.backup # Nobody => row.backup.version <= row.from
  /\ found.version > Current => db = found

\* The ledger has one row for every version passed, each from the version before, and
\* the schema has what its version promises, though openers race through the
\* migrations and die between them.  (_apply_schema_migrations.)
HistoryComplete ==
  LET rows == {row.version : row \in ledger}
  IN /\ rows = First..db.version
     /\ \A x, y \in ledger : x.version = y.version => x = y
     /\ \A row \in ledger : row.from = IF row.version = First /\ found.version < First
                                       THEN found.version ELSE row.version - 1
     /\ \A v \in rows : Alters(v) \subseteq db.has
     /\ \A p \in serving : db.version = Current /\ Base \cup {"hashes"} \subseteq db.has

\* A store takes its data for verified only while it is undamaged, whatever others
\* commit while it verifies.  (assert_integrity, _guard_read.)
VerifiedIsSound == \A p \in Openers : verified[p] => damaged = {}
=============================================================================
