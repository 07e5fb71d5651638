----------------------------- MODULE MCLedgers -----------------------------
(* What a store keeps besides its events: the versions of tasks, the       *)
(* ledgers of candidates, findings and policy, and the schema with its     *)
(* migrations.  The three parts share nothing, so each is explored from    *)
(* the initial states of the others.  Tasks: two tasks and the main branch *)
(* without sessions, which MCHookDelivery has.  Trust: a main branch, a    *)
(* task forked from it, one content, for contents never meet.  Opening:    *)
(* two processes; a new database, one older than the ledger of migrations, *)
(* one half way through them, and a newer one.                             *)
EXTENDS StoreOpening, TLC

CONSTANTS
  Main, None, Tasks, Sessions, Delegation, MaxEvents, MaxVersions, t1, t2,       \* tasks
  Forks, Contents, Incidents, Callers, Rebootstrap, MaxTrustEvents, MaxCandidates \* trust

VARIABLES
  log, inherited, cursor, versions, sessionBranch, taskOf, open, closed,
  trustLog, trustInherited, forked, candidates, memories, links, findings, policy

W == INSTANCE Workstreams
T == INSTANCE TrustLedgers
       WITH log <- trustLog, inherited <- trustInherited, MaxEvents <- MaxTrustEvents

taskVars == <<log, inherited, cursor, versions, sessionBranch, taskOf, open, closed>>
trustVars == <<trustLog, trustInherited, forked, candidates, memories, links, findings, policy>>
allVars == <<openVars, taskVars, trustVars>>

Unopened == opens = 0 /\ found.has = {}    \* one of the databases is enough

MCInit == InitOpening /\ W!WsInit /\ T!Init
MCNext ==
  \/ W!WsNext /\ T!Init /\ Unopened /\ UNCHANGED <<trustVars, openVars>>
  \/ W!WsInit /\ T!Next /\ Unopened /\ UNCHANGED <<taskVars, openVars>>
  \/ W!WsInit /\ T!Init /\ NextOpening /\ UNCHANGED <<taskVars, trustVars>>
MCSpec == MCInit /\ [][MCNext]_allVars

EvidenceMovesOnce == W!EvidenceMovesOnce
SettledByTrust == T!SettledByTrust
MarkersKept == T!MarkersKept

----------------------------------------------------------------------------
Database(version, has) == [version |-> version, has |-> has]
MCFounds ==
  {Database(0, {}), Database(0, {"tables"}),
   Database(8, {"tables", "base", "hashes", "validity"}),
   Database(12, {"tables", "base", "hashes", "validity", "kinds", "later"})}
OpenerSymmetry == Permutations(Openers)
=============================================================================
