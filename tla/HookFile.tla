------------------------------ MODULE HookFile ------------------------------
(***************************************************************************)
(* The hook configuration of one host in one project (hooks.py): installing *)
(* reconciles the handlers of this program with those of others,            *)
(* uninstalling removes them, and _write_json replaces the file with a      *)
(* verified backup beside it.                                               *)
(*                                                                         *)
(* A step is one call of the file system; it may fail, or the process may   *)
(* die after it, and a call that overwrites a file in place may leave it    *)
(* torn.  A configuration maps events to groups of handlers, in order.      *)
(* Others edit the file only while no installer runs.  Matchers, timeouts   *)
(* and values that are no handler groups are left out but for Malformed.    *)
(***************************************************************************)
EXTENDS Naturals, Sequences, SequencesExt

CONSTANTS
  Events, Desired,              \* events of the host, those to handle
  Own, Stale, Legacy,           \* handlers of this program: the command to be
                                \* installed, an older one, one of its old name
  Handlers,                     \* these and those of others
  Configs,                      \* what others may put into the file
  NoFile, Torn, Malformed       \* no file, unreadable, no list of groups

HandlerGroups == Seq(SUBSET Handlers)
Configurations == [Events -> {Malformed} \cup HandlerGroups]

ASSUME HandlersAreKnown == {Own, Stale, Legacy} \subseteq Handlers
ASSUME ContentsDiffer ==
  /\ Configs \subseteq Configurations
  /\ NoFile \notin Configurations /\ Torn \notin Configurations /\ NoFile # Torn
  /\ Malformed \notin HandlerGroups

VARIABLES
  file, backup,   \* contents of the two files
  pc, op,         \* where the installer is, and what it does
  plan, original, \* its locals: what it writes, what it found
  inPlace,        \* replacing this file is refused (a network file system)
  others          \* groups of others, as they last left the file

fileVars == <<file, backup, pc, op, plan, original, inPlace, others>>

Ops == {"install", "uninstall"}
Readable(content) == content \notin {NoFile, Torn}
Empty == [e \in Events |-> <<>>]
Contents(content) == IF content = NoFile THEN Empty ELSE content

----------------------------------------------------------------------------
\* What is left of groups without some handlers; empty groups are dropped.
Kept(groups, handlers) ==
  LET kept[i \in 0..Len(groups)] ==
        IF i = 0 THEN <<>>
        ELSE IF groups[i] \subseteq handlers THEN kept[i - 1]
        ELSE Append(kept[i - 1], groups[i] \ handlers)
  IN kept[Len(groups)]

\* A key with no group left is dropped; an absent key is the empty sequence.
Without(groups, handlers) ==
  IF groups = Malformed \/ \A i \in DOMAIN groups : groups[i] \cap handlers = {}
  THEN groups ELSE Kept(groups, handlers)

\* _strip_own_handlers and _is_own_handler.
Stripped_OwnOnly(config) == [e \in Events |-> Without(config[e], {Own})]
Stripped(config) == [e \in Events |-> Without(config[e], {Own, Stale, Legacy})]

\* _merge_command_hooks.
Mergeable(config) == \A e \in Desired : config[e] # Malformed
Merged(config) ==
  [e \in Events |-> IF e \in Desired THEN Append(Stripped(config)[e], {Own}) ELSE Stripped(config)[e]]

\* _remove_command_hooks: the handlers of the old name are not recognized.
Removed(config) == [e \in Events |-> Without(config[e], {Own, Stale})]

\* What belongs to others: their groups without the handlers of this program.
Others(config) ==
  [e \in Events |->
     IF config[e] = Malformed THEN Malformed ELSE Kept(config[e], {Own, Stale, Legacy})]

----------------------------------------------------------------------------
InitFile ==
  /\ file = NoFile /\ backup = NoFile
  /\ pc = "idle" /\ op = "install" /\ plan = NoFile /\ original = NoFile
  /\ inPlace = FALSE
  /\ others = Others(Empty)

\* Others rewrite the file, or put the backup back when the file is torn.
Edit(config) ==
  /\ pc = "idle" /\ file # config
  /\ file' = config
  /\ others' = Others(config)
  /\ UNCHANGED <<backup, pc, op, plan, original, inPlace>>

PutBack ==
  /\ pc = "idle" /\ file = Torn /\ Readable(backup)
  /\ file' = backup
  /\ UNCHANGED <<backup, pc, op, plan, original, inPlace, others>>

\* install_hooks and uninstall_hooks read the file and work out what to write.
Start(o, refused) ==
  /\ pc = "idle"
  /\ file # Torn
  /\ o = "install" => Mergeable(Contents(file))
  /\ o = "uninstall" => file # NoFile /\ Removed(file) # file
  /\ op' = o
  /\ plan' = IF o = "install" THEN Merged(Contents(file)) ELSE Removed(file)
  /\ inPlace' = refused
  /\ pc' = "planned"
  /\ UNCHANGED <<file, backup, original, others>>

\* _write_json: what is there is read again and kept aside.
ReadOriginal ==
  /\ pc = "planned"
  /\ original' = file
  /\ pc' = IF file = NoFile THEN "saved" ELSE "saving"
  /\ UNCHANGED <<file, backup, op, plan, inPlace, others>>

SaveBackup_Skipped == pc = "saving" /\ pc' = "saved" /\ UNCHANGED backup
SaveBackup ==
  \/ pc = "saving" /\ ~inPlace /\ backup' = original /\ pc' = "saved"
  \/ pc = "saving" /\ inPlace /\ backup' = Torn /\ pc' = "savingInPlace"
  \/ pc = "savingInPlace" /\ backup' = original /\ pc' = "saved"
Save == SaveBackup /\ UNCHANGED <<file, op, plan, original, inPlace, others>>

\* The temporary file is moved over the file, or the file is overwritten; then it
\* is read again.
Write ==
  /\ \/ pc = "saved" /\ ~inPlace /\ file' = plan /\ pc' = "written"
     \/ pc = "saved" /\ inPlace /\ file' = Torn /\ pc' = "writingInPlace"
     \/ pc = "writingInPlace" /\ file' = plan /\ pc' = "written"
     \/ pc = "written" /\ pc' = "done" /\ UNCHANGED file
  /\ UNCHANGED <<backup, op, plan, original, inPlace, others>>

\* A step fails: before the file is touched that is all, afterwards what was
\* found is written back, or a new file removed.
Fail ==
  /\ \/ pc \in {"planned", "saving", "savingInPlace"} /\ pc' = "failed"
     \/ pc \in {"saved", "writingInPlace", "written"} /\ pc' = "restoring"
  /\ UNCHANGED <<file, backup, op, plan, original, inPlace, others>>

RestoreFile ==
  \/ pc = "restoring" /\ original = NoFile /\ file' = NoFile /\ pc' = "failed"
  \/ pc = "restoring" /\ original # NoFile /\ file' = Torn /\ pc' = "restoringInPlace"
  \/ pc = "restoringInPlace" /\ file' = original /\ pc' = "failed"
  \/ pc = "restoringInPlace" /\ pc' = "broken" /\ UNCHANGED file
Restore == RestoreFile /\ UNCHANGED <<backup, op, plan, original, inPlace, others>>

\* The process ends, or dies wherever it is, and forgets its locals.
Exit ==
  /\ pc # "idle"
  /\ pc' = "idle" /\ plan' = NoFile /\ original' = NoFile
  /\ UNCHANGED <<file, backup, op, inPlace, others>>

NextFile ==
  \/ \E config \in Configs : Edit(config)
  \/ PutBack
  \/ \E o \in Ops, refused \in BOOLEAN : Start(o, refused)
  \/ ReadOriginal \/ Save \/ Write \/ Fail \/ Restore \/ Exit

----------------------------------------------------------------------------
\* Whatever fails and wherever the installer dies, what others last put into the
\* file is in the file or in the backup beside it.  (_write_json.)
Holds(content) == Readable(content) /\ Others(content) = others
NothingLost == others # Others(Empty) => Holds(file) \/ Holds(backup)

\* After an installation the handlers of this program are exactly the desired
\* ones, after a removal no current one is left, and the groups of others are as
\* they were, in their order, also after a crash, a repair and a retry.
\* (_strip_own_handlers, _merge_command_hooks, _remove_command_hooks.)
Mine(groups) == {i \in DOMAIN groups : groups[i] \cap {Own, Stale, Legacy} # {}}
Reconciled ==
  pc = "done" =>
    /\ Others(file) = others
    /\ \A e \in {k \in Events : file[k] # Malformed} :
         IF op = "uninstall" THEN \A i \in DOMAIN file[e] : file[e][i] \cap {Own, Stale} = {}
         ELSE IF e \in Desired THEN Mine(file[e]) = {Len(file[e])} /\ Last(file[e]) = {Own}
         ELSE Mine(file[e]) = {}

\* An operation that fails leaves the file as it found it; when it cannot even
\* write that back, the backup is what it found.  (_write_json.)
FailureRestores ==
  /\ pc = "failed" /\ original # NoFile => file = original
  /\ pc = "broken" => backup = original

\* Both: nobody's handlers are lost to a failure or a crash.
FileSafe == NothingLost /\ FailureRestores
=============================================================================
