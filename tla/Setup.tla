-------------------------------- MODULE Setup --------------------------------
(***************************************************************************)
(* Setting the hosts of a project up and taking them down again             *)
(* (installer.py): hook files, MCP registrations, the installer's           *)
(* configuration that names them, and the project's database.               *)
(*                                                                         *)
(* One setup or removal runs at a time; each of its steps may fail or be    *)
(* the last one before the process dies.  The registrations of the hosts in *)
(* Shared are kept per user and not per project, so another project's setup *)
(* takes them over; the tool of a host is found, or not.  Simplifications:  *)
(* project scope only, no dry runs, plugins and model downloads; the policy *)
(* that a setup asks for is left out; the tools of hosts are external.      *)
(***************************************************************************)
EXTENDS FiniteSets

CONSTANTS
  Projects, Hosts,
  Shared,        \* hosts with one registration per user (codex, openhands)
  Inspected,     \* shared hosts that are asked whose registration it is (codex)
  EndsIn,        \* <<p, q>>: the path of q ends in that of p, as /home/u/app in /app
  Tools,         \* hosts that are registered with through a tool of theirs
  SurfaceChoices,  \* sets of surfaces that setups install
  Nothing

VARIABLES
  hooks,        \* project -> hosts with handlers in their hook file
  registered,   \* <<project, host>> pairs with an MCP registration
  config,       \* project -> what the installer's configuration says, or Nothing
  database,     \* projects with a database
  run           \* the setup or removal that runs, or Nothing

setupVars == <<hooks, registered, config, database, run>>

Surfaces == {"hook", "mcp"}
Config(hosts, surfaces) == [hosts |-> hosts, surfaces |-> surfaces]
ASSUME NothingIsNoConfig ==
  \A hosts \in SUBSET Hosts, surfaces \in SurfaceChoices : Config(hosts, surfaces) # Nothing

InitSetup ==
  /\ hooks = [p \in Projects |-> {}]
  /\ registered = {}
  /\ config = [p \in Projects |-> Nothing]
  /\ database = {}
  /\ run = Nothing

Running(kind) == run # Nothing /\ run.kind = kind
Pending(surface) == {h \in run.hosts : <<surface, h>> \in run.todo}

----------------------------------------------------------------------------
\* run_setup: hooks of every host, then registrations, then the configuration,
\* then the database.
StartSetup(p, hosts, surfaces) ==
  /\ run = Nothing
  /\ run' = [kind |-> "setup", project |-> p, hosts |-> hosts, surfaces |-> surfaces,
             todo |-> surfaces \X hosts, stage |-> "surfaces"]
  /\ UNCHANGED <<hooks, registered, config, database>>

InstallHook(h) ==
  /\ Running("setup") /\ h \in Pending("hook")
  /\ hooks' = [hooks EXCEPT ![run.project] = @ \cup {h}]
  /\ run' = [run EXCEPT !.todo = @ \ {<<"hook", h>>}]
  /\ UNCHANGED <<registered, config, database>>

\* A shared registration of another project is replaced.
Taken(p, h) == {r \in registered : h \in Shared /\ r[2] = h}
Register(h, found) ==
  /\ Running("setup") /\ Pending("hook") = {} /\ h \in Pending("mcp")
  /\ registered' = IF ~found THEN registered
                   ELSE (registered \ Taken(run.project, h)) \cup {<<run.project, h>>}
  /\ run' = [run EXCEPT !.todo = @ \ {<<"mcp", h>>}]
  /\ UNCHANGED <<hooks, config, database>>

\* write_configuration: the last setup is the one that counts.
WriteConfig ==
  /\ Running("setup") /\ run.todo = {} /\ run.stage = "surfaces"
  /\ config' = [config EXCEPT ![run.project] = Config(run.hosts, run.surfaces)]
  /\ run' = [run EXCEPT !.stage = "database"]
  /\ UNCHANGED <<hooks, registered, database>>

OpenDatabase ==
  /\ Running("setup") /\ run.stage = "database"
  /\ database' = database \cup {run.project}
  /\ run' = Nothing
  /\ UNCHANGED <<hooks, registered, config>>

----------------------------------------------------------------------------
\* run_uninstall, of the hosts that are named or else those of the configuration,
\* and of the surfaces that it has.
StartRemoval(p, named, delete) ==
  LET says == config[p]
      hosts == IF named # {} \/ says = Nothing THEN named ELSE says.hosts
      surfaces == IF says = Nothing THEN Surfaces ELSE says.surfaces
  IN /\ run = Nothing /\ hosts # {}
     /\ run' = [kind |-> "removal", project |-> p, hosts |-> hosts, surfaces |-> surfaces,
                todo |-> surfaces \X hosts, delete |-> delete, incomplete |-> FALSE,
                stage |-> "surfaces"]
     /\ UNCHANGED <<hooks, registered, config, database>>

RemoveHook(h) ==
  /\ Running("removal") /\ h \in Pending("hook")
  /\ hooks' = [hooks EXCEPT ![run.project] = @ \ {h}]
  /\ run' = [run EXCEPT !.todo = @ \ {<<"hook", h>>}]
  /\ UNCHANGED <<registered, config, database>>

\* A host forgets its registration for this project, a shared one whatever it has.
\* An inspected one is asked for it first, and it is removed if the project and
\* its database occur in it, be it inside the longer path of another project.
Removable(p, h) == registered \cap ((IF h \in Shared THEN Projects ELSE {p}) \X {h})
Verified_AnyOwner(p, h, found) == found
Verified(p, h, found) ==
  found /\ (h \in Inspected =>
              \A r \in registered : r[2] = h => r[1] = p \/ <<p, r[1]>> \in EndsIn)
Unregister(h, found) ==
  /\ Running("removal") /\ Pending("hook") = {} /\ h \in Pending("mcp")
  /\ LET certain == Verified(run.project, h, found)
     IN /\ registered' = IF found /\ certain THEN registered \ Removable(run.project, h)
                         ELSE registered
        /\ run' = [run EXCEPT !.todo = @ \ {<<"mcp", h>>}, !.incomplete = @ \/ ~certain]
  /\ UNCHANGED <<hooks, config, database>>

\* The configuration, and the data when that was asked for, go last and only
\* after every removal was certain.
Forget ==
  /\ Running("removal") /\ run.todo = {} /\ run.stage = "surfaces"
  /\ config' = IF run.incomplete THEN config ELSE [config EXCEPT ![run.project] = Nothing]
  /\ run' = [run EXCEPT !.stage = "data"]
  /\ UNCHANGED <<hooks, registered, database>>

DeleteData ==
  /\ Running("removal") /\ run.stage = "data"
  /\ database' = IF run.delete /\ ~run.incomplete THEN database \ {run.project} ELSE database
  /\ run' = Nothing
  /\ UNCHANGED <<hooks, registered, config>>

\* A step raises, or the process dies.
Abort ==
  /\ run # Nothing
  /\ run' = Nothing
  /\ UNCHANGED <<hooks, registered, config, database>>

NextSetup ==
  \/ \E p \in Projects, hosts \in SUBSET Hosts \ {{}}, surfaces \in SurfaceChoices : StartSetup(p, hosts, surfaces)
  \/ \E h \in Hosts : InstallHook(h) \/ RemoveHook(h)
  \/ \E h \in Hosts, found \in BOOLEAN :
        (h \notin Tools => found) /\ (Register(h, found) \/ Unregister(h, found))
  \/ WriteConfig \/ OpenDatabase
  \/ \E p \in Projects, named \in SUBSET Hosts, delete \in BOOLEAN :
        StartRemoval(p, named, delete)
  \/ Forget \/ DeleteData
  \/ Abort

----------------------------------------------------------------------------
\* A removal forgets the configuration of a project, and deletes its data, only
\* when nothing is left of the surfaces that it had to take down, though tools of
\* hosts go missing and earlier runs died half way.  (run_uninstall.)
CleanedUp(p) ==
  (config[p] # Nothing /\ config'[p] = Nothing) \/ p \in database \ database' =>
    \A h \in run.hosts : /\ "hook" \in run.surfaces => h \notin hooks[p]
                         /\ "mcp" \in run.surfaces => <<p, h>> \notin registered

\* It takes nothing from another project but a shared registration: one of a host
\* that is not inspected, or of a project whose path ends in that of this one.
\* (_codex_registration_matches_project.)
Untouched(q) ==
  /\ hooks'[q] = hooks[q] /\ config'[q] = config[q]
  /\ \A h \in Hosts :
       <<q, h>> \in registered \ registered' =>
         h \in Shared /\ (h \in Inspected => <<run.project, q>> \in EndsIn)
  /\ q \in database => q \in database'

\* A removal is complete before it forgets, and keeps to its own project as far as
\* it can tell.
RemovalSafe ==
  [][\A p \in Projects :
       /\ CleanedUp(p)
       /\ Running("removal") /\ run.project # p => Untouched(p)]_setupVars
=============================================================================
