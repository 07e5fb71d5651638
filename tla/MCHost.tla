------------------------------- MODULE MCHost -------------------------------
(* What a host is given: the packet of a session, and the files and         *)
(* registrations of an installation.  The three parts share nothing, so     *)
(* each is explored from the initial state of the two others.               *)
EXTENDS PromptPacket, HookFile, Setup

CONSTANTS call, other, long, short, source, start, compact, foreign, second, here, there,
  claude, codex, openhands

hostVars == <<log, fileVars, setupVars>>

\* Of the other project one host at a time, of those that are registered once per
\* user, and no hooks: nothing else of its own can meet what this project does.
\* This one meets a registration of openhands only in a removal.
Few ==
  run' # Nothing =>
    IF run'.project = there
    THEN run'.hosts \in {{codex}, {openhands}} /\ (run'.kind = "setup" => run'.surfaces = {"mcp"})
    ELSE /\ run'.hosts \subseteq {claude, codex} \/ (run'.kind = "removal" /\ run'.hosts = {openhands})
         /\ run'.kind = "setup" => run'.surfaces = Surfaces

MCInit == Init /\ InitFile /\ InitSetup
MCNext ==
  \/ Next /\ InitFile /\ InitSetup /\ UNCHANGED <<fileVars, setupVars>>
  \/ Init /\ NextFile /\ InitSetup /\ UNCHANGED <<log, setupVars>>
  \/ Init /\ InitFile /\ NextSetup /\ Few /\ UNCHANGED <<log, fileVars>>
MCSpec == MCInit /\ [][MCNext]_hostVars

----------------------------------------------------------------------------
Draft(kind, id, hidden, path, body) ==
  [kind |-> kind, call |-> id, hidden |-> hidden, file |-> path, body |-> body]
MCDrafts ==
  {Draft("message", None, TRUE, None, <<short>>),
   Draft("message", None, FALSE, None, <<long>>),
   Draft("message", None, FALSE, None, <<long, short, long>>),
   Draft("tool_output", call, FALSE, source, <<long, short, long>>)}
    \cup {Draft("memory", None, hidden, None, <<short>>) : hidden \in BOOLEAN}
    \cup {Draft("tool_call", id, FALSE, None, <<short>>) : id \in {call, other, None}}
    \cup {Draft("tool_output", id, FALSE, None, <<short, long>>) : id \in {call, other, None}}
MCTextBytes == [x \in {long, short} |-> IF x = long THEN 30 ELSE 10]
MCBudgets == {30, 50, 51, 81, 101}

MCHandlers == {Own, Stale, Legacy, foreign, second}
Two(x, y) == [e \in Events |-> IF e = start THEN x ELSE y]
MCConfigs ==
  {Two(<<{foreign}>>, <<>>), Two(<<{Stale, foreign}, {second}>>, <<{Legacy}, {}>>),
   Two(<<{Own}, {Legacy}>>, <<{foreign}, {Stale}>>), Two(Malformed, <<{second, Stale}>>),
   Two(<<{}, {second}>>, Malformed)}

MCHosts == {claude, codex, openhands}
\* The path of the other project ends in that of this one, and not the reverse.
MCEndsIn == {<<here, there>>}
MCChoices == {{"mcp"}, {"hook", "mcp"}}
=============================================================================
