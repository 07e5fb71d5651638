-------------------------- MODULE DeliveryPromise --------------------------
(***************************************************************************)
(* What hook deliveries promise (docs/integrations.md, "Context            *)
(* checkpoints"): a delivery is captured once; it then adds its native     *)
(* events to the log and its tokens to the context of its session,         *)
(* exactly, and of no other session; and a session is warned only once its *)
(* context has reached the limit.  What is derived from events is stored   *)
(* beside them and promised nothing about here.                            *)
(***************************************************************************)
EXTENDS Naturals

CONSTANTS
  Sessions,
  Names,   \* what identifies the deliveries
  Owner,   \* delivery -> its session
  Events,  \* delivery -> how many native events it is stored as
  Tokens,  \* delivery -> what it adds to the context
  WarnAt   \* session -> the context at which it is warned

VARIABLES
  captured,  \* the deliveries that are in the log
  stored,    \* session -> how many native events it has in the log
  context,   \* session -> tokens of its captured deliveries
  warned     \* sessions that got their checkpoint

vars == <<captured, stored, context, warned>>

Init ==
  /\ captured = {}
  /\ stored = [s \in Sessions |-> 0]
  /\ context = [s \in Sessions |-> 0]
  /\ warned = {}

\* Nobody else is warned, and this session only with a full context.
MayWarn(s) ==
  /\ warned' \in {warned, warned \cup {s}}
  /\ s \in warned' \ warned => context'[s] >= WarnAt[s]

\* A delivery nobody captured before.
Capture(name) ==
  LET s == Owner[name]
  IN /\ name \notin captured
     /\ captured' = captured \cup {name}
     /\ stored' = [stored EXCEPT ![s] = @ + Events[name]]
     /\ context' = [context EXCEPT ![s] = @ + Tokens[name]]
     /\ MayWarn(s)

\* A retry, or work left over by an earlier delivery: nothing grows.
Warn(s) == UNCHANGED <<captured, stored, context>> /\ MayWarn(s)

Next ==
  \/ \E name \in Names : Capture(name)
  \/ \E s \in Sessions : Warn(s)

Spec == Init /\ [][Next]_vars
=============================================================================
