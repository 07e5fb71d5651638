--------------------------- MODULE MCHookDelivery ---------------------------
(* Two agents on one project, one task, a handful of native events. *)
EXTENDS HookDelivery

CONSTANTS s1, s2, t1

Native(session, kind, key, task, tokens) ==
  [session |-> session, kind |-> kind, key |-> key, task |-> task,
   tokens |-> tokens, reported |-> 0, tag |-> "none", warns |-> FALSE,
   markers |-> FALSE, secret |-> FALSE, vague |-> FALSE]

\* A window of 10 tokens: snapshot at 2, compact at 4, handoff at 6, hard at 8.
MCPolicy ==
  [id |-> 1, window |-> 10, snapshot |-> 20, compact |-> 40, handoff |-> 60,
   hard |-> 80, cap |-> 6, reserve |-> 0, interval |-> 2, width |-> 1, tail |-> 2]
MCLimits == [s \in Sessions |-> MCPolicy]

MCDeliveries ==
  { [Native(s1, "prompt", 1, None, 3) EXCEPT !.markers = TRUE],
    [Native(s1, "tool", 2, None, 5) EXCEPT !.reported = 9],
    [Native(s1, "stop", 3, None, 0) EXCEPT !.tag = "confirmed"],
    Native(s1, "compact", 4, None, 0),
    [Native(s2, "pre", 1, None, 0) EXCEPT !.warns = TRUE],
    Native(s2, "prompt", 2, t1, 9),
    [Native(s2, "failure", 3, None, 0) EXCEPT !.secret = TRUE],
    [Native(s1, "failure", 5, None, 0) EXCEPT !.vague = TRUE] }
=============================================================================
