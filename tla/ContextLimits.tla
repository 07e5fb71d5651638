--------------------------- MODULE ContextLimits ---------------------------
(***************************************************************************)
(* The arithmetic of the context governor: which limits the configuration  *)
(* accepts (context_limits.py, validate_limits) and the four thresholds    *)
(* computed from them (governor.py, BudgetGovernor.thresholds).  Ratios    *)
(* are whole percentages, so a ceiling is a division of integers; the code *)
(* rounds the same quotients in floating point.                            *)
(***************************************************************************)
EXTENDS Naturals

Least(a, b) == IF a <= b THEN a ELSE b
Greatest(a, b) == IF a >= b THEN a ELSE b
CeilDiv(a, b) == (a + b - 1) \div b
Share(window, percent) == CeilDiv(window * percent, 100)

\* A reserve lowers a limit to what the window leaves beside it.
Reserved(p, limit) ==
  IF p.reserve = 0 THEN limit ELSE Least(limit, p.window - p.reserve)

RatiosIncrease(p) ==
  0 < p.snapshot /\ p.snapshot < p.compact /\ p.compact < p.handoff
    /\ p.handoff < p.hard /\ p.hard <= 100

\* _as_number: what the limits are read as.
LimitFields == {"window", "snapshot", "compact", "handoff", "hard", "cap", "reserve"}
AsNumbers(p) == \A f \in LimitFields : p[f] \in Nat

\* validate_limits: what install-hooks writes and every delivery reads back.
AcceptedLimits(p) ==
  /\ AsNumbers(p)
  /\ p.window > 0 /\ p.reserve < p.window /\ p.cap > 0
  /\ RatiosIncrease(p)
  /\ Least(p.cap, Least(Share(p.window, p.handoff), p.window - p.reserve))
       < Least(Share(p.window, p.hard), p.window - p.reserve)

\* thresholds(): a cap of 0 stands for a policy of the database, without one.
Physical(p) == Reserved(p, Share(p.window, p.handoff))
Capped(p) == IF p.cap = 0 THEN Physical(p) ELSE Least(Physical(p), p.cap)
Scaled(p, percent) == CeilDiv(p.window * percent * Capped(p), 100 * Physical(p))
SnapshotAt(p) == Greatest(1, Scaled(p, p.snapshot))
CompactAt(p) == Greatest(SnapshotAt(p) + 1, Scaled(p, p.compact))
HandoffAt(p) == Greatest(CompactAt(p) + 1, Capped(p))
HardAt(p) == Reserved(p, Share(p.window, p.hard))

\* Limits whose hard threshold does not exceed the handoff raise an error.
Computable(p) == HandoffAt(p) < HardAt(p)

Thresholds(p) ==
  [snapshot |-> SnapshotAt(p), compact |-> CompactAt(p),
   handoff |-> HandoffAt(p), handoff_required |-> HardAt(p)]
=============================================================================
