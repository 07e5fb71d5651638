------------------------------- MODULE MCAsOf -------------------------------
(* Small instances of AsOfReads for TLC, with the envelopes and intervals   *)
(* on which the logic of Temporal is checked against its reference.         *)
EXTENDS AsOfReads, TLC

CONSTANTS main, fork, x, y

SmallTimes == 0..3
Envelopes ==
  {Unknown} \cup {Instant(t) : t \in SmallTimes}
    \cup {Envelope(lo, hi, FALSE) : lo \in SmallTimes \cup {None}, hi \in SmallTimes \cup {None}}
Sound(e) == e.singleton \/ None \in {e.lo, e.hi} \/ e.lo < e.hi
Bounded == {e \in Envelopes : Sound(e)}
Few == {Unknown, Instant(1), Envelope(0, 2, FALSE), Envelope(1, None, FALSE)}

\* a version that holds from the start on, and one that holds for a while
MCValidities ==
  {Interval(Instant(0), Unknown), Interval(Instant(1), Instant(2))}

TopicSymmetry == Permutations(Topics)

Expressions ==
  {[form |-> f, number |-> n] : f \in {"absent", "instant", "day", "month", "year", "relative",
                                       "naive"}, n \in 0..2}
Anchors == {None, 5}

Spoken ==
  [couple_of_days |-> -2, few_days |-> -3, couple_of_weeks |-> -14, few_weeks |-> -21,
   few_months |-> -90, yesterday |-> -1, today |-> 0, tomorrow |-> 1]
Dates == [named_day |-> Day, month_of_year |-> Month]
Cues == DOMAIN Spoken \cup DOMAIN Dates
          \cup {"last_week", "last_month", "last_year", "named_month"}

\* A stored bound denotes the envelope that was accepted; no interval that is
\* accepted is over before it starts for sure.  The window of a cue is never empty;
\* it is exactly the day or the month that is named in full, whenever that is, and
\* otherwise begins in the past, includes the day it speaks of, and nothing of
\* today unless it says so; a month without a year is the last one that began.
\* (normalize_bound, envelope_from_fields, normalize_interval,
\* parse_query_window.)
NormalizationSound ==
  /\ \A e \in Expressions, k \in Anchors :
       LET b == NormalizeBound(e, k)
       IN EnvelopeFromFields(b.envelope.lo, b.precision) = b.envelope
  /\ \A d, e \in Expressions, k \in Anchors :
       Accepted(NormalizeBound(d, k), NormalizeBound(e, k)) =>
         \E p \in Moments(NormalizeBound(d, k).envelope, -8..100),
            r \in Moments(NormalizeBound(e, k).envelope, -8..100) : p <= r
  /\ \A cue \in Cues, n \in 0..1, now \in 5000..5020 :
       LET w == QueryWindow(cue, n, now)
       IN /\ w.start.lo < w.end.lo
          /\ cue \notin DOMAIN Dates \cup {"tomorrow"} => w.start.lo <= now
          /\ cue \notin DOMAIN Dates \cup {"today", "tomorrow", "named_month"} =>
               w.end.lo <= MidnightOf(now)
          /\ cue = "named_month" => now < w.start.lo + Year
          /\ cue \in DOMAIN Spoken =>
               Contains(w, Instant(MidnightOf(now) + Spoken[cue] * Day)) = "true"
  /\ \A cue \in DOMAIN Dates, n \in {0, 2, 700}, now \in {-1, 17, 5001},
        t \in -2..24 \cup 1390..1410 \cup 5590..5615 :
       Contains(QueryWindow(cue, n, now), Instant(t)) = "true" <=> t \div Dates[cue] = n

\* Orders and overlaps of envelopes are told with exactly the certainty that
\* the moments they may denote allow, and what is normalised is sound.  Nothing here
\* depends on the state, so one is enough.  (lt3, le3, overlaps.)
LogicExact ==
  log = <<>> =>
    /\ \A a, b \in Bounded : OrderExactFor(a, b, -3..8)
    /\ \A p, q, r, s \in Few : OverlapExactFor(Interval(p, q), Interval(r, s), -3..6)
    /\ NormalizationSound
=============================================================================
