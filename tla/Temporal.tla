------------------------------ MODULE Temporal ------------------------------
(***************************************************************************)
(* The temporal core (temporal.py): instants known only up to an envelope, *)
(* half-open intervals of them, and what can be said of two of them in     *)
(* Kleene's three-valued logic.  Pure operators, no state.                 *)
(*                                                                         *)
(* An instant is an integer; days, months and years are stretches of Day,  *)
(* Month and Year ticks, which stand for the calendar of the language.  An *)
(* expression is a record of its form and of its number: the third month,  *)
(* the day before the anchor.                                              *)
(***************************************************************************)
EXTENDS Integers

CONSTANTS
  None,                \* no bound on a side of an envelope
  Day, Month, Year     \* lengths, in ticks

ASSUME NoneIsNoInstant == None \notin Int
ASSUME Calendar == /\ Day \in Nat \ {0} /\ Month \in Nat \ {0} /\ Year \in Nat \ {0}
                   /\ Month % Day = 0 /\ Year % Month = 0

Truths == {"true", "false", "unknown"}

Both(p, q) ==
  IF "false" \in {p, q} THEN "false" ELSE IF "unknown" \in {p, q} THEN "unknown" ELSE "true"
Opposite(p) ==
  IF p = "true" THEN "false" ELSE IF p = "false" THEN "true" ELSE "unknown"

Envelope(lo, hi, singleton) == [lo |-> lo, hi |-> hi, singleton |-> singleton]
Unknown == Envelope(None, None, FALSE)
Instant(t) == Envelope(t, t, TRUE)
Stretch(t, length) == Envelope(t, t + length, FALSE)
Known(e) == e.singleton \/ e.lo # None \/ e.hi # None

----------------------------------------------------------------------------
\* An absent bound is infinitely low (-1) or high (1).
Lower(x, xInfinite, y, yInfinite) ==
  \/ x = None /\ y = None /\ xInfinite < yInfinite
  \/ x = None /\ y # None /\ xInfinite < 0
  \/ x # None /\ y = None /\ yInfinite > 0
  \/ x # None /\ y # None /\ x < y

Definitely(a, b) ==
  \/ a.singleton /\ b.singleton /\ Lower(a.lo, -1, b.lo, 1)
  \/ a.singleton /\ ~b.singleton /\ Lower(a.lo, -1, b.lo, -1)
  \/ ~a.singleton /\ ~Lower(b.lo, -1, a.hi, 1)

\* A point can be before a stretch only if it is before the stretch's end.
Possibly_ToTheEnd(a, b) ==
  IF b.singleton THEN Lower(a.lo, -1, b.lo, 1) ELSE ~Lower(b.hi, 1, a.lo, -1)
Possibly(a, b) == Lower(a.lo, -1, IF b.singleton THEN b.lo ELSE b.hi, 1)

Lt3(a, b) ==
  IF Definitely(a, b) THEN "true" ELSE IF Possibly(a, b) THEN "unknown" ELSE "false"
Le3(a, b) == Opposite(Lt3(b, a))

Interval(start, end) == [start |-> start, end |-> end]
Contains(i, point) == Both(Le3(i.start, point), Lt3(point, i.end))
Overlaps(i, j) == Both(Lt3(i.start, j.end), Lt3(j.start, i.end))

----------------------------------------------------------------------------
ValidityStatus(i, now) ==
  IF Contains(i, now) = "true" THEN "current"
  ELSE IF Lt3(now, i.start) = "true" THEN "not_yet_valid"
  ELSE IF Known(i.end) /\ Le3(i.end, now) = "true" THEN "expired"
  ELSE IF ~Known(i.end) /\ Le3(i.start, now) = "true" THEN "current_open"
  ELSE "unknown"

\* The start of a successor closes an open end, in the projection only.
EffectiveEnd_Never(i, successor) == i.end
EffectiveEnd(i, successor) ==
  IF Known(i.end) \/ ~Known(successor) THEN i.end ELSE successor

----------------------------------------------------------------------------
\* normalize_bound: what one expression denotes, with the anchor of relative
\* ones; Refused when it is ambiguous.
Refused == [precision |-> "refused", envelope |-> Unknown]
Bound(precision, envelope) == [precision |-> precision, envelope |-> envelope]
MidnightOf(t) == (t \div Day) * Day

NormalizeBound(x, anchor) ==
  CASE x.form = "absent" -> Bound("unknown", Unknown)
    [] x.form = "instant" -> Bound("instant", Instant(x.number))
    [] x.form = "day" -> Bound("day", Stretch(x.number * Day, Day))
    [] x.form = "month" -> Bound("month", Stretch(x.number * Month, Month))
    [] x.form = "year" -> Bound("year", Stretch(x.number * Year, Year))
    [] x.form = "relative" ->
         IF anchor = None THEN Refused
         ELSE Bound("day", Stretch(MidnightOf(anchor) + x.number * Day, Day))
    [] OTHER -> Refused

\* envelope_from_fields: the envelope again, from the start and the precision
\* that a row keeps.
EnvelopeFromFields(start, precision) ==
  CASE start = None -> Unknown
    [] start # None /\ precision = "day" -> Stretch(start, Day)
    [] start # None /\ precision = "month" -> Stretch(start, Month)
    [] start # None /\ precision = "year" -> Stretch(start, Year)
    [] OTHER -> Instant(start)

\* normalize_interval refuses an end that is before the start for sure, and the
\* empty interval between equal instants.
Inverted(from, to) == Lt3(to, from) = "true"
Accepted(from, to) ==
  /\ "refused" \notin {from.precision, to.precision}
  /\ Known(from.envelope) /\ Known(to.envelope) =>
       /\ ~Inverted(from.envelope, to.envelope)
       /\ ~ (/\ from.envelope.singleton /\ to.envelope.singleton
             /\ from.envelope.lo = to.envelope.lo)

----------------------------------------------------------------------------
\* parse_query_window: the stretch of time that a cue of a query speaks of.
Fuzzy == [couple_of_days |-> <<3, 1>>, few_days |-> <<5, 2>>, couple_of_weeks |-> <<21, 7>>,
          few_weeks |-> <<35, 14>>, few_months |-> <<150, 60>>]

\* The n-th stretch of the calendar: a day or a month that is named in full.
Dated(n, length) == Interval(Instant(n * length), Instant((n + 1) * length))
DayWindow(t, days) == Interval(Instant(MidnightOf(t)), Instant(MidnightOf(t) + days * Day))
Previous(t, length) ==
  Interval(Instant((t \div length - 1) * length), Instant((t \div length) * length))

\* The latest such month of the calendar that has begun.
NamedMonth(n, now) ==
  LET this == (now \div Year) * Year + n * Month IN IF this <= now THEN this ELSE this - Year

QueryWindow(cue, n, now) ==
  CASE cue = "named_day" -> Dated(n, Day)
    [] cue = "month_of_year" -> Dated(n, Month)
    [] cue \in DOMAIN Fuzzy ->
         DayWindow(now - Fuzzy[cue][1] * Day, Fuzzy[cue][1] - Fuzzy[cue][2])
    [] cue = "yesterday" -> DayWindow(now - Day, 1)
    [] cue = "today" -> DayWindow(now, 1)
    [] cue = "tomorrow" -> DayWindow(now + Day, 1)
    [] cue = "last_week" -> Previous(now, 7 * Day)
    [] cue = "last_month" -> Previous(now, Month)
    [] cue = "last_year" -> Previous(now, Year)
    [] cue = "named_month" ->
         Interval(Instant(NamedMonth(n, now)), Instant(NamedMonth(n, now) + Month))
----------------------------------------------------------------------------
\* Reference: the moments of an envelope, two to a tick, since time is dense.
\* A truth is exact when it is "true" of what holds for every choice of moments,
\* "false" of what holds for none, and "unknown" of the rest.
Moments(e, span) ==
  {x \in span : IF e.singleton THEN x = 2 * e.lo
                ELSE /\ e.lo # None => 2 * e.lo <= x
                     /\ e.hi # None => x < 2 * e.hi}

OrderExactFor(a, b, span) ==
  /\ Lt3(a, b) = "true" <=> \A x \in Moments(a, span), y \in Moments(b, span) : x < y
  /\ Lt3(a, b) = "false" <=> \A x \in Moments(a, span), y \in Moments(b, span) : ~(x < y)

OverlapExactFor(i, j, span) ==
  LET from == Moments(i.start, span)   to == Moments(i.end, span)
      since == Moments(j.start, span)  until == Moments(j.end, span)
  IN /\ Overlaps(i, j) = "true"
          <=> \A w \in from, x \in to, y \in since, z \in until : w < z /\ y < x
     /\ Overlaps(i, j) = "false"
          <=> \A w \in from, x \in to, y \in since, z \in until : ~(w < z /\ y < x)
=============================================================================
