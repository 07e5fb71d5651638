-------------------------- MODULE AsOfReads_proofs --------------------------
(***************************************************************************)
(* Proofs about Temporal and AsOfReads, for any branches, topics, bounds   *)
(* and validities.                                                         *)
(*                                                                         *)
(* First, what the temporal core says of two envelopes is exact, for       *)
(* envelopes of any length and position, and what expressions and cues are *)
(* normalised to is sound.  Then the recursion over versions is mastered:  *)
(* as versions supersede only earlier ones (IInv), what _ancestor_as_of    *)
(* walks through exists and is found by strong induction on the numbers of *)
(* versions, stated of a set (Upwards).  With it replays are exact, a      *)
(* successor ends what it supersedes, and reads repeat.                    *)
(***************************************************************************)
EXTENDS AsOfReads, TLAPS, FiniteSetTheorems, WellFoundedInduction, SequenceTheorems

-----------------------------------------------------------------------------
(* Envelopes and their moments.                                            *)

\* The envelopes that the constructors of temporal.py make.
Bounds == Int \cup {None}
IsEnvelope(e) ==
  /\ e \in [lo : Bounds, hi : Bounds, singleton : BOOLEAN]
  /\ e.singleton => e.lo \in Int /\ e.hi = e.lo
  /\ ~e.singleton /\ e.lo # None /\ e.hi # None => e.lo < e.hi

LEMMA MomentOf ==
  ASSUME NEW e, IsEnvelope(e), NEW x \in Int
  PROVE  x \in Moments(e, Int) <=>
           IF e.singleton THEN x = 2 * e.lo
           ELSE (e.lo # None => 2 * e.lo <= x) /\ (e.hi # None => x < 2 * e.hi)
  BY DEF Moments

\* An envelope denotes some moment, and an unbounded one moments as late, or as
\* early, as one likes.
LEMMA SomeMoment ==
  ASSUME NEW e, IsEnvelope(e)
  PROVE  \E x \in Int : x \in Moments(e, Int)
<1>1. CASE e.singleton
  <2>1. 2 * e.lo \in Int /\ 2 * e.lo \in Moments(e, Int)
    BY <1>1, MomentOf, NoneIsNoInstant DEF IsEnvelope, Bounds
  <2> QED BY <2>1
<1>2. CASE ~e.singleton /\ e.lo # None
  <2>1. 2 * e.lo \in Int /\ 2 * e.lo \in Moments(e, Int)
    BY <1>2, MomentOf, NoneIsNoInstant DEF IsEnvelope, Bounds
  <2> QED BY <2>1
<1>3. CASE ~e.singleton /\ e.lo = None /\ e.hi # None
  <2>1. 2 * e.hi - 1 \in Int /\ 2 * e.hi - 1 \in Moments(e, Int)
    BY <1>3, MomentOf, NoneIsNoInstant DEF IsEnvelope, Bounds
  <2> QED BY <2>1
<1>4. CASE ~e.singleton /\ e.lo = None /\ e.hi = None
  <2>1. 0 \in Moments(e, Int)
    BY <1>4, MomentOf
  <2> QED BY <2>1
<1> QED BY <1>1, <1>2, <1>3, <1>4

LEMMA DefinitelyIsAll ==
  ASSUME NEW a, IsEnvelope(a), NEW b, IsEnvelope(b), Definitely(a, b),
         NEW x \in Moments(a, Int), NEW y \in Moments(b, Int)
  PROVE  x < y
<1>1. x \in Int /\ y \in Int
  BY DEF Moments
<1> QED BY <1>1, MomentOf, NoneIsNoInstant DEF Definitely, Lower, IsEnvelope, Bounds

LEMMA NotPossiblyIsNone ==
  ASSUME NEW a, IsEnvelope(a), NEW b, IsEnvelope(b), ~Possibly(a, b),
         NEW x \in Moments(a, Int), NEW y \in Moments(b, Int)
  PROVE  ~(x < y)
<1>1. x \in Int /\ y \in Int
  BY DEF Moments
<1> QED BY <1>1, MomentOf, NoneIsNoInstant DEF Possibly, Lower, IsEnvelope, Bounds

LEMMA Early ==
  ASSUME NEW e, IsEnvelope(e), e.lo = None, NEW z \in Int
  PROVE  \E x \in Moments(e, Int) : x < z
<1>0. ~e.singleton
  BY NoneIsNoInstant DEF IsEnvelope
<1>1. CASE e.hi = None
  <2>1. z - 1 \in Int /\ z - 1 \in Moments(e, Int) /\ z - 1 < z
    BY <1>0, <1>1, MomentOf
  <2> QED BY <2>1
<1>2. CASE e.hi # None /\ 2 * e.hi < z
  <2>1. e.hi \in Int
    BY <1>2 DEF IsEnvelope, Bounds
  <2>2. 2 * e.hi - 1 \in Int /\ 2 * e.hi - 1 \in Moments(e, Int) /\ 2 * e.hi - 1 < z
    BY <1>0, <1>2, <2>1, MomentOf
  <2> QED BY <2>2
<1>3. CASE e.hi # None /\ ~(2 * e.hi < z)
  <2>1. e.hi \in Int
    BY <1>3 DEF IsEnvelope, Bounds
  <2>2. z - 1 \in Int /\ z - 1 \in Moments(e, Int) /\ z - 1 < z
    BY <1>0, <1>3, <2>1, MomentOf
  <2> QED BY <2>2
<1> QED BY <1>1, <1>2, <1>3

LEMMA Late ==
  ASSUME NEW e, IsEnvelope(e), ~e.singleton, e.hi = None, NEW z \in Int
  PROVE  \E x \in Moments(e, Int) : z < x
<1>1. CASE e.lo = None
  <2>1. z + 1 \in Int /\ z + 1 \in Moments(e, Int) /\ z < z + 1
    BY <1>1, MomentOf
  <2> QED BY <2>1
<1>2. CASE e.lo # None /\ 2 * e.lo <= z
  <2>1. e.lo \in Int
    BY <1>2 DEF IsEnvelope, Bounds
  <2>2. z + 1 \in Int /\ z + 1 \in Moments(e, Int) /\ z < z + 1
    BY <1>2, <2>1, MomentOf
  <2> QED BY <2>2
<1>3. CASE e.lo # None /\ ~(2 * e.lo <= z)
  <2>1. e.lo \in Int
    BY <1>3 DEF IsEnvelope, Bounds
  <2>2. 2 * e.lo \in Int /\ 2 * e.lo \in Moments(e, Int) /\ z < 2 * e.lo
    BY <1>3, <2>1, MomentOf
  <2> QED BY <2>2
<1> QED BY <1>1, <1>2, <1>3

\* The first moment of an envelope that has one, and the last half tick.
LEMMA First ==
  ASSUME NEW e, IsEnvelope(e), e.lo # None
  PROVE  e.lo \in Int /\ 2 * e.lo \in Moments(e, Int)
<1>1. e.lo \in Int
  BY DEF IsEnvelope, Bounds
<1>2. 2 * e.lo \in Int /\ (e.hi # None => e.hi \in Int)
  BY <1>1 DEF IsEnvelope, Bounds
<1> QED BY <1>1, <1>2, MomentOf DEF IsEnvelope

LEMMA Last ==
  ASSUME NEW e, IsEnvelope(e), ~e.singleton, e.hi # None
  PROVE  e.hi \in Int /\ 2 * e.hi - 1 \in Moments(e, Int)
<1>1. e.hi \in Int /\ (e.lo # None => e.lo \in Int)
  BY DEF IsEnvelope, Bounds
<1>2. 2 * e.hi - 1 \in Int
  BY <1>1
<1> QED BY <1>1, <1>2, MomentOf DEF IsEnvelope

LEMMA PossiblyIsSome ==
  ASSUME NEW a, IsEnvelope(a), NEW b, IsEnvelope(b), Possibly(a, b)
  PROVE  \E x \in Moments(a, Int), y \in Moments(b, Int) : x < y
<1>1. CASE a.lo = None
  <2>1. PICK y \in Int : y \in Moments(b, Int)
    BY SomeMoment
  <2> QED BY <1>1, <2>1, Early
<1>2. CASE a.lo # None /\ b.singleton
  <2>1. b.lo # None
    BY <1>2, NoneIsNoInstant DEF IsEnvelope
  <2>2. a.lo < b.lo
    BY <1>2, <2>1 DEF Possibly, Lower
  <2>3. 2 * a.lo < 2 * b.lo
    BY <1>2, <2>1, <2>2, First
  <2> QED BY <1>2, <2>1, <2>3, First
<1>3. CASE a.lo # None /\ ~b.singleton /\ b.hi = None
  <2>1. 2 * a.lo \in Int
    BY <1>3, First
  <2> QED BY <1>3, <2>1, First, Late
<1>4. CASE a.lo # None /\ ~b.singleton /\ b.hi # None
  <2>1. a.lo < b.hi
    BY <1>4 DEF Possibly, Lower
  <2>2. 2 * a.lo < 2 * b.hi - 1
    BY <1>4, <2>1, First, Last
  <2> QED BY <1>4, <2>2, First, Last
<1> QED BY <1>1, <1>2, <1>3, <1>4

LEMMA NotDefinitelyIsSome ==
  ASSUME NEW a, IsEnvelope(a), NEW b, IsEnvelope(b), ~Definitely(a, b)
  PROVE  \E x \in Moments(a, Int), y \in Moments(b, Int) : ~(x < y)
<1>1. CASE b.lo = None
  <2>1. PICK x \in Int : x \in Moments(a, Int)
    BY SomeMoment
  <2>2. PICK y \in Moments(b, Int) : y < x
    BY <1>1, <2>1, Early
  <2>3. y \in Int /\ ~(x < y)
    BY <2>2 DEF Moments
  <2> QED BY <2>1, <2>3, <2>2
<1>2. CASE b.lo # None /\ a.singleton
  <2>1. a.lo # None
    BY <1>2, NoneIsNoInstant DEF IsEnvelope
  <2>2. ~(a.lo < b.lo)
    BY <1>2, <2>1 DEF Definitely, Lower
  <2>3. ~(2 * a.lo < 2 * b.lo)
    BY <1>2, <2>1, <2>2, First
  <2> QED BY <1>2, <2>1, <2>3, First
<1>3. CASE b.lo # None /\ ~a.singleton /\ a.hi = None
  <2>1. 2 * b.lo \in Int
    BY <1>3, First
  <2>2. PICK x \in Moments(a, Int) : 2 * b.lo < x
    BY <1>3, <2>1, Late
  <2>3. x \in Int /\ ~(x < 2 * b.lo)
    BY <2>1, <2>2 DEF Moments
  <2> QED BY <1>3, <2>2, <2>3, First
<1>4. CASE b.lo # None /\ ~a.singleton /\ a.hi # None
  <2>1. b.lo < a.hi
    BY <1>4 DEF Definitely, Lower
  <2>2. ~(2 * a.hi - 1 < 2 * b.lo)
    BY <1>4, <2>1, First, Last
  <2> QED BY <1>4, <2>2, First, Last
<1> QED BY <1>1, <1>2, <1>3, <1>4

\* lt3 is exact: it answers "true" when every choice of moments is in order,
\* "false" when none is, and "unknown" only when some are and some are not.
THEOREM OrderIsExact ==
  ASSUME NEW a, IsEnvelope(a), NEW b, IsEnvelope(b)
  PROVE  OrderExactFor(a, b, Int)
<1>1. CASE Definitely(a, b)
  <2>1. \A x \in Moments(a, Int), y \in Moments(b, Int) : x < y
    BY <1>1, DefinitelyIsAll
  <2>2. \E x \in Moments(a, Int), y \in Moments(b, Int) : TRUE
    BY SomeMoment
  <2>3. Lt3(a, b) = "true"
    BY <1>1 DEF Lt3
  <2> QED BY <2>1, <2>2, <2>3 DEF OrderExactFor
<1>2. CASE ~Definitely(a, b) /\ Possibly(a, b)
  <2>1. \E x \in Moments(a, Int), y \in Moments(b, Int) : x < y
    BY <1>2, PossiblyIsSome
  <2>2. \E x \in Moments(a, Int), y \in Moments(b, Int) : ~(x < y)
    BY <1>2, NotDefinitelyIsSome
  <2>3. Lt3(a, b) = "unknown"
    BY <1>2 DEF Lt3
  <2> QED BY <2>1, <2>2, <2>3 DEF OrderExactFor
<1>3. CASE ~Definitely(a, b) /\ ~Possibly(a, b)
  <2>1. \A x \in Moments(a, Int), y \in Moments(b, Int) : ~(x < y)
    BY <1>3, NotPossiblyIsNone
  <2>2. \E x \in Moments(a, Int), y \in Moments(b, Int) : TRUE
    BY SomeMoment
  <2>3. Lt3(a, b) = "false"
    BY <1>3 DEF Lt3
  <2> QED BY <2>1, <2>2, <2>3 DEF OrderExactFor
<1> QED BY <1>1, <1>2, <1>3

\* overlaps is exact too, though it joins two answers of lt3 about four envelopes:
\* the two comparisons have no moment in common, so neither restrains the other.
THEOREM OverlapIsExact ==
  ASSUME NEW i, NEW j,
         IsEnvelope(i.start), IsEnvelope(i.end), IsEnvelope(j.start), IsEnvelope(j.end)
  PROVE  OverlapExactFor(i, j, Int)
<1> DEFINE from == Moments(i.start, Int)
           to == Moments(i.end, Int)
           since == Moments(j.start, Int)
           until == Moments(j.end, Int)
           p == Lt3(i.start, j.end)
           q == Lt3(j.start, i.end)
<1>1. /\ p = "true" <=> \A w \in from, z \in until : w < z
      /\ p = "false" <=> \A w \in from, z \in until : ~(w < z)
  BY OrderIsExact DEF OrderExactFor
<1>2. /\ q = "true" <=> \A y \in since, x \in to : y < x
      /\ q = "false" <=> \A y \in since, x \in to : ~(y < x)
  BY OrderIsExact DEF OrderExactFor
<1>3. from # {} /\ to # {} /\ since # {} /\ until # {}
  BY SomeMoment
<1>4. p \in Truths /\ q \in Truths
  BY DEF Lt3, Truths
<1>5. Overlaps(i, j) = Both(p, q)
  BY DEF Overlaps
<1> HIDE DEF from, to, since, until, p, q
<1>6. Both(p, q) = "true" <=> p = "true" /\ q = "true"
  BY <1>4 DEF Both, Truths
<1>7. Both(p, q) = "false" <=> p = "false" \/ q = "false"
  BY <1>4 DEF Both, Truths
<1>8. Overlaps(i, j) = "true"
        <=> \A w \in from, x \in to, y \in since, z \in until : w < z /\ y < x
  BY <1>1, <1>2, <1>3, <1>5, <1>6
<1>9. Overlaps(i, j) = "false"
        <=> \A w \in from, x \in to, y \in since, z \in until : ~(w < z /\ y < x)
  BY <1>1, <1>2, <1>3, <1>5, <1>7
<1> QED BY <1>8, <1>9 DEF OverlapExactFor, from, to, since, until

\* Once a successor is valid, for certain or as a presumption, the open version
\* that it supersedes has expired.  (effective_end, validity_status.)
THEOREM SuccessorEndsIt ==
  ASSUME NEW i, NEW j, NEW now,
         IsEnvelope(i.start), IsEnvelope(j.start), IsEnvelope(now),
         ~Known(i.end), Known(j.start),
         ValidityStatus(j, now) \in {"current", "current_open"}
  PROVE  /\ Contains(Interval(i.start, EffectiveEnd(i, j.start)), now) = "false"
         /\ ValidityStatus(Interval(i.start, EffectiveEnd(i, j.start)), now)
              \in {"expired", "not_yet_valid"}
<1> DEFINE closed == Interval(i.start, EffectiveEnd(i, j.start))
<1>1. closed.start = i.start /\ closed.end = j.start
  BY DEF EffectiveEnd, Interval
<1>2. Le3(j.start, now) = "true"
  <2>1. CASE Contains(j, now) = "true"
    <3>1. Le3(j.start, now) \in Truths
      BY DEF Le3, Opposite, Truths
    <3>2. Both(Le3(j.start, now), Lt3(now, j.end)) = "true"
      BY <2>1 DEF Contains
    <3> QED BY <3>1, <3>2 DEF Both, Truths
  <2>2. CASE Contains(j, now) # "true"
    BY <2>2 DEF ValidityStatus
  <2> QED BY <2>1, <2>2
<1>3. Lt3(now, j.start) = "false"
  BY <1>2 DEF Le3, Opposite, Lt3
<1>4. Contains(closed, now) = "false"
  BY <1>1, <1>3 DEF Contains, Both
<1>5. ValidityStatus(closed, now) \in {"expired", "not_yet_valid"}
  BY <1>1, <1>2, <1>4 DEF ValidityStatus
<1> QED BY <1>4, <1>5

-----------------------------------------------------------------------------
(* What is normalised.                                                     *)

Forms == {"absent", "instant", "day", "month", "year", "relative", "naive"}

LEMMA CalendarIs == Day \in Int /\ Day > 0 /\ Month \in Int /\ Month > 0 /\ Year \in Int /\ Year > 0
BY Calendar

LEMMA StretchIs ==
  ASSUME NEW t \in Int, NEW length \in Int, length > 0
  PROVE  IsEnvelope(Stretch(t, length)) /\ Stretch(t, length).lo = t
BY NoneIsNoInstant DEF IsEnvelope, Stretch, Envelope, Bounds

LEMMA InstantIs ==
  ASSUME NEW t \in Int
  PROVE  IsEnvelope(Instant(t)) /\ Instant(t).lo = t
BY NoneIsNoInstant DEF IsEnvelope, Instant, Envelope, Bounds

LEMMA UnknownIs == IsEnvelope(Unknown) /\ Unknown.lo = None /\ ~Known(Unknown)
BY DEF IsEnvelope, Unknown, Envelope, Bounds, Known

\* Midnight is the last multiple of a day.
LEMMA MidnightIs ==
  ASSUME NEW t \in Int
  PROVE  /\ MidnightOf(t) \in Int /\ MidnightOf(t) <= t /\ t < MidnightOf(t) + Day
         /\ \A n \in Int : MidnightOf(t + n * Day) = MidnightOf(t) + n * Day
<1>1. MidnightOf(t) \in Int /\ MidnightOf(t) <= t /\ t < MidnightOf(t) + Day
  BY CalendarIs DEF MidnightOf
<1>2. ASSUME NEW n \in Int PROVE (t + n * Day) \div Day = (t \div Day) + n
  BY CalendarIs
<1> QED BY <1>1, <1>2, CalendarIs DEF MidnightOf

\* Whatever an expression says, its bound is a proper envelope, and what a row keeps of it,
\* its start and its precision, gives it back.  (normalize_bound, envelope_from_fields.)
THEOREM BoundsAreKept ==
  ASSUME NEW x, x.form \in Forms, x.number \in Int, NEW anchor \in Int \cup {None}
  PROVE  LET b == NormalizeBound(x, anchor)
         IN /\ IsEnvelope(b.envelope)
            /\ EnvelopeFromFields(b.envelope.lo, b.precision) = b.envelope
<1> DEFINE b == NormalizeBound(x, anchor)
           Good(c) == IsEnvelope(c.envelope) /\ EnvelopeFromFields(c.envelope.lo, c.precision) = c.envelope
<1>0. /\ x.number * Day \in Int /\ x.number * Month \in Int /\ x.number * Year \in Int
      /\ \A k \in Int : MidnightOf(k) + x.number * Day \in Int
  BY CalendarIs, MidnightIs
<1>1. \A p, t, length : t \in Int /\ <<p, length>> \in {<<"day", Day>>, <<"month", Month>>, <<"year", Year>>}
        => Good(Bound(p, Stretch(t, length)))
  BY CalendarIs, StretchIs, NoneIsNoInstant DEF Bound, EnvelopeFromFields
<1>2. \A t \in Int : Good(Bound("instant", Instant(t)))
  BY InstantIs, NoneIsNoInstant DEF Bound, EnvelopeFromFields
<1>3. Good(Bound("unknown", Unknown)) /\ Good(Refused)
  BY UnknownIs DEF Bound, Refused, EnvelopeFromFields
<1> HIDE DEF Good
<1>4. ASSUME x.form \in {"absent", "instant", "naive"} PROVE Good(b)
  BY <1>2, <1>3, <1>4 DEF NormalizeBound
<1>5. ASSUME x.form = "day" PROVE Good(b)
  <2>1. b = Bound("day", Stretch(x.number * Day, Day))
    BY <1>5 DEF NormalizeBound
  <2> QED BY <1>0, <1>1, <2>1
<1>6. ASSUME x.form = "month" PROVE Good(b)
  <2>1. b = Bound("month", Stretch(x.number * Month, Month))
    BY <1>6 DEF NormalizeBound
  <2> QED BY <1>0, <1>1, <2>1
<1>7. ASSUME x.form = "year" PROVE Good(b)
  <2>1. b = Bound("year", Stretch(x.number * Year, Year))
    BY <1>7 DEF NormalizeBound
  <2> QED BY <1>0, <1>1, <2>1
<1>8. ASSUME x.form = "relative" PROVE Good(b)
  <2>1. CASE anchor = None
    <3>1. b = Refused
      BY <1>8, <2>1 DEF NormalizeBound
    <3> QED BY <1>3, <3>1
  <2>2. CASE anchor # None
    <3>1. b = Bound("day", Stretch(MidnightOf(anchor) + x.number * Day, Day))
      BY <1>8, <2>2 DEF NormalizeBound
    <3>2. MidnightOf(anchor) + x.number * Day \in Int
      BY <1>0, <2>2
    <3> QED BY <1>1, <3>1, <3>2
  <2> QED BY <2>1, <2>2
<1>9. Good(b)
  BY <1>4, <1>5, <1>6, <1>7, <1>8 DEF Forms
<1> QED BY <1>9 DEF Good

\* An interval is accepted just if its bounds can be told, some moment of its start is no later
\* than some moment of its end, and the two are not the same instant.  (normalize_interval.)
THEOREM AcceptedJustIfPossible ==
  ASSUME NEW x, x.form \in Forms, x.number \in Int, NEW y, y.form \in Forms, y.number \in Int,
         NEW anchor \in Int \cup {None}
  PROVE  LET from == NormalizeBound(x, anchor)
             to == NormalizeBound(y, anchor)
         IN Accepted(from, to) <=>
              /\ "refused" \notin {from.precision, to.precision}
              /\ \E p \in Moments(from.envelope, Int), r \in Moments(to.envelope, Int) : p <= r
              /\ ~ (/\ from.envelope.singleton /\ to.envelope.singleton
                    /\ from.envelope.lo = to.envelope.lo)
<1> DEFINE from == NormalizeBound(x, anchor)
           to == NormalizeBound(y, anchor)
           a == from.envelope
           b == to.envelope
           Some == \E p \in Moments(a, Int), r \in Moments(b, Int) : p <= r
           Same == a.singleton /\ b.singleton /\ a.lo = b.lo
<1>1. IsEnvelope(a) /\ IsEnvelope(b)
  BY BoundsAreKept
<1>2. CASE Known(a) /\ Known(b)
  <2>1. Inverted(a, b) <=> \A r \in Moments(b, Int), p \in Moments(a, Int) : r < p
    BY <1>1, OrderIsExact DEF OrderExactFor, Inverted
  <2>2. \A r \in Moments(b, Int), p \in Moments(a, Int) : (r < p) <=> ~(p <= r)
    BY DEF Moments
  <2>3. ~Inverted(a, b) <=> Some
    BY <2>1, <2>2
  <2> QED BY <1>2, <2>3 DEF Accepted
<1>3. ASSUME NEW e, IsEnvelope(e), ~Known(e) PROVE (\A t \in Int : t \in Moments(e, Int)) /\ ~e.singleton
  <2>1. e.lo = None /\ e.hi = None /\ ~e.singleton
    BY <1>3 DEF Known
  <2> QED BY <1>3, <2>1, MomentOf
<1>4. CASE ~Known(a)
  <2>1. PICK r \in Int : r \in Moments(b, Int)
    BY <1>1, SomeMoment
  <2>2. r \in Moments(a, Int) /\ r <= r /\ ~Same
    BY <1>1, <1>3, <1>4, <2>1
  <2>3. Some /\ ~Same
    BY <2>1, <2>2
  <2> QED BY <1>4, <2>3 DEF Accepted
<1>5. CASE ~Known(b)
  <2>1. PICK p \in Int : p \in Moments(a, Int)
    BY <1>1, SomeMoment
  <2>2. p \in Moments(b, Int) /\ p <= p /\ ~Same
    BY <1>1, <1>3, <1>5, <2>1
  <2>3. Some /\ ~Same
    BY <2>1, <2>2
  <2> QED BY <1>5, <2>3 DEF Accepted
<1> QED BY <1>2, <1>4, <1>5

\* The days that a cue names, counted from today.
Spoken ==
  [couple_of_days |-> -2, few_days |-> -3, couple_of_weeks |-> -14, few_weeks |-> -21,
   few_months |-> -90, yesterday |-> -1, today |-> 0, tomorrow |-> 1]
Periods == {"last_week", "last_month", "last_year"}

\* The days and the months that a cue names in full.
Dates == [named_day |-> Day, month_of_year |-> Month]

\* A window that is counted from now is of instants, is not empty, begins in the past unless
\* the cue is of tomorrow, and has nothing of today unless the cue says so; it has the day that
\* the cue speaks of; and a month without a year is the last such month that has begun, for
\* any time and any calendar.  (parse_query_window.)
THEOREM WindowsAreMeant ==
  ASSUME NEW cue \in DOMAIN Spoken \cup Periods \cup {"named_month"},
         NEW n \in Nat, n * Month < Year, NEW now \in Int
  PROVE  LET w == QueryWindow(cue, n, now)
         IN /\ w.start.lo < w.end.lo
            /\ cue # "tomorrow" => w.start.lo <= now
            /\ cue \notin {"today", "tomorrow", "named_month"} => w.end.lo <= MidnightOf(now)
            /\ cue \in DOMAIN Spoken =>
                 Contains(w, Instant(MidnightOf(now) + Spoken[cue] * Day)) = "true"
            /\ cue = "named_month" => now < w.start.lo + Year
<1> DEFINE w == QueryWindow(cue, n, now)
           m == MidnightOf(now)
           Meant(v) == /\ v.start.lo < v.end.lo
                       /\ cue # "tomorrow" => v.start.lo <= now
                       /\ cue \notin {"today", "tomorrow", "named_month"} => v.end.lo <= m
                       /\ cue \in DOMAIN Spoken =>
                            Contains(v, Instant(m + Spoken[cue] * Day)) = "true"
<1>0. m \in Int /\ m <= now /\ now < m + Day /\ Day \in Int /\ Day > 0
  BY CalendarIs, MidnightIs
<1>1. ASSUME NEW a \in Int, NEW b \in Int, NEW t \in Int
      PROVE  /\ Interval(Instant(a), Instant(b)).start.lo = a
             /\ Interval(Instant(a), Instant(b)).end.lo = b
             /\ a <= t /\ t < b => Contains(Interval(Instant(a), Instant(b)), Instant(t)) = "true"
  BY NoneIsNoInstant
     DEF Interval, Instant, Envelope, Contains, Le3, Lt3, Opposite, Both, Definitely, Lower, Possibly
<1>2. \A k \in Int : MidnightOf(now + k * Day) = m + k * Day /\ k * Day \in Int
  <2>1. \A k \in Int : k * Day \in Int
    BY CalendarIs
  <2>2. \A k \in Int : MidnightOf(now + k * Day) = MidnightOf(now) + k * Day
    BY MidnightIs, Zenon
  <2> QED BY <2>1, <2>2
<1>3. ASSUME NEW k \in Int, NEW days \in Nat, days > 0
      PROVE  LET v == DayWindow(now + k * Day, days)
             IN /\ v.start.lo = m + k * Day
                /\ v.end.lo = m + k * Day + days * Day
                /\ \A i \in Int : k <= i /\ i < k + days => Contains(v, Instant(m + i * Day)) = "true"
  <2> DEFINE a == m + k * Day
             z == a + days * Day
  <2>1. a \in Int /\ z \in Int /\ MidnightOf(now + k * Day) = a
    BY <1>0, <1>2
  <2>2. DayWindow(now + k * Day, days) = Interval(Instant(a), Instant(z))
    BY <2>1 DEF DayWindow
  <2>3. ASSUME NEW i \in Int, k <= i, i < k + days
        PROVE  m + i * Day \in Int /\ a <= m + i * Day /\ m + i * Day < z
    BY <1>0, <2>3
  <2> QED BY <1>1, <2>1, <2>2, <2>3
<1>4. ASSUME NEW length \in Int, length > 0, length >= Day, \E q \in Nat : length = q * Day
      PROVE  LET v == Previous(now, length)
             IN /\ v.start.lo < v.end.lo /\ v.start.lo <= now /\ v.end.lo <= m
  <2> DEFINE z == (now \div length) * length
             a == (now \div length - 1) * length
  <2>1. now \div length \in Int /\ z \in Int /\ z <= now /\ a = z - length /\ a \in Int
    BY <1>4
  <2>2. PICK q \in Nat : length = q * Day
    BY <1>4
  <2>3. \E k \in Int : z = k * Day
    <3>1. (now \div length) * q \in Int /\ z = ((now \div length) * q) * Day
      BY <1>0, <2>1, <2>2
    <3> QED BY <3>1
  <2>4. z <= m
    <3>1. PICK k \in Int : z = k * Day
      BY <2>3
    <3>2. PICK d \in Int : m = d * Day
      BY <1>0 DEF MidnightOf
    <3>3. k * Day < (d + 1) * Day
      BY <1>0, <2>1, <3>1, <3>2
    <3>4. k <= d
      BY <1>0, <3>3
    <3> QED BY <1>0, <3>1, <3>2, <3>4
  <2>5. Previous(now, length) = Interval(Instant(a), Instant(z))
    BY DEF Previous
  <2> QED BY <1>1, <1>4, <2>1, <2>4, <2>5
<1>5. /\ 7 * Day \in Int /\ 7 * Day > 0 /\ 7 * Day >= Day /\ \E q \in Nat : 7 * Day = q * Day
      /\ Month > 0 /\ Month >= Day /\ \E q \in Nat : Month = q * Day
      /\ Year > 0 /\ Year >= Day /\ \E q \in Nat : Year = q * Day
  <2>1. PICK q \in Nat : Month = q * Day /\ q >= 1
    <3>1. Month = (Month \div Day) * Day /\ Month \div Day \in Nat
      BY Calendar
    <3>2. Month \div Day >= 1
      BY <3>1, CalendarIs
    <3> QED BY <3>1, <3>2
  <2>2. PICK r \in Nat : Year = r * Month /\ r >= 1
    <3>1. Year = (Year \div Month) * Month /\ Year \div Month \in Nat
      BY Calendar
    <3>2. Year \div Month >= 1
      BY <3>1, CalendarIs
    <3> QED BY <3>1, <3>2
  <2>3. r * q \in Nat /\ Year = (r * q) * Day
    BY <1>0, <2>1, <2>2
  <2>4. Month >= Day /\ Year >= Month
    BY <1>0, <2>1, <2>2, CalendarIs
  <2>5. 7 \in Nat /\ q \in Nat /\ r * q \in Nat /\ Month >= Day /\ Year >= Day
    BY <1>0, <2>1, <2>3, <2>4, CalendarIs
  <2>6. \E p \in Nat : Year = p * Day
    BY <2>3
  <2>7. 7 * Day \in Int /\ 7 * Day > 0 /\ 7 * Day >= Day
    BY <1>0
  <2> QED BY <2>1, <2>5, <2>6, <2>7, CalendarIs
<1>6. CASE cue \in DOMAIN Spoken
  <2>1. \E k \in Int, days \in Nat :
            /\ w = DayWindow(now + k * Day, days)
            /\ k <= Spoken[cue] /\ Spoken[cue] < k + days /\ Spoken[cue] \in Int
            /\ cue # "tomorrow" => k <= 0
            /\ cue \notin {"today", "tomorrow"} => k + days <= 0
    <3>1. CASE cue = "couple_of_days"
      <4>1. /\ w = DayWindow(now - 3 * Day, 3 - 1)
            /\ Spoken[cue] = -2
        BY <3>1 DEF QueryWindow, Fuzzy, Spoken
      <4>2. now - 3 * Day = now + (-3) * Day /\ 3 - 1 = 2
        BY <1>0
      <4> QED BY <3>1, <4>1, <4>2
    <3>2. CASE cue = "few_days"
      <4>1. /\ w = DayWindow(now - 5 * Day, 5 - 2)
            /\ Spoken[cue] = -3
        BY <3>2 DEF QueryWindow, Fuzzy, Spoken
      <4>2. now - 5 * Day = now + (-5) * Day /\ 5 - 2 = 3
        BY <1>0
      <4> QED BY <3>2, <4>1, <4>2
    <3>3. CASE cue = "couple_of_weeks"
      <4>1. /\ w = DayWindow(now - 21 * Day, 21 - 7)
            /\ Spoken[cue] = -14
        BY <3>3 DEF QueryWindow, Fuzzy, Spoken
      <4>2. now - 21 * Day = now + (-21) * Day /\ 21 - 7 = 14
        BY <1>0
      <4> QED BY <3>3, <4>1, <4>2
    <3>4. CASE cue = "few_weeks"
      <4>1. /\ w = DayWindow(now - 35 * Day, 35 - 14)
            /\ Spoken[cue] = -21
        BY <3>4 DEF QueryWindow, Fuzzy, Spoken
      <4>2. now - 35 * Day = now + (-35) * Day /\ 35 - 14 = 21
        BY <1>0
      <4> QED BY <3>4, <4>1, <4>2
    <3>5. CASE cue = "few_months"
      <4>1. /\ w = DayWindow(now - 150 * Day, 150 - 60)
            /\ Spoken[cue] = -90
        BY <3>5 DEF QueryWindow, Fuzzy, Spoken
      <4>2. now - 150 * Day = now + (-150) * Day /\ 150 - 60 = 90
        BY <1>0
      <4> QED BY <3>5, <4>1, <4>2
    <3>6. CASE cue = "yesterday"
      <4>1. w = DayWindow(now - Day, 1) /\ Spoken[cue] = -1
        BY <3>6 DEF QueryWindow, Fuzzy, Spoken
      <4>2. now - Day = now + (-1) * Day
        BY <1>0
      <4> QED BY <3>6, <4>1, <4>2
    <3>7. CASE cue = "today"
      <4>1. w = DayWindow(now, 1) /\ Spoken[cue] = 0
        BY <3>7 DEF QueryWindow, Fuzzy, Spoken
      <4>2. now = now + (0) * Day
        BY <1>0
      <4> QED BY <3>7, <4>1, <4>2
    <3>8. CASE cue = "tomorrow"
      <4>1. w = DayWindow(now + Day, 1) /\ Spoken[cue] = 1
        BY <3>8 DEF QueryWindow, Fuzzy, Spoken
      <4>2. now + Day = now + (1) * Day
        BY <1>0
      <4> QED BY <3>8, <4>1, <4>2
    <3> QED BY <1>6, <3>1, <3>2, <3>3, <3>4, <3>5, <3>6, <3>7, <3>8 DEF Spoken
  <2>2. PICK k \in Int, days \in Nat :
            /\ w = DayWindow(now + k * Day, days)
            /\ k <= Spoken[cue] /\ Spoken[cue] < k + days /\ Spoken[cue] \in Int
            /\ cue # "tomorrow" => k <= 0
            /\ cue \notin {"today", "tomorrow"} => k + days <= 0
    BY <2>1
  <2>3. days > 0
    BY <2>2
  <2>4. /\ w.start.lo = m + k * Day
        /\ w.end.lo = m + k * Day + days * Day
        /\ Contains(w, Instant(m + Spoken[cue] * Day)) = "true"
    BY <1>3, <2>2, <2>3
  <2>5. /\ days * Day > 0 /\ days * Day \in Int /\ k * Day \in Int
        /\ k <= 0 => k * Day <= 0
        /\ k + days <= 0 => k * Day + days * Day <= 0
    BY <1>0, <2>3
  <2>6. cue # "named_month"
    BY <1>6 DEF Spoken
  <2> QED BY <1>0, <1>6, <2>2, <2>4, <2>5, <2>6
<1>7. CASE cue \in Periods
  <2>1. /\ cue = "last_week" => w = Previous(now, 7 * Day)
        /\ cue = "last_month" => w = Previous(now, Month)
        /\ cue = "last_year" => w = Previous(now, Year)
        /\ cue \notin DOMAIN Spoken /\ cue # "named_month"
    BY <1>7 DEF QueryWindow, Fuzzy, Spoken, Periods
  <2>2. w.start.lo < w.end.lo /\ w.start.lo <= now /\ w.end.lo <= m
    BY <1>4, <1>5, <1>7, <2>1, CalendarIs DEF Periods
  <2> QED BY <2>1, <2>2
<1>8. CASE cue = "named_month"
  <2> DEFINE a == NamedMonth(n, now)
  <2>1. w = Interval(Instant(a), Instant(a + Month)) /\ cue \notin DOMAIN Spoken
    BY <1>8 DEF QueryWindow, Fuzzy, Spoken
  <2>2. (now \div Year) * Year \in Int /\ (now \div Year) * Year <= now
    BY CalendarIs
  <2>3. a \in Int /\ a <= now /\ now < a + Year
    <3> DEFINE this == (now \div Year) * Year + n * Month
    <3>1. now < (now \div Year) * Year + Year /\ n * Month \in Int /\ n * Month >= 0
      BY CalendarIs
    <3>2. this \in Int /\ now < this + Year
      BY <2>2, <3>1, CalendarIs
    <3>3. this - Year <= now
      BY <2>2, <3>1, CalendarIs
    <3>4. a = IF this <= now THEN this ELSE this - Year
      BY DEF NamedMonth
    <3> HIDE DEF this, a
    <3> QED BY <3>2, <3>3, <3>4, CalendarIs
  <2>4. w.start.lo = a /\ w.end.lo = a + Month
    BY <1>1, <2>1, <2>3, CalendarIs
  <2> QED BY <1>8, <2>1, <2>3, <2>4, CalendarIs
<1> QED BY <1>6, <1>7, <1>8 DEF Spoken

\* The window of a day or a month that is named in full has just the instants of that day or
\* month, in the past or in the future.  (parse_query_window.)
THEOREM DatesAreExact ==
  ASSUME NEW cue \in DOMAIN Dates, NEW n \in Int, NEW now \in Int, NEW t \in Int
  PROVE  Contains(QueryWindow(cue, n, now), Instant(t)) = "true" <=> t \div Dates[cue] = n
<1>1. PICK length \in Int : length = Dates[cue] /\ length > 0
  BY CalendarIs DEF Dates
<1>2. QueryWindow(cue, n, now) = Dated(n, length)
  <2>1. CASE cue = "named_day"
    BY <1>1, <2>1 DEF QueryWindow, Fuzzy, Dates
  <2>2. CASE cue = "month_of_year"
    BY <1>1, <2>2 DEF QueryWindow, Fuzzy, Dates
  <2> QED BY <2>1, <2>2 DEF Dates
<1>3. PICK a \in Int : a = n * length
  BY <1>1
<1>4. PICK b \in Int : b = (n + 1) * length
  BY <1>1
<1>5. Contains(Interval(Instant(a), Instant(b)), Instant(t)) = "true" <=> a <= t /\ t < b
  BY NoneIsNoInstant
     DEF Interval, Instant, Envelope, Contains, Le3, Lt3, Opposite, Both, Definitely, Lower, Possibly
<1>6. a <= t /\ t < b <=> t \div length = n
  <2>1. PICK q \in Int : q = t \div length
    BY <1>1
  <2>2. q * length <= t /\ t < q * length + length
    <3>1. (t \div length) * length <= t /\ t < (t \div length) * length + length
      BY <1>1
    <3> QED BY <2>1, <3>1
  <2>3. ASSUME q = n PROVE a <= t /\ t < b
    BY <1>1, <1>3, <1>4, <2>2, <2>3
  <2>4. ASSUME a <= t, t < b PROVE q = n
    <3>1. q * length < (n + 1) * length /\ n * length < (q + 1) * length
      BY <1>1, <1>3, <1>4, <2>2, <2>4
    <3>2. q < n + 1 /\ n < q + 1
      BY <1>1, <3>1
    <3> QED BY <3>2
  <2> QED BY <2>1, <2>3, <2>4
<1> QED BY <1>1, <1>2, <1>3, <1>4, <1>5, <1>6 DEF Dated

-----------------------------------------------------------------------------
(* Recursion over the numbers of versions.                                 *)

\* A non-empty set of numbers up to a bound has a greatest element.
LEMMA MaxExists ==
    ASSUME NEW k \in Nat, NEW T \in SUBSET (0..k), T # {}
    PROVE  \E x \in T : \A y \in T : y <= x
<1> DEFINE Above(x) == {y \in 0..k : x < y}
           A == {Above(x) : x \in T}
           R == StrictSubsetOrdering(0..k)
<1>1. IsFiniteSet(0..k)
  BY FS_Interval
<1>2. IsWellFoundedOn(R, SUBSET (0..k))
  BY <1>1, FS_StrictSubsetOrderingWellFounded, FS_FiniteSubsetsOfFinite, Zenon
<1>3. A \subseteq SUBSET (0..k) /\ A # {}
  OBVIOUS
<1>4. \E a \in A : \A b \in A : ~(<<b, a>> \in R)
  <2> HIDE DEF A, R
  <2> QED BY <1>2, <1>3, WFMin, Zenon
<1>5. PICK x \in T : \A y \in T : ~(<<Above(y), Above(x)>> \in R)
  BY <1>4
<1>6. ASSUME NEW y \in T, ~(y <= x) PROVE FALSE
  <2>1. Above(y) \subseteq Above(x)
    BY <1>6
  <2>2. y \in Above(x) /\ y \notin Above(y)
    BY <1>6
  <2>3. <<Above(y), Above(x)>> \in R
    <3>1. Above(y) # Above(x)
      BY <2>2
    <3> HIDE DEF Above
    <3>2. Above(y) \in SUBSET (0..k) /\ Above(x) \in SUBSET (0..k)
      BY DEF Above
    <3> QED BY <3>1, <3>2, <2>1 DEF StrictSubsetOrdering
  <2> QED BY <2>3, <1>5
<1> QED BY <1>6

\* Max of a non-empty set of numbers up to a bound.
LEMMA MaxIs ==
    ASSUME NEW k \in Nat, NEW T \in SUBSET (0..k), T # {}
    PROVE  Max(T) \in T /\ \A y \in T : y <= Max(T)
<1>1. \E x \in T : \A y \in T : x >= y
  BY MaxExists
<1> QED BY <1>1 DEF Max

\* Strong induction, on a set instead of a formula.
LEMMA Upwards ==
    ASSUME NEW k \in Nat, NEW G \in SUBSET (0..k),
           \A n \in 0..k : 0..(n - 1) \subseteq G => n \in G
    PROVE  0..k \subseteq G
<1> DEFINE T == {n \in 0..k : 0..n \subseteq G}
<1>1. 0 \in T
  BY 0..(0 - 1) = {} /\ 0..0 = {0}
<1>2. PICK n \in T : \A j \in T : j <= n
  <2>1. T \in SUBSET (0..k) /\ T # {}
    BY <1>1
  <2> HIDE DEF T
  <2> QED BY <2>1, MaxExists
<1>3. CASE n < k
  <2>1. n + 1 \in 0..k /\ 0..((n + 1) - 1) \subseteq G
    BY <1>3
  <2>2. 0..(n + 1) \subseteq G
    BY <2>1
  <2>3. n + 1 \in T /\ ~(n + 1 <= n)
    BY <2>1, <2>2
  <2> QED BY <2>3, <1>2
<1>4. CASE n = k
  BY <1>4
<1> QED BY <1>3, <1>4

\* A log whose versions supersede only earlier ones.
Descends(L, V) ==
    /\ Len(L) \in Nat /\ V \subseteq 1..Len(L)
    /\ \A n \in V : L[n].supersedes \in 0..(n - 1)

\* The functions that Lineage and AncestorAsOf define, of the log.
Below(L, S) ==
    CHOOSE f : f = [k \in 0..Len(L) |->
        IF k \in S THEN {k} \cup f[L[k].supersedes] ELSE {}]
Down(L, V, S) ==
    CHOOSE f : f = [k \in 0..Len(L) |->
        IF k \in S \cup {0} THEN k ELSE IF k \in V THEN f[L[k].supersedes] ELSE 0]

LEMMA BelowRecurs ==
    ASSUME NEW L, NEW S, Descends(L, S)
    PROVE  \A k \in 0..Len(L) :
             Below(L, S)[k] = IF k \in S THEN {k} \cup Below(L, S)[L[k].supersedes] ELSE {}
<1> DEFINE Step(f, k) == IF k \in S THEN {k} \cup f[L[k].supersedes] ELSE {}
           G == {n \in 0..Len(L) : \E f : \A k \in 0..n : f[k] = Step(f, k)}
<1>0. Len(L) \in Nat /\ \A n \in S : L[n].supersedes \in 0..(n - 1)
  BY DEF Descends
<1>1. ASSUME NEW n \in 0..Len(L), 0..(n - 1) \subseteq G PROVE n \in G
  <2>1. \E f : \A k \in 0..(n - 1) : f[k] = Step(f, k)
    <3>1. CASE n = 0
      BY <3>1, 0..(0 - 1) = {}
    <3>2. CASE n # 0
      <4>1. n - 1 \in 0..(n - 1)
        BY <1>0, <3>2
      <4>2. n - 1 \in G
        <5> HIDE DEF G
        <5> QED BY <1>1, <4>1
      <4> QED BY <4>2
    <3> QED BY <3>1, <3>2
  <2>2. PICK f : \A k \in 0..(n - 1) : f[k] = Step(f, k)
    BY <2>1
  <2> DEFINE g == [k \in 0..n |-> IF k = n THEN Step(f, n) ELSE f[k]]
  <2>3. ASSUME NEW k \in 0..n PROVE g[k] = Step(g, k)
    <3>1. k \in S => g[L[k].supersedes] = f[L[k].supersedes]
      BY <1>0, <2>3
    <3>2. Step(g, k) = Step(f, k)
      BY <3>1
    <3>3. g[k] = Step(f, k)
      <4>1. k # n => k \in 0..(n - 1)
        BY <1>0, <2>3
      <4> HIDE DEF Step
      <4> QED BY <2>2, <2>3, <4>1
    <3> QED BY <3>2, <3>3
  <2> HIDE DEF g, Step
  <2> QED BY <2>3
<1>2. Len(L) \in G
  <2> HIDE DEF G
  <2>1. G \in SUBSET (0..Len(L))
    BY DEF G
  <2>2. 0..Len(L) \subseteq G
    BY <1>0, <1>1, <2>1, Upwards
  <2> QED BY <1>0, <2>2
<1>3. PICK f : \A k \in 0..Len(L) : f[k] = Step(f, k)
  BY <1>2
<1> DEFINE h == [k \in 0..Len(L) |-> f[k]]
<1>4. h = [k \in 0..Len(L) |-> Step(h, k)]
  <2>1. ASSUME NEW k \in 0..Len(L) PROVE h[k] = Step(h, k)
    <3>1. k \in S => h[L[k].supersedes] = f[L[k].supersedes]
      BY <1>0, <2>1
    <3> QED BY <1>3, <2>1, <3>1
  <2> HIDE DEF Step
  <2> QED BY <2>1
<1>5. \E e : e = [k \in 0..Len(L) |-> Step(e, k)]
  <2> HIDE DEF h, Step
  <2> QED BY <1>4
<1>6. Below(L, S) = [k \in 0..Len(L) |-> Step(Below(L, S), k)]
  BY <1>5, Zenon DEF Below
<1> HIDE DEF Step
<1>7. \A k \in 0..Len(L) : Below(L, S)[k] = Step(Below(L, S), k)
  <2> DEFINE e == Below(L, S)
  <2> HIDE DEF e
  <2>1. e = [k \in 0..Len(L) |-> Step(e, k)]
    BY <1>6 DEF e
  <2>2. \A k \in 0..Len(L) : e[k] = Step(e, k)
    BY <2>1
  <2> QED BY <2>2 DEF e
<1> QED BY <1>7 DEF Step

LEMMA DownRecurs ==
    ASSUME NEW L, NEW V, NEW S, Descends(L, V)
    PROVE  \A k \in 0..Len(L) :
             Down(L, V, S)[k] =
               IF k \in S \cup {0} THEN k
               ELSE IF k \in V THEN Down(L, V, S)[L[k].supersedes] ELSE 0
<1> DEFINE Step(f, k) == IF k \in S \cup {0} THEN k
                         ELSE IF k \in V THEN f[L[k].supersedes] ELSE 0
           G == {n \in 0..Len(L) : \E f : \A k \in 0..n : f[k] = Step(f, k)}
<1>0. Len(L) \in Nat /\ \A n \in V : L[n].supersedes \in 0..(n - 1)
  BY DEF Descends
<1>1. ASSUME NEW n \in 0..Len(L), 0..(n - 1) \subseteq G PROVE n \in G
  <2>1. \E f : \A k \in 0..(n - 1) : f[k] = Step(f, k)
    <3>1. CASE n = 0
      BY <3>1, 0..(0 - 1) = {}
    <3>2. CASE n # 0
      <4>1. n - 1 \in 0..(n - 1)
        BY <1>0, <3>2
      <4>2. n - 1 \in G
        <5> HIDE DEF G
        <5> QED BY <1>1, <4>1
      <4> QED BY <4>2
    <3> QED BY <3>1, <3>2
  <2>2. PICK f : \A k \in 0..(n - 1) : f[k] = Step(f, k)
    BY <2>1
  <2> DEFINE g == [k \in 0..n |-> IF k = n THEN Step(f, n) ELSE f[k]]
  <2>3. ASSUME NEW k \in 0..n PROVE g[k] = Step(g, k)
    <3>1. k \in V => g[L[k].supersedes] = f[L[k].supersedes]
      BY <1>0, <2>3
    <3>2. Step(g, k) = Step(f, k)
      BY <3>1
    <3>3. g[k] = Step(f, k)
      <4>1. k # n => k \in 0..(n - 1)
        BY <1>0, <2>3
      <4> HIDE DEF Step
      <4> QED BY <2>2, <2>3, <4>1
    <3> QED BY <3>2, <3>3
  <2> HIDE DEF g, Step
  <2> QED BY <2>3
<1>2. Len(L) \in G
  <2> HIDE DEF G
  <2>1. G \in SUBSET (0..Len(L))
    BY DEF G
  <2>2. 0..Len(L) \subseteq G
    BY <1>0, <1>1, <2>1, Upwards
  <2> QED BY <1>0, <2>2
<1>3. PICK f : \A k \in 0..Len(L) : f[k] = Step(f, k)
  BY <1>2
<1> DEFINE h == [k \in 0..Len(L) |-> f[k]]
<1>4. h = [k \in 0..Len(L) |-> Step(h, k)]
  <2>1. ASSUME NEW k \in 0..Len(L) PROVE h[k] = Step(h, k)
    <3>1. k \in V => h[L[k].supersedes] = f[L[k].supersedes]
      BY <1>0, <2>1
    <3> QED BY <1>3, <2>1, <3>1
  <2> HIDE DEF Step
  <2> QED BY <2>1
<1>5. \E e : e = [k \in 0..Len(L) |-> Step(e, k)]
  <2> HIDE DEF h, Step
  <2> QED BY <1>4
<1>6. Down(L, V, S) = [k \in 0..Len(L) |-> Step(Down(L, V, S), k)]
  BY <1>5, Zenon DEF Down
<1> HIDE DEF Step
<1>7. \A k \in 0..Len(L) : Down(L, V, S)[k] = Step(Down(L, V, S), k)
  <2> DEFINE e == Down(L, V, S)
  <2> HIDE DEF e
  <2>1. e = [k \in 0..Len(L) |-> Step(e, k)]
    BY <1>6 DEF e
  <2>2. \A k \in 0..Len(L) : e[k] = Step(e, k)
    BY <2>1
  <2> QED BY <2>2 DEF e
<1> QED BY <1>7 DEF Step

LEMMA LineageIsBelow ==
    ASSUME NEW m, NEW S
    PROVE  Lineage(m, S) = Below(log, S)[m]
BY Zenon DEF Lineage, Below

LEMMA AncestorIsDown ==
    ASSUME NEW m, NEW b, NEW S
    PROVE  AncestorAsOf(m, b, S) = Down(log, Versions(b), S)[m]
BY Zenon DEF AncestorAsOf, Down

\* The versions below one of S are of S, and so is the version of S that the way
\* down from any version comes to, if it comes to one.
LEMMA BelowStays ==
    ASSUME NEW L, NEW S, Descends(L, S), NEW m \in 0..Len(L)
    PROVE  Below(L, S)[m] \subseteq S
<1> DEFINE G == {n \in 0..Len(L) : Below(L, S)[n] \subseteq S}
<1>0. Len(L) \in Nat /\ \A n \in S : L[n].supersedes \in 0..(n - 1)
  BY DEF Descends
<1>1. ASSUME NEW n \in 0..Len(L), 0..(n - 1) \subseteq G PROVE n \in G
  <2>1. n \in S => L[n].supersedes \in G
    BY <1>0, <1>1
  <2>2. Below(L, S)[n] = IF n \in S THEN {n} \cup Below(L, S)[L[n].supersedes] ELSE {}
    BY BelowRecurs
  <2>3. Below(L, S)[n] \subseteq S
    BY <2>1, <2>2
  <2> QED BY <2>3
<1>2. G \in SUBSET (0..Len(L))
  OBVIOUS
<1>3. 0..Len(L) \subseteq G
  <2> HIDE DEF G
  <2> QED BY <1>0, <1>1, <1>2, Upwards
<1> QED BY <1>3

LEMMA DownStays ==
    ASSUME NEW L, NEW V, NEW S, Descends(L, V), NEW m \in 0..Len(L)
    PROVE  Down(L, V, S)[m] \in S \cup {0}
<1> DEFINE G == {n \in 0..Len(L) : Down(L, V, S)[n] \in S \cup {0}}
<1>0. Len(L) \in Nat /\ \A n \in V : L[n].supersedes \in 0..(n - 1)
  BY DEF Descends
<1>1. ASSUME NEW n \in 0..Len(L), 0..(n - 1) \subseteq G PROVE n \in G
  <2>1. n \in V => L[n].supersedes \in G
    BY <1>0, <1>1
  <2>2. Down(L, V, S)[n] = IF n \in S \cup {0} THEN n
                           ELSE IF n \in V THEN Down(L, V, S)[L[n].supersedes] ELSE 0
    BY DownRecurs
  <2>3. Down(L, V, S)[n] \in S \cup {0}
    BY <2>1, <2>2
  <2> QED BY <2>3
<1>2. G \in SUBSET (0..Len(L))
  OBVIOUS
<1>3. 0..Len(L) \subseteq G
  <2> HIDE DEF G
  <2> QED BY <1>0, <1>1, <1>2, Upwards
<1> QED BY <1>3

\* K is a log that L has grown into.
Extends(L, K) ==
    /\ Len(L) \in Nat /\ Len(K) \in Nat /\ Len(K) <= Len(L)
    /\ \A n \in 1..Len(K) : L[n] = K[n]

\* Neither depends on what a log has grown by.
LEMMA BelowKept ==
    ASSUME NEW K, NEW L, NEW S, Extends(L, K), Descends(K, S), NEW m \in 0..Len(K)
    PROVE  Below(L, S)[m] = Below(K, S)[m]
<1> DEFINE G == {n \in 0..Len(K) : Below(L, S)[n] = Below(K, S)[n]}
<1>0. /\ Len(K) \in Nat /\ S \subseteq 1..Len(K)
      /\ \A n \in S : K[n].supersedes \in 0..(n - 1) /\ L[n] = K[n]
      /\ 0..Len(K) \subseteq 0..Len(L)
  BY DEF Descends, Extends
<1>1. Descends(L, S)
  BY <1>0 DEF Descends, Extends
<1>2. ASSUME NEW n \in 0..Len(K), 0..(n - 1) \subseteq G PROVE n \in G
  <2>1. n \in S => K[n].supersedes \in G
    BY <1>0, <1>2
  <2>2. Below(K, S)[n] = IF n \in S THEN {n} \cup Below(K, S)[K[n].supersedes] ELSE {}
    BY BelowRecurs
  <2>3. Below(L, S)[n] = IF n \in S THEN {n} \cup Below(L, S)[L[n].supersedes] ELSE {}
    BY <1>0, <1>1, BelowRecurs
  <2> QED BY <1>0, <2>1, <2>2, <2>3
<1>3. G \in SUBSET (0..Len(K))
  OBVIOUS
<1>4. 0..Len(K) \subseteq G
  <2> HIDE DEF G
  <2> QED BY <1>0, <1>2, <1>3, Upwards
<1> QED BY <1>4

LEMMA DownKept ==
    ASSUME NEW K, NEW L, NEW V, NEW W, NEW S, Extends(L, K), Descends(K, V),
           Descends(L, W), W \cap (1..Len(K)) = V, NEW m \in 0..Len(K)
    PROVE  Down(L, W, S)[m] = Down(K, V, S)[m]
<1> DEFINE G == {n \in 0..Len(K) : Down(L, W, S)[n] = Down(K, V, S)[n]}
<1>0. /\ Len(K) \in Nat
      /\ \A n \in V : K[n].supersedes \in 0..(n - 1) /\ L[n] = K[n]
      /\ 0..Len(K) \subseteq 0..Len(L)
  BY DEF Descends, Extends
<1>1. 0 \notin W
  BY DEF Descends
<1>2. ASSUME NEW n \in 0..Len(K), 0..(n - 1) \subseteq G PROVE n \in G
  <2>1. n \in V => K[n].supersedes \in G
    BY <1>0, <1>2
  <2>2. Down(K, V, S)[n] = IF n \in S \cup {0} THEN n
                           ELSE IF n \in V THEN Down(K, V, S)[K[n].supersedes] ELSE 0
    BY DownRecurs
  <2>3. Down(L, W, S)[n] = IF n \in S \cup {0} THEN n
                           ELSE IF n \in W THEN Down(L, W, S)[L[n].supersedes] ELSE 0
    BY <1>0, DownRecurs
  <2>4. n \in V <=> n \in W
    BY <1>0, <1>1
  <2> QED BY <1>0, <2>1, <2>2, <2>3, <2>4
<1>3. G \in SUBSET (0..Len(K))
  OBVIOUS
<1>4. 0..Len(K) \subseteq G
  <2> HIDE DEF G
  <2> QED BY <1>0, <1>2, <1>3, Upwards
<1> QED BY <1>4

-----------------------------------------------------------------------------
(* The invariant, and how the log grows.                                   *)

Entries ==
    [branch : Branches, at : Times, speaker : Speakers]
      \cup [branch : Branches, at : Times, topic : Topics, valid : Validities,
            source : Nat, supersedes : Nat]

TypeOK ==
    /\ log \in Seq(Entries)
    /\ inherited \in [Branches -> SUBSET (1..Len(log))]
    /\ forked \in SUBSET Branches
    /\ clock \in Times

\* A version has a topic, and is later than what it cites and supersedes.
VersionsFollow ==
    \A n \in 1..Len(log) : IsVersion(n) =>
      /\ log[n].topic \in Topics
      /\ log[n].source \in 1..(n - 1)
      /\ log[n].supersedes \in 0..(n - 1)

IInv == TypeOK /\ VersionsFollow

LEMMA LogFacts ==
    ASSUME IInv
    PROVE  /\ Len(log) \in Nat /\ DOMAIN log = 1..Len(log)
           /\ \A n \in 1..Len(log) : log[n] \in Entries /\ log[n].at \in Int
           /\ clock \in Int
<1>1. log \in Seq(Entries)
  BY DEF IInv, TypeOK
<1>2. Len(log) \in Nat /\ DOMAIN log = 1..Len(log)
  BY <1>1, LenProperties
<1>3. \A n \in 1..Len(log) : log[n] \in Entries
  BY <1>1, <1>2, ElementOfSeq
<1>4. \A e \in Entries : e.at \in Times
  BY DEF Entries
<1>5. Times \subseteq Int
  BY BoundsAreNumbers DEF Times
<1> QED BY <1>2, <1>3, <1>4, <1>5 DEF IInv, TypeOK

\* The versions of a branch, and those of them that a search admits.
LEMMA VersionFacts ==
    ASSUME IInv, NEW b \in Branches
    PROVE  /\ Visible(b) \subseteq 1..Len(log)
           /\ Descends(log, Versions(b))
           /\ \A m \in Versions(b) : log[m].topic \in Topics /\ log[m].source \in 1..Len(log)
<1>1. Visible(b) \subseteq 1..Len(log)
  BY LogFacts DEF Visible, IInv, TypeOK
<1>2. Versions(b) \subseteq 1..Len(log) /\ \A m \in Versions(b) : IsVersion(m)
  BY <1>1 DEF Versions
<1>3. \A m \in Versions(b) : 1..(m - 1) \subseteq 1..Len(log)
  BY <1>2, LogFacts
<1> QED BY <1>1, <1>2, <1>3, LogFacts DEF IInv, VersionsFollow, Descends

LEMMA AdmittedFacts ==
    ASSUME IInv, NEW b \in Branches, NEW t \in Times \cup {None}
    PROVE  /\ Admitted(b, t) \subseteq Versions(b)
           /\ \E cut \in Nat : Admitted(b, t) = {m \in Versions(b) : m <= cut}
<1>1. CASE t = None
  <2>1. Admitted(b, t) = {m \in Versions(b) : m <= Len(log)}
    BY <1>1 DEF Admitted, MemoriesAsOf
  <2> QED BY <2>1, LogFacts
<1>2. CASE t # None
  <2> DEFINE T == {0} \cup {n \in Visible(b) : log[n].at <= t}
  <2>1. T \in SUBSET (0..Len(log)) /\ T # {}
    <3>1. Visible(b) \subseteq 0..Len(log)
      BY VersionFacts
    <3> QED BY <3>1, LogFacts
  <2>2. CutoffSeq(b, t) \in Nat
    <3> HIDE DEF T
    <3>1. Max(T) \in 0..Len(log)
      BY <2>1, LogFacts, MaxIs
    <3> QED BY <3>1, LogFacts DEF CutoffSeq, T
  <2>3. Admitted(b, t) = {m \in Versions(b) : m <= CutoffSeq(b, t)}
    BY <1>2 DEF Admitted, MemoriesAsOf
  <2> QED BY <2>2, <2>3
<1> QED BY <1>1, <1>2

LEMMA SuccessorFacts ==
    ASSUME IInv, NEW S, S \subseteq 1..Len(log), NEW m, NEW b
    PROVE  /\ SuccessorOf(m, b, S) # 0 =>
                SuccessorOf(m, b, S) \in S /\ log[SuccessorOf(m, b, S)].supersedes = m
           /\ SuccessorOf(m, b, S) = 0 <=> \A s \in S : log[s].supersedes # m
<1> DEFINE T == {0} \cup {s \in S : log[s].supersedes = m}
<1>1. T \in SUBSET (0..Len(log)) /\ T # {}
  <2>1. Len(log) \in Nat
    BY LogFacts
  <2>2. S \subseteq 0..Len(log) /\ 0 \in 0..Len(log)
    BY <2>1
  <2> QED BY <2>2
<1>2. Max(T) \in T /\ \A y \in T : y <= Max(T)
  <2> HIDE DEF T
  <2> QED BY <1>1, LogFacts, MaxIs
<1>3. \A s \in S : s \in Nat /\ s > 0
  BY LogFacts
<1>4. SuccessorOf(m, b, S) = Max(T)
  BY DEF SuccessorOf
<1>5. \A s \in S : s <= 0 => FALSE
  BY <1>3
<1> DEFINE k == Max(T)
<1> HIDE DEF k
<1>6. k \in T /\ \A y \in T : y <= k
  BY <1>2 DEF k
<1>7. (k # 0 => k \in S /\ log[k].supersedes = m) /\ (k = 0 <=> \A s \in S : log[s].supersedes # m)
  BY <1>3, <1>5, <1>6
<1> QED BY <1>4, <1>7 DEF k

-----------------------------------------------------------------------------
LEMMA Initially == Init => IInv
<1> SUFFICES ASSUME Init PROVE IInv
  OBVIOUS
<1>1. log = <<>> /\ log \in Seq(Entries) /\ Len(log) = 0
  BY EmptySeq DEF Init
<1>2. inherited \in [Branches -> SUBSET (1..Len(log))] /\ forked \in SUBSET Branches
  BY DEF Init, Branches
<1>3. clock \in Times
  BY BoundsAreNumbers DEF Init, Times
<1>4. VersionsFollow
  BY <1>1 DEF VersionsFollow
<1> QED BY <1>1, <1>2, <1>3, <1>4 DEF IInv, TypeOK

\* What a step may do to what reads look at: the log grows by an entry of now, and
\* what a branch inherits stays.
Grows ==
    /\ Extends(log', log)
    /\ \A n \in 1..Len(log') : n > Len(log) => log'[n].at = clock
    /\ forked \subseteq forked'
    /\ \A b \in forked : inherited'[b] = inherited[b]

LEMMA AppendStep ==
    ASSUME IInv, NEW e \in Entries, log' = Append(log, e), e.at = clock,
           UNCHANGED <<inherited, forked, clock>>,
           "topic" \in DOMAIN e =>
             /\ e.topic \in Topics /\ e.source \in 1..Len(log) /\ e.supersedes \in 0..Len(log)
    PROVE  IInv' /\ Grows
<1>1. /\ log' \in Seq(Entries) /\ Len(log') = Len(log) + 1 /\ Len(log) \in Nat
      /\ \A n \in 1..Len(log) : log'[n] = log[n]
      /\ log'[Len(log) + 1] = e
  <2>1. log \in Seq(Entries)
    BY DEF IInv, TypeOK
  <2> QED BY <2>1, LogFacts, AppendProperties
<1>2. 1..Len(log) \subseteq 1..Len(log')
  BY <1>1
<1>3. TypeOK'
  <2>1. inherited' \in [Branches -> SUBSET (1..Len(log'))]
    BY <1>2 DEF IInv, TypeOK
  <2> QED BY <1>1, <2>1 DEF IInv, TypeOK, Times
<1>4. VersionsFollow'
  <2> SUFFICES ASSUME NEW n \in 1..Len(log'), IsVersion(n)'
               PROVE  /\ log'[n].topic \in Topics
                      /\ log'[n].source \in 1..(n - 1)
                      /\ log'[n].supersedes \in 0..(n - 1)
    BY DEF VersionsFollow
  <2>1. CASE n \in 1..Len(log)
    BY <1>1, <2>1 DEF IInv, VersionsFollow, IsVersion
  <2>2. CASE n = Len(log) + 1
    BY <1>1, <2>2 DEF IsVersion
  <2> QED BY <1>1, <2>1, <2>2
<1>5. Grows
  BY <1>1 DEF Grows, Extends
<1> QED BY <1>3, <1>4, <1>5 DEF IInv

LEMMA SameLog ==
    ASSUME IInv, UNCHANGED log, TypeOK', forked \subseteq forked',
           \A b \in forked : inherited'[b] = inherited[b]
    PROVE  IInv' /\ Grows
<1>1. VersionsFollow'
  BY DEF IInv, VersionsFollow, IsVersion
<1>2. Extends(log', log)
  BY LogFacts DEF Extends
<1> QED BY <1>1, <1>2, LogFacts DEF IInv, Grows

\* Every step keeps the invariant and only adds to what reads look at.
LEMMA Stepwise ==
    ASSUME IInv, [Next]_vars
    PROVE  IInv' /\ Grows
<1>1. ASSUME NEW b \in Branches, NEW who \in Speakers, AppendMessage(b, who)
      PROVE  IInv' /\ Grows
  <2> DEFINE e == Message(b, who)
  <2>1. e \in Entries /\ e.at = clock /\ "topic" \notin DOMAIN e
    BY <1>1 DEF IInv, TypeOK, Entries, Message
  <2> QED BY <1>1, <2>1, AppendStep DEF AppendMessage
<1>2. ASSUME NEW b \in Branches, NEW topic \in Topics, NEW valid \in Validities,
             NEW source \in Numbers, NEW old \in 0..MaxEvents,
             DeriveMemory(b, topic, valid, source, old)
      PROVE  IInv' /\ Grows
  <2> DEFINE e == Version(b, topic, valid, source, old)
  <2>1. source \in 1..Len(log) /\ old \in 0..Len(log)
    <3>1. Visible(b) \subseteq 1..Len(log) /\ Versions(b) \subseteq Visible(b)
      BY VersionFacts DEF Versions
    <3>2. source \in Visible(b) /\ old \in {0} \cup Visible(b)
      BY <1>2, <3>1 DEF DeriveMemory, Supersedable
    <3> QED BY <3>1, <3>2, LogFacts
  <2>2. e = [branch |-> b, at |-> clock, topic |-> topic, valid |-> valid,
             source |-> source, supersedes |-> old]
    BY DEF Version
  <2>3. source \in Nat /\ old \in Nat
    BY <2>1, LogFacts
  <2>4. e \in Entries
    BY <2>2, <2>3 DEF IInv, TypeOK, Entries
  <2>5. e.at = clock /\ e.topic = topic /\ e.source = source /\ e.supersedes = old
    BY <2>2
  <2> QED BY <1>2, <2>1, <2>4, <2>5, AppendStep DEF DeriveMemory
<1>3. ASSUME NEW b \in Branches, NEW parent \in Branches, NEW cut \in 0..MaxEvents,
             CreateBranch(b, parent, cut)
      PROVE  IInv' /\ Grows
  <2>1. Inheritance(b, parent, cut) \subseteq 1..Len(log)
    BY VersionFacts DEF Inheritance
  <2>2. TypeOK'
    BY <1>3, <2>1 DEF CreateBranch, IInv, TypeOK, Times
  <2>3. b \notin forked
    BY <1>3 DEF CreateBranch
  <2>4. \A c \in forked : inherited'[c] = inherited[c]
    BY <1>3, <2>3 DEF CreateBranch, IInv, TypeOK
  <2> QED BY <1>3, <2>2, <2>4, SameLog DEF CreateBranch
<1>4. ASSUME NEW t \in Times, SetClock(t)
      PROVE  IInv' /\ Grows
  <2>1. TypeOK'
    BY <1>4 DEF SetClock, IInv, TypeOK, Times
  <2> QED BY <1>4, <2>1, SameLog DEF SetClock
<1>5. CASE UNCHANGED vars
  <2>1. TypeOK'
    BY <1>5 DEF vars, IInv, TypeOK, Times
  <2> QED BY <1>5, <2>1, SameLog DEF vars
<1> QED BY <1>1, <1>2, <1>3, <1>4, <1>5 DEF Next

\* Entries have their types, and versions come after what they cite and supersede.
THEOREM VersionsFollowTheirSources == Spec => []IInv
<1>1. IInv /\ [Next]_vars => IInv'
  BY Stepwise
<1> QED BY Initially, <1>1, PTL DEF Spec

-----------------------------------------------------------------------------
(* Replays are exact.                                                      *)

\* A search over the versions that are live now comes down to a version that had no
\* successor then: from the last version that is derived from it by way of
\* versions that were not known then.
LEMMA SomeWayDown ==
    ASSUME IInv, NEW b \in Branches, NEW t \in Times \cup {None}, NEW m \in LiveThen(b, t)
    PROVE  \E h \in Versions(b) \ Superseded(Versions(b)) :
             AncestorAsOf(h, b, Admitted(b, t)) = m
<1> DEFINE V == Versions(b)
           S == Admitted(b, t)
           C == {k \in V : Down(log, V, S)[k] = m}
<1>1. Descends(log, V) /\ S \subseteq V
  BY VersionFacts, AdmittedFacts
<1>2. m \in S /\ m \notin Superseded(S)
  BY DEF LiveThen
<1>3. Len(log) \in Nat /\ V \subseteq 1..Len(log)
  BY <1>1 DEF Descends
<1>4. \A k \in V : Down(log, V, S)[k] =
                     IF k \in S THEN k ELSE Down(log, V, S)[log[k].supersedes]
  <2>1. \A k \in V : k \in 0..Len(log) /\ k # 0
    BY <1>3
  <2> QED BY <1>1, <2>1, DownRecurs
<1>5. m \in C
  BY <1>1, <1>2, <1>4
<1>6. PICK h \in C : \A k \in C : k <= h
  <2>1. C \in SUBSET (0..Len(log)) /\ C # {}
    BY <1>3, <1>5
  <2> HIDE DEF C
  <2> QED BY <1>3, <2>1, MaxExists
<1>7. ASSUME h \in Superseded(V) PROVE FALSE
  <2>1. PICK k \in V : log[k].supersedes = h
    BY <1>7 DEF Superseded
  <2>2. h \in 0..(k - 1) /\ k \in 1..Len(log)
    BY <1>1, <1>3, <2>1 DEF Descends
  <2>3. ~(k <= h) /\ h < k
    BY <1>3, <2>2
  <2>4. CASE k \in S
    <3>1. h \in S
      <4>1. PICK cut \in Nat : S = {j \in V : j <= cut}
        BY AdmittedFacts
      <4>2. k <= cut
        BY <2>4, <4>1
      <4>3. h <= cut
        BY <1>3, <2>2, <2>3, <4>1, <4>2
      <4> QED BY <4>1, <4>3
    <3>2. h = m
      BY <1>4, <3>1
    <3> QED BY <1>2, <2>1, <2>4, <3>2 DEF Superseded
  <2>5. CASE k \notin S
    <3>1. Down(log, V, S)[k] = Down(log, V, S)[h]
      BY <1>4, <2>1, <2>5
    <3>2. k \in C
      BY <3>1
    <3> QED BY <1>6, <2>3, <3>2
  <2> QED BY <2>4, <2>5
<1> HIDE DEF V, S
<1>8. h \in V \ Superseded(V) /\ Down(log, V, S)[h] = m
  BY <1>7
<1> QED BY <1>8, AncestorIsDown DEF V, S

Everything == Query("all", None, FALSE, None)

\* What is looked at for everything.
LEMMA ListIs ==
    ASSUME IInv, NEW b \in Branches
    PROVE  /\ Matching(Everything, b) = Versions(b) \ Superseded(Versions(b))
           /\ Found(Everything, b) = {Matching(Everything, b)}
<1>1. ListMemories(b, Topics) = Versions(b) \ Superseded(Versions(b))
  BY VersionFacts DEF ListMemories
<1>2. Everything.by = "all"
  BY DEF Everything, Query
<1> QED BY <1>1, <1>2 DEF Matching, Found

\* Of a search: what is shown of what was found, and the hit that each is.
Shown(q, b, S, C) ==
  LET hits == {AncestorAsOf(m, b, S) : m \in {n \in C : Eligible(n)}} \ {0}
  IN IF q.history THEN UNION {Lineage(m, S) : m \in hits} ELSE hits
Certainty(q, m, b, S) ==
  IF q.validAt = None THEN "true" ELSE Contains(Effective(m, b, S), Instant(q.validAt))
Hit(q, m, b, S) == [version |-> m, match |-> Certainty(q, m, b, S)]

LEMMA AnswersAre ==
    ASSUME NEW q, NEW b, NEW S, NEW C
    PROVE  /\ Answers(q, b, S, C) =
                {h \in {Hit(q, m, b, S) : m \in Shown(q, b, S, C)} : Passes(q, h.match, h.version, b, S)}
           /\ \A h : h \in Answers(q, b, S, C) <=>
                \E m \in Shown(q, b, S, C) :
                  h = Hit(q, m, b, S) /\ Passes(q, Certainty(q, m, b, S), m, b, S)
<1>1. Answers(q, b, S, C) =
        {h \in {Hit(q, m, b, S) : m \in Shown(q, b, S, C)} : Passes(q, h.match, h.version, b, S)}
  BY Zenon DEF Answers, Shown, Hit, Certainty
<1>2. \A m : Hit(q, m, b, S).version = m /\ Hit(q, m, b, S).match = Certainty(q, m, b, S)
  BY DEF Hit
<1> QED BY <1>1, <1>2

\* What a search returns is among the answers to some of what matches.
LEMMA Returned ==
    ASSUME NEW q, NEW b, NEW t, NEW A \in Search(q, b, t)
    PROVE  \E C \in SUBSET Matching(q, b) : A \subseteq Answers(q, b, Admitted(b, t), C)
<1>1. \A n, X : \A B \in Cuts(n, X) : B \subseteq X
  BY DEF Cuts, kSubset
<1>2. PICK C \in Found(q, b) : A \in Cuts(Limit, Answers(q, b, Admitted(b, t), C))
  BY DEF Search, Outcomes
<1>3. C \subseteq Matching(q, b)
  BY <1>1, <1>2 DEF Found
<1> QED BY <1>1, <1>2, <1>3

\* Where no limit cuts anything off, it is what matches that is answered.
LEMMA Uncut ==
    ASSUME NEW q, NEW b, NEW t, Complete(q, b, t)
    PROVE  Search(q, b, t) = {Answers(q, b, Admitted(b, t), Matching(q, b))}
<1> DEFINE M == Matching(q, b)
           S == Admitted(b, t)
           A == Answers(q, b, S, M)
<1>1. Found(q, b) = {M}
  <2>1. Cuts(Candidates, M) = {M}
    BY DEF Complete, Cuts
  <2> HIDE DEF M
  <2> QED BY <2>1 DEF Found, M
<1>2. Cuts(Limit, A) = {A}
  BY DEF Complete, Cuts
<1> HIDE DEF A, M, S
<1>3. Outcomes(q, b, t) = {A}
  BY <1>1 DEF Outcomes, A, S
<1> QED BY <1>2, <1>3 DEF Search, A, M, S

LEMMA AnswersOfEverything ==
    ASSUME NEW b, NEW S, NEW C, \A m \in C : Eligible(m)
    PROVE  Answers(Everything, b, S, C) =
             {[version |-> m, match |-> "true"] : m \in
                {k \in {AncestorAsOf(m, b, S) : m \in C} \ {0} : SuccessorOf(k, b, S) = 0}}
<1>1. /\ Everything.history = FALSE /\ Everything.validAt = None
      /\ Everything.current = FALSE
  BY DEF Everything, Query
<1>2. \A k, match : Passes(Everything, match, k, b, S) <=> SuccessorOf(k, b, S) = 0
  BY <1>1 DEF Passes
<1>3. Shown(Everything, b, S, C) = {AncestorAsOf(m, b, S) : m \in C} \ {0}
  <2>1. {n \in C : Eligible(n)} = C
    OBVIOUS
  <2> QED BY <1>1, <2>1, Zenon DEF Shown
<1>4. \A m : Hit(Everything, m, b, S) = [version |-> m, match |-> "true"]
  BY <1>1 DEF Hit, Certainty
<1> DEFINE K == {k \in Shown(Everything, b, S, C) : SuccessorOf(k, b, S) = 0}
<1>5. \A h : h \in Answers(Everything, b, S, C) <=>
        \E m \in K : h = [version |-> m, match |-> "true"]
  BY <1>2, <1>4, AnswersAre
<1>6. Answers(Everything, b, S, C) = {[version |-> m, match |-> "true"] : m \in K}
  BY <1>5
<1> HIDE DEF K
<1> QED BY <1>3, <1>6 DEF K

\* Versions, shown for certain, are as many as the hits they are shown by.
LEMMA AsMany ==
    ASSUME NEW K, IsFiniteSet(K)
    PROVE  LET A == {[version |-> m, match |-> "true"] : m \in K}
           IN /\ {h.version : h \in A} = K
              /\ IsFiniteSet(A) /\ Cardinality(A) <= Cardinality(K)
<1> DEFINE hit(m) == [version |-> m, match |-> "true"]
           A == {hit(m) : m \in K}
           f == [m \in K |-> hit(m)]
<1>1. {h.version : h \in A} = K
  <2>1. \A m : hit(m).version = m
    OBVIOUS
  <2> HIDE DEF hit
  <2> QED BY <2>1
<1>2. f \in Surjection(K, A)
  <2> HIDE DEF hit
  <2> QED BY DEF Surjection
<1>3. IsFiniteSet(A) /\ Cardinality(A) <= Cardinality(K)
  <2> HIDE DEF f, A
  <2> QED BY <1>2, FS_Surjection
<1> QED BY <1>1, <1>3

LEMMA ReplayIsExact == IInv => ReplayExact
<1> SUFFICES ASSUME IInv, NEW b \in forked, NEW t \in Times,
                    \A m \in Versions(b) : Eligible(m),
                    NEW found \in Search(Everything, b, t)
             PROVE  /\ {h.version : h \in found} \subseteq LiveThen(b, t)
                    /\ Cardinality(LiveThen(b, t)) <= Limit =>
                         {h.version : h \in found} = LiveThen(b, t)
  BY DEF ReplayExact, Everything
<1> DEFINE S == Admitted(b, t)
           V == Versions(b)
           M == V \ Superseded(V)
           K == {k \in {AncestorAsOf(m, b, S) : m \in M} \ {0} : SuccessorOf(k, b, S) = 0}
           A == {[version |-> m, match |-> "true"] : m \in K}
<1>0. b \in Branches
  BY DEF IInv, TypeOK
<1>1. Descends(log, V) /\ S \subseteq V /\ V \subseteq 1..Len(log)
  BY <1>0, VersionFacts, AdmittedFacts DEF Descends
<1>2. found \in Cuts(Limit, A)
  <2>1. Found(Everything, b) = {M}
    BY <1>0, ListIs
  <2>2. Answers(Everything, b, S, M) = A
    <3>1. \A m \in M : Eligible(m)
      OBVIOUS
    <3> HIDE DEF S, M
    <3> QED BY <3>1, AnswersOfEverything
  <2> HIDE DEF A, M
  <2>3. Outcomes(Everything, b, t) = {A}
    BY <2>1, <2>2 DEF Outcomes
  <2> QED BY <2>3 DEF Search
<1>3. ASSUME NEW k \in K PROVE k \in LiveThen(b, t)
  <2>1. PICK m \in V : k = AncestorAsOf(m, b, S)
    BY <1>3
  <2>2. k \in S
    <3>1. Down(log, V, S)[m] \in S \cup {0}
      BY <1>1, DownStays
    <3> HIDE DEF S
    <3> QED BY <1>3, <2>1, <3>1, AncestorIsDown
  <2>3. \A s \in S : log[s].supersedes # k
    BY <1>1, <1>3, SuccessorFacts
  <2> QED BY <2>2, <2>3 DEF LiveThen, Superseded
<1>4. ASSUME NEW k \in LiveThen(b, t) PROVE k \in K
  <2>1. k \in S /\ \A s \in S : log[s].supersedes # k
    BY DEF LiveThen, Superseded
  <2>2. k # 0
    BY <1>1, <2>1
  <2>3. SuccessorOf(k, b, S) = 0
    BY <1>1, <2>1, SuccessorFacts
  <2>4. \E h \in V \ Superseded(V) : AncestorAsOf(h, b, S) = k
    BY <1>0, SomeWayDown
  <2> HIDE DEF S, V
  <2> QED BY <2>2, <2>3, <2>4
<1>5. K = LiveThen(b, t)
  <2> HIDE DEF K
  <2> QED BY <1>3, <1>4
<1>6. IsFiniteSet(K)
  <2>1. IsFiniteSet(1..Len(log))
    BY LogFacts, FS_Interval
  <2>2. K \subseteq 1..Len(log)
    BY <1>1, <1>5 DEF LiveThen
  <2> HIDE DEF K
  <2> QED BY <2>1, <2>2, FS_Subset
<1> HIDE DEF K
<1>7. {h.version : h \in A} = K /\ IsFiniteSet(A) /\ Cardinality(A) <= Cardinality(K)
  BY <1>6, AsMany
<1> HIDE DEF A
<1>8. found \subseteq A
  BY <1>2 DEF Cuts, kSubset
<1>9. ASSUME Cardinality(K) <= Limit PROVE found = A
  <2>1. Cardinality(A) \in Nat /\ Cardinality(K) \in Nat
    BY <1>6, <1>7, FS_CardinalityType
  <2>2. Cardinality(A) <= Limit
    BY <1>7, <1>9, <2>1, LimitsAreNumbers
  <2> QED BY <1>2, <2>2 DEF Cuts
<1> QED BY <1>5, <1>7, <1>8, <1>9

\* A replay of a past time returns versions that had no successor then, and all of
\* them unless they are more than the limit.  (list_memories, _ancestor_as_of.)
THEOREM ReplaysAreExact == Spec => []ReplayExact
BY VersionsFollowTheirSources, ReplayIsExact, PTL

-----------------------------------------------------------------------------
(* One truth at a time.                                                    *)

\* What a search shows is among the versions it admits.
LEMMA ShownIsAdmitted ==
    ASSUME IInv, NEW b \in Branches, NEW S, S \subseteq Versions(b), NEW q,
           NEW C \in SUBSET Versions(b)
    PROVE  Shown(q, b, S, C) \subseteq S
<1> DEFINE hits == {AncestorAsOf(m, b, S) : m \in {n \in C : Eligible(n)}} \ {0}
<1>1. Descends(log, Versions(b)) /\ Descends(log, S)
  BY VersionFacts DEF Descends
<1>2. hits \subseteq S
  <2> SUFFICES ASSUME NEW n \in C, AncestorAsOf(n, b, S) # 0
               PROVE  AncestorAsOf(n, b, S) \in S
    OBVIOUS
  <2>1. n \in 0..Len(log)
    BY <1>1 DEF Descends
  <2> QED BY <1>1, <2>1, DownStays, AncestorIsDown
<1>3. \A m \in hits : Lineage(m, S) \subseteq S
  <2> SUFFICES ASSUME NEW m \in S PROVE Lineage(m, S) \subseteq S
    BY <1>2
  <2>1. m \in 0..Len(log)
    BY <1>1 DEF Descends
  <2> QED BY <1>1, <2>1, BelowStays, LineageIsBelow
<1>4. Shown(q, b, S, C) = IF q.history THEN UNION {Lineage(m, S) : m \in hits} ELSE hits
  BY Zenon DEF Shown
<1> HIDE DEF hits
<1> QED BY <1>2, <1>3, <1>4

\* What a search of the history returns is of the versions it admits, and passes.
LEMMA AnswersOfHistory ==
    ASSUME IInv, NEW b \in Branches, NEW S, S \subseteq Versions(b), NEW q, q.history,
           NEW C \in SUBSET Versions(b), NEW h \in Answers(q, b, S, C)
    PROVE  /\ h.version \in S
           /\ h.match = Certainty(q, h.version, b, S)
           /\ Passes(q, h.match, h.version, b, S)
<1>1. PICK k \in Shown(q, b, S, C) :
         h = Hit(q, k, b, S) /\ Passes(q, Certainty(q, k, b, S), k, b, S)
  BY AnswersAre
<1>2. h.version = k /\ h.match = Certainty(q, k, b, S)
  BY <1>1 DEF Hit
<1>3. k \in S
  BY <1>1, ShownIsAdmitted
<1> QED BY <1>1, <1>2, <1>3

LEMMA OneTruth == IInv => OneTruthAtATime
<1> SUFFICES ASSUME IInv, NEW b \in forked, NEW t \in {k \in Times : k < clock} \cup {None},
                    NEW validAt \in Asked,
                    NEW valid \in Search(Query("all", None, TRUE, validAt), b, t),
                    NEW h \in valid, ~Known(log[h.version].valid.end), NEW k \in valid,
                    k.match = "true", k.version = SuccessorOf(h.version, b, Admitted(b, t))
             PROVE  FALSE
  BY DEF OneTruthAtATime
<1> DEFINE S == Admitted(b, t)
           q == Query("all", None, TRUE, validAt)
           now == Instant(validAt)
<1>0. b \in Branches /\ S \subseteq Versions(b) /\ S \subseteq 1..Len(log)
  BY VersionFacts, AdmittedFacts DEF IInv, TypeOK, Versions
<1>1. q.history /\ q.validAt = validAt /\ validAt # None /\ validAt \in Int
  BY AskedAreInstants, NoneIsNoInstant DEF Query
<1>2. PICK C \in SUBSET Versions(b) : h \in Answers(q, b, S, C) /\ k \in Answers(q, b, S, C)
  <2>1. Matching(q, b) \subseteq Versions(b)
    BY DEF Matching, ListMemories
  <2> QED BY <2>1, Returned
<1> HIDE DEF q, S
<1>3. /\ k.version \in S
      /\ k.match = Contains(Effective(k.version, b, S), now)
      /\ h.match = Contains(Effective(h.version, b, S), now)
      /\ Passes(q, h.match, h.version, b, S)
  BY <1>0, <1>1, <1>2, AnswersOfHistory DEF Certainty
<1> DEFINE start == log[k.version].valid.start
<1>4. Effective(k.version, b, S).start = start
  BY DEF Effective, Interval
<1>5. Le3(start, now) = "true"
  <2>1. Both(Le3(start, now), Lt3(now, Effective(k.version, b, S).end)) = "true"
    BY <1>3, <1>4 DEF Contains
  <2>2. Le3(start, now) \in Truths
    BY DEF Le3, Opposite, Truths
  <2> QED BY <2>1, <2>2 DEF Both, Truths
<1>6. Lt3(now, start) = "false"
  BY <1>5 DEF Le3, Opposite, Lt3
<1>7. Known(start)
  <2> SUFFICES ASSUME ~Known(start) PROVE FALSE
    OBVIOUS
  <2>1. ~start.singleton /\ start.lo = None /\ start.hi = None
    BY DEF Known
  <2>2. now.singleton /\ now.lo = validAt /\ now.lo # None
    BY <1>1 DEF Instant, Envelope
  <2>3. Possibly(now, start)
    BY <2>1, <2>2 DEF Possibly, Lower
  <2> QED BY <1>6, <2>3 DEF Lt3
<1>8. SuccessorOf(h.version, b, S) = k.version /\ k.version # 0
  BY <1>0, <1>3 DEF S
<1>9. Effective(h.version, b, S).end = start
  BY <1>7, <1>8 DEF Effective, Interval, EffectiveEnd
<1>10. h.match = "false"
  BY <1>3, <1>6, <1>9 DEF Contains, Both
<1> QED BY <1>1, <1>3, <1>10 DEF Passes

\* In a search of the history at an instant, an open version is not even possibly
\* valid beside a successor of it that is valid for certain.
\* (effective_end, _apply_temporal_controls.)
THEOREM OneTruthIsTold == Spec => []OneTruthAtATime
BY VersionsFollowTheirSources, OneTruth, PTL

-----------------------------------------------------------------------------
(* Reads repeat.                                                           *)

\* What a branch shows, at the end of a step, of what it showed before.
LEMMA BranchKept ==
    ASSUME IInv, IInv', Grows, NEW b \in forked
    PROVE  /\ b \in Branches
           /\ Visible(b)' \cap (1..Len(log)) = Visible(b)
           /\ Versions(b)' \cap (1..Len(log)) = Versions(b)
           /\ \A n \in 1..Len(log) : log'[n] = log[n]
           /\ 1..Len(log) \subseteq 1..Len(log')
<1>1. /\ Len(log) \in Nat /\ DOMAIN log = 1..Len(log)
      /\ Len(log') \in Nat /\ DOMAIN log' = 1..Len(log') /\ Len(log) <= Len(log')
      /\ \A n \in 1..Len(log) : log'[n] = log[n]
  <2>1. Len(log') \in Nat /\ DOMAIN log' = 1..Len(log')
    <3>1. log' \in Seq(Entries)'
      BY DEF IInv, TypeOK
    <3>2. \E E : log' \in Seq(E)
      BY <3>1 DEF Entries
    <3> QED BY <3>2, LenProperties
  <2> QED BY <2>1, LogFacts DEF Grows, Extends
<1>2. 1..Len(log) \subseteq 1..Len(log')
  BY <1>1
<1>3. b \in Branches /\ inherited'[b] = inherited[b] /\ inherited[b] \subseteq 1..Len(log)
  BY DEF IInv, TypeOK, Grows
<1>4. Visible(b)' = inherited'[b] \cup {n \in 1..Len(log') : log'[n].branch = b}
  BY <1>1 DEF Visible
<1>5. Visible(b) = inherited[b] \cup {n \in 1..Len(log) : log[n].branch = b}
  BY <1>1 DEF Visible
<1>6. Visible(b)' \cap (1..Len(log)) = Visible(b)
  BY <1>1, <1>2, <1>3, <1>4, <1>5
<1>7. \A n \in 1..Len(log) : IsVersion(n)' <=> IsVersion(n)
  BY <1>1 DEF IsVersion
<1>8. Versions(b)' = {n \in Visible(b)' : IsVersion(n)'}
  BY DEF Versions
<1>9. Versions(b) = {n \in Visible(b) : IsVersion(n)} /\ Visible(b) \subseteq 1..Len(log)
  BY <1>3, <1>5 DEF Versions
<1>10. Versions(b)' \cap (1..Len(log)) = Versions(b)
  BY <1>6, <1>7, <1>8, <1>9
<1> QED BY <1>1, <1>2, <1>3, <1>6, <1>10

\* What was known at a past time stays what was known then.
LEMMA AdmittedKept ==
    ASSUME IInv, IInv', Grows, NEW b \in forked, NEW t \in Times, t < clock
    PROVE  Admitted(b, t)' = Admitted(b, t)
<1> DEFINE T == {0} \cup {n \in Visible(b) : log[n].at <= t}
           U == {0} \cup {n \in Visible(b)' : log'[n].at <= t}
<1>0. t \in Int /\ t # None
  BY NoneIsNoInstant DEF Times
<1>1. \A n \in Visible(b)' : n \in 1..Len(log')
  <2>1. /\ IInv' => Visible(b)' \subseteq 1..Len(log')
    BY BranchKept DEF IInv, TypeOK, Visible
  <2> QED BY <2>1
<1>2. \A n \in Visible(b)' : n \notin 1..Len(log) => log'[n].at = clock
  <2>1. \A n \in 1..Len(log') : n \notin 1..Len(log) => n > Len(log)
    BY BranchKept, LogFacts
  <2> QED BY <1>1, <2>1 DEF Grows
<1>3. U = T
  BY <1>0, <1>2, BranchKept, LogFacts
<1>4. CutoffSeq(b, t)' = CutoffSeq(b, t)
  <2>1. CutoffSeq(b, t)' = Max(U)
    BY DEF CutoffSeq
  <2>2. CutoffSeq(b, t) = Max(T)
    BY DEF CutoffSeq
  <2> HIDE DEF T, U
  <2> QED BY <1>3, <2>1, <2>2
<1>5. /\ Admitted(b, t)' = {m \in Versions(b)' : m <= CutoffSeq(b, t)'}
      /\ Admitted(b, t) = {m \in Versions(b) : m <= CutoffSeq(b, t)}
  BY <1>0 DEF Admitted, MemoriesAsOf
<1>6. CutoffSeq(b, t) \in 0..Len(log)
  <2>1. T \in SUBSET (0..Len(log)) /\ T # {}
    <3>1. Visible(b) \subseteq 0..Len(log)
      BY VersionFacts, BranchKept
    <3> QED BY <3>1, LogFacts
  <2>2. CutoffSeq(b, t) = Max(T)
    BY DEF CutoffSeq
  <2> HIDE DEF T
  <2> QED BY <2>1, <2>2, LogFacts, MaxIs
<1>7. \A m \in Versions(b)' : m <= CutoffSeq(b, t) => m \in 1..Len(log)
  <2>1. \A m \in Versions(b)' : m \in 1..Len(log')
    BY <1>1 DEF Versions
  <2> QED BY <1>6, <2>1, LogFacts
<1> QED BY <1>4, <1>5, <1>7, BranchKept

LEMMA EligibleKept ==
    ASSUME IInv, IInv', Grows, NEW b \in forked, NEW m \in Versions(b)
    PROVE  /\ m \in Versions(b)' /\ log'[m] = log[m]
           /\ Eligible(m)' <=> Eligible(m)
<1>1. m \in 1..Len(log) /\ log[m].source \in 1..Len(log)
  BY BranchKept, VersionFacts DEF Descends
<1> QED BY <1>1, BranchKept DEF Eligible

LEMMA MatchingKept ==
    ASSUME IInv, IInv', Grows, NEW b \in forked, NEW q, q.by = "words"
    PROVE  Matching(q, b) \subseteq Matching(q, b)'
<1>1. Matching(q, b) = {m \in Versions(b) : log[m].topic = q.topic}
  BY DEF Matching
<1>2. Matching(q, b)' = {m \in Versions(b)' : log'[m].topic = q.topic}
  BY DEF Matching
<1> QED BY <1>1, <1>2, EligibleKept

\* What is said of a version and its successors, among versions of the past.
LEMMA ProjectionKept ==
    ASSUME IInv, IInv', Grows, NEW b \in forked, NEW S, S \subseteq Versions(b),
           NEW m \in S
    PROVE  /\ SuccessorOf(m, b, S)' = SuccessorOf(m, b, S)
           /\ Effective(m, b, S)' = Effective(m, b, S)
<1>1. \A n \in S : log'[n] = log[n]
  BY BranchKept, VersionFacts DEF Descends
<1>2. SuccessorOf(m, b, S)' = SuccessorOf(m, b, S)
  <2>1. {s \in S : log'[s].supersedes = m} = {s \in S : log[s].supersedes = m}
    BY <1>1
  <2>2. SuccessorOf(m, b, S)' = Max({0} \cup {s \in S : log'[s].supersedes = m})
    BY DEF SuccessorOf
  <2>3. SuccessorOf(m, b, S) = Max({0} \cup {s \in S : log[s].supersedes = m})
    BY DEF SuccessorOf
  <2> QED BY <2>1, <2>2, <2>3
<1>3. SuccessorOf(m, b, S) # 0 => SuccessorOf(m, b, S) \in S
  BY BranchKept, VersionFacts, SuccessorFacts DEF Descends
<1>4. Effective(m, b, S)' = Effective(m, b, S)
  BY <1>1, <1>2, <1>3 DEF Effective
<1> QED BY <1>2, <1>4

LEMMA VersionsNext ==
    ASSUME NEW b \in Branches
    PROVE  IInv' => Descends(log', Versions(b)')
<1>1. IInv => Descends(log, Versions(b))
  BY VersionFacts
<1>2. (IInv => Descends(log, Versions(b)))'
  BY <1>1, PTL
<1> QED BY <1>2 DEF Descends

LEMMA ReturnedNext ==
    ASSUME NEW q, NEW b, NEW t
    PROVE  \A A \in Search(q, b, t)' :
             \E C \in SUBSET Matching(q, b)' : A \subseteq Answers(q, b, Admitted(b, t), C)'
<1>1. \A A \in Search(q, b, t) :
        \E C \in SUBSET Matching(q, b) : A \subseteq Answers(q, b, Admitted(b, t), C)
  BY Returned
<1>2. (\A A \in Search(q, b, t) :
        \E C \in SUBSET Matching(q, b) : A \subseteq Answers(q, b, Admitted(b, t), C))'
  BY <1>1, PTL
<1> QED BY <1>2

LEMMA AnswersGrow ==
    ASSUME NEW q, NEW b, NEW S, NEW D, NEW C \in SUBSET D
    PROVE  Answers(q, b, S, C) \subseteq Answers(q, b, S, D)
<1> DEFINE hits(E) == {AncestorAsOf(m, b, S) : m \in {n \in E : Eligible(n)}} \ {0}
<1>1. \A E : Shown(q, b, S, E) = IF q.history THEN UNION {Lineage(m, S) : m \in hits(E)} ELSE hits(E)
  BY Zenon DEF Shown
<1>2. hits(C) \subseteq hits(D)
  OBVIOUS
<1> HIDE DEF hits
<1>3. Shown(q, b, S, C) \subseteq Shown(q, b, S, D)
  BY <1>1, <1>2
<1> QED BY <1>3, AnswersAre

LEMMA AnswersGrowNext ==
    ASSUME NEW q, NEW b, NEW S, NEW D, NEW C
    PROVE  C \subseteq D => Answers(q, b, S, C)' \subseteq Answers(q, b, S, D)'
<1>1. C \subseteq D => Answers(q, b, S, C) \subseteq Answers(q, b, S, D)
  BY AnswersGrow
<1>2. (C \subseteq D => Answers(q, b, S, C) \subseteq Answers(q, b, S, D))'
  BY <1>1, PTL
<1> QED BY <1>2

LEMMA AnswersNext ==
    ASSUME NEW q, NEW b, NEW S, NEW C
    PROVE  \A h : h \in Answers(q, b, S, C)' <=>
             \E m \in Shown(q, b, S, C)' :
               h = Hit(q, m, b, S)' /\ Passes(q, Certainty(q, m, b, S), m, b, S)'
<1>1. \A h : h \in Answers(q, b, S, C) <=>
        \E m \in Shown(q, b, S, C) :
          h = Hit(q, m, b, S) /\ Passes(q, Certainty(q, m, b, S), m, b, S)
  BY AnswersAre
<1>2. (\A h : h \in Answers(q, b, S, C) <=>
        \E m \in Shown(q, b, S, C) :
          h = Hit(q, m, b, S) /\ Passes(q, Certainty(q, m, b, S), m, b, S))'
  BY <1>1, PTL
<1> QED BY <1>2

LEMMA ShownNext ==
    ASSUME NEW q, NEW b \in Branches, NEW S, NEW C
    PROVE  IInv' /\ S \subseteq Versions(b)' /\ C \subseteq Versions(b)' =>
             Shown(q, b, S, C)' \subseteq S
<1>1. IInv /\ S \subseteq Versions(b) /\ C \subseteq Versions(b) => Shown(q, b, S, C) \subseteq S
  BY ShownIsAdmitted
<1>2. (IInv /\ S \subseteq Versions(b) /\ C \subseteq Versions(b) => Shown(q, b, S, C) \subseteq S)'
  BY <1>1, PTL
<1> QED BY <1>2

\* A version of the past is hit with the certainty it was hit with.
LEMMA HitKept ==
    ASSUME IInv, IInv', Grows, NEW b \in forked, NEW S, S \subseteq Versions(b),
           NEW m \in S, NEW q, ~q.current
    PROVE  /\ Hit(q, m, b, S)' = Hit(q, m, b, S)
           /\ Passes(q, Certainty(q, m, b, S), m, b, S)' <=> Passes(q, Certainty(q, m, b, S), m, b, S)
<1>1. /\ SuccessorOf(m, b, S)' = SuccessorOf(m, b, S)
      /\ Effective(m, b, S)' = Effective(m, b, S)
  BY ProjectionKept
<1>2. Certainty(q, m, b, S)' = Certainty(q, m, b, S)
  BY <1>1 DEF Certainty
<1>3. Passes(q, Certainty(q, m, b, S), m, b, S)' <=> Passes(q, Certainty(q, m, b, S), m, b, S)
  BY <1>1, <1>2 DEF Passes
<1> QED BY <1>2, <1>3 DEF Hit

LEMMA ShownKept ==
    ASSUME IInv, IInv', Grows, NEW b \in forked, NEW S, S \subseteq Versions(b),
           NEW C \in SUBSET Versions(b), NEW q
    PROVE  Shown(q, b, S, C)' = Shown(q, b, S, C)
<1> DEFINE hits == {AncestorAsOf(m, b, S) : m \in {n \in C : Eligible(n)}} \ {0}
           hits2 == {AncestorAsOf(m, b, S)' : m \in {n \in C : Eligible(n)'}} \ {0}
<1>0. /\ b \in Branches /\ Extends(log', log)
      /\ Descends(log, Versions(b)) /\ Descends(log', Versions(b)')
      /\ Descends(log, S) /\ 1..Len(log) \subseteq 0..Len(log)
      /\ Versions(b) \subseteq 0..Len(log) /\ Versions(b) \subseteq Versions(b)'
      /\ Versions(b)' \cap (1..Len(log)) = Versions(b)
  <2>1. b \in Branches /\ Extends(log', log)
    BY BranchKept DEF Grows
  <2>2. Descends(log', Versions(b)')
    BY <2>1, VersionsNext
  <2> QED BY <2>1, <2>2, BranchKept, VersionFacts, LogFacts DEF Descends
<1>1. Shown(q, b, S, C) = IF q.history THEN UNION {Lineage(m, S) : m \in hits} ELSE hits
  BY Zenon DEF Shown
<1>2. Shown(q, b, S, C)' = IF q.history THEN UNION {Lineage(m, S)' : m \in hits2} ELSE hits2
  BY Zenon DEF Shown
<1>3. ASSUME NEW m \in C
      PROVE  /\ AncestorAsOf(m, b, S)' = AncestorAsOf(m, b, S)
             /\ AncestorAsOf(m, b, S) \in S \cup {0}
             /\ Eligible(m)' <=> Eligible(m)
  <2>1. m \in 0..Len(log) /\ m \in Versions(b)
    BY <1>0
  <2>2. AncestorAsOf(m, b, S)' = Down(log', Versions(b)', S)[m]
    BY Zenon DEF AncestorAsOf, Down
  <2>3. Eligible(m)' <=> Eligible(m)
    BY <2>1, EligibleKept
  <2> QED BY <1>0, <2>1, <2>2, <2>3, DownKept, DownStays, AncestorIsDown
<1>4. hits = hits2 /\ hits \subseteq S
  BY <1>3
<1>5. ASSUME NEW m \in hits PROVE Lineage(m, S)' = Lineage(m, S)
  <2>1. m \in 0..Len(log)
    BY <1>0, <1>4
  <2>2. Lineage(m, S)' = Below(log', S)[m]
    BY Zenon DEF Lineage, Below
  <2> QED BY <1>0, <2>1, <2>2, BelowKept, LineageIsBelow
<1> HIDE DEF hits, hits2
<1>6. {Lineage(m, S)' : m \in hits2} = {Lineage(m, S) : m \in hits}
  BY <1>4, <1>5
<1> QED BY <1>1, <1>2, <1>4, <1>6

LEMMA AnswersKept ==
    ASSUME IInv, IInv', Grows, NEW b \in forked, NEW S, S \subseteq Versions(b),
           NEW C \in SUBSET Versions(b), NEW q, ~q.current
    PROVE  Answers(q, b, S, C)' = Answers(q, b, S, C)
<1>1. Shown(q, b, S, C)' = Shown(q, b, S, C) /\ Shown(q, b, S, C) \subseteq S
  BY ShownKept, ShownIsAdmitted, BranchKept
<1>2. \A h : h \in Answers(q, b, S, C)' <=> h \in Answers(q, b, S, C)
  BY <1>1, AnswersAre, AnswersNext, HitKept
<1> QED BY <1>2

\* A search by words as of a past time repeats, whatever is derived, superseded or
\* forked later and however the clock is set: never another certainty of a version it
\* returns twice, and while no limit cuts it off no answer lost, and none gained but
\* by a version that matches.  (search, _apply_temporal_controls, memories_as_of.)
THEOREM ReadsAreRepeatable == Spec => ReadsRepeat
<1>1. ASSUME IInv, [Next]_vars
      PROVE  \A b \in forked, t \in Times, topic \in Topics, validAt \in Asked \cup {None} :
               LET q == Query("words", topic, validAt # None, validAt)
               IN t < clock /\ t < clock' =>
                    \A old \in Search(q, b, t), new \in Search(q, b, t)' :
                      /\ \A h \in old, k \in new : h.version = k.version => h = k
                      /\ \/ old \subseteq new /\ (old # new => Matching(q, b)' # Matching(q, b))
                         \/ ~Complete(q, b, t)'
  <2> SUFFICES ASSUME NEW b \in forked, NEW t \in Times, NEW topic \in Topics,
                      NEW validAt \in Asked \cup {None}, t < clock,
                      NEW q, q = Query("words", topic, validAt # None, validAt),
                      NEW old \in Search(q, b, t), NEW new \in Search(q, b, t)'
               PROVE  /\ \A h \in old, k \in new : h.version = k.version => h = k
                      /\ \/ old \subseteq new /\ (old # new => Matching(q, b)' # Matching(q, b))
                         \/ ~Complete(q, b, t)'
    OBVIOUS
  <2>1. IInv' /\ Grows
    BY <1>1, Stepwise
  <2>2. PICK S : S = Admitted(b, t)
    OBVIOUS
  <2>3. /\ Admitted(b, t)' = S /\ S \subseteq Versions(b) /\ S \subseteq Versions(b)'
        /\ b \in Branches
    BY <1>1, <2>1, <2>2, AdmittedKept, AdmittedFacts, BranchKept
  <2>4. q.by = "words" /\ ~q.current
    BY DEF Query
  <2>5. PICK C \in SUBSET Matching(q, b) : old \subseteq Answers(q, b, S, C)
    BY <2>2, Returned
  <2>6. PICK D \in SUBSET Matching(q, b)' : new \subseteq Answers(q, b, S, D)'
    <3>1. \E D \in SUBSET Matching(q, b)' : new \subseteq Answers(q, b, Admitted(b, t), D)'
      BY ReturnedNext
    <3> QED BY <2>3, <3>1 DEF Answers
  <2>7. C \subseteq Versions(b) /\ D \subseteq Versions(b)'
    BY <2>4 DEF Matching
  <2>8. ASSUME NEW h \in old, NEW k \in new, h.version = k.version PROVE h = k
    <3>1. PICK m \in Shown(q, b, S, C) : h = Hit(q, m, b, S)
      BY <2>5, AnswersAre
    <3>2. PICK n \in Shown(q, b, S, D)' : k = Hit(q, n, b, S)'
      BY <2>6, AnswersNext
    <3>3. m \in S /\ n \in S
      BY <1>1, <2>1, <2>3, <2>7, <3>1, <3>2, ShownIsAdmitted, ShownNext
    <3>4. k = Hit(q, n, b, S)
      BY <1>1, <2>1, <2>3, <2>4, <3>2, <3>3, HitKept
    <3> QED BY <2>8, <3>1, <3>4 DEF Hit
  <2>9. PICK M, N : M = Matching(q, b) /\ N = Matching(q, b)'
    OBVIOUS
  <2>10. /\ M \subseteq Versions(b) /\ M \subseteq N
         /\ Answers(q, b, S, M)' = Answers(q, b, S, M)
         /\ Answers(q, b, S, C) \subseteq Answers(q, b, S, M)
    <3>1. M \subseteq Versions(b) /\ M \subseteq N
      BY <1>1, <2>1, <2>4, <2>9, MatchingKept DEF Matching
    <3> QED BY <1>1, <2>1, <2>3, <2>4, <2>5, <2>9, <3>1, AnswersKept, AnswersGrow
  <2>11. Answers(q, b, S, M)' \subseteq Answers(q, b, S, N)'
    BY <2>10, AnswersGrowNext
  <2>12. ASSUME Complete(q, b, t)'
         PROVE  old \subseteq new /\ (old # new => M # N)
    <3>1. new = Answers(q, b, S, N)'
      <4>1. (Complete(q, b, t) => Search(q, b, t) = {Answers(q, b, Admitted(b, t), Matching(q, b))})'
        BY Uncut, PTL
      <4> QED BY <2>3, <2>9, <2>12, <4>1
    <3>2. old \subseteq new
      BY <2>5, <2>10, <2>11, <3>1
    <3>3. M = N => Complete(q, b, t)
      BY <2>2, <2>3, <2>9, <2>10, <2>12 DEF Complete
    <3>4. M = N => old = Answers(q, b, S, M)
      BY <2>2, <2>9, <3>3, Uncut
    <3> QED BY <2>10, <3>1, <3>2, <3>4
  <2> QED BY <2>8, <2>9, <2>12
<1>2. IInv /\ [Next]_vars => IInv'
  BY Stepwise
<1> QED BY <1>1, <1>2, Initially, PTL DEF Spec, ReadsRepeat
=============================================================================
