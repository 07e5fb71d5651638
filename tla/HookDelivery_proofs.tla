------------------------ MODULE HookDelivery_proofs ------------------------
(***************************************************************************)
(* Proofs about HookDelivery, for any sessions, tasks, limits and native    *)
(* events, delivered in any order and repeated any number of times.         *)
(*                                                                         *)
(* A receipt names one event for ever, and no two receipts name the same:   *)
(* so what was derived from it is found again (Captures), whoever else      *)
(* delivers, compacts or starts a task in between.                          *)
(***************************************************************************)
EXTENDS HookDelivery, SequenceTheorems, FiniteSetTheorems, WellFoundedInduction, TLAPS

LogRow == [branch : Branches, session : Sessions \cup {None},
           origin : {"user", "untrusted", "assistant", "derived"}]
CounterRow == [receipt : {Receipt(d) : d \in Deliveries}, session : Sessions, total : Nat]
Flags == [refused : BOOLEAN, checkpoint : BOOLEAN, text : STRING]

LogTypes ==
  /\ log \in Seq(LogRow) /\ Len(log) \in Nat /\ Len(log) <= MaxEvents
  /\ taskOf \in [Sessions -> Tasks \cup {None}]
  /\ sessionBranch \in [Sessions -> Branches \cup {None}]

ReceiptTypes ==
  /\ receipts \in [DOMAIN receipts -> 1..Len(log)]
  /\ DOMAIN receipts \subseteq {Receipt(d) : d \in Deliveries}
  /\ \A r, q \in DOMAIN receipts : receipts[r] = receipts[q] => r = q

DerivedTypes ==
  /\ derived \in [DerivedKinds -> [Numbers -> Nat]]
  /\ \A k \in DerivedKinds \ {"failure"}, n \in Numbers : derived[k][n] \in {0, 1}

\* What no receipt names has nothing of its own derived from it.
NothingElse ==
  \A k \in DerivedKinds \ {"consolidated"}, n \in Numbers :
    (\A r \in DOMAIN receipts : receipts[r] # n) => derived[k][n] = 0

-----------------------------------------------------------------------------
(* The thresholds that a policy's limits give.                               *)

LEMMA QuotientBounds ==
  ASSUME NEW a \in Nat, NEW b \in Nat, b > 0
  PROVE  a \div b \in Nat /\ (a >= b => a \div b >= 1)
OBVIOUS

LEMMA ShareBounds ==
  ASSUME NEW w \in Nat, NEW percent \in Nat, w > 0, percent > 0, percent <= 100
  PROVE  Share(w, percent) \in Nat /\ 1 <= Share(w, percent) /\ Share(w, percent) <= w
<1>1. PICK q \in Nat : q = w * percent
  OBVIOUS
<1>2. 1 <= q /\ q <= w * 100
  BY <1>1
<1>3. Share(w, percent) = (q + 99) \div 100
  BY <1>1 DEF Share, CeilDiv
<1> QED BY <1>2, <1>3

\* The limits as the governor reads them: at least one token each, the hard
\* one within what the window leaves beside the reserve.
LEMMA LimitBounds ==
  ASSUME NEW p, AcceptedLimits(p)
  PROVE  /\ p.window \in Nat /\ p.window > 0 /\ p.reserve \in Nat /\ p.reserve < p.window
         /\ p.cap \in Nat /\ p.snapshot \in Nat /\ p.compact \in Nat
         /\ Physical(p) \in Nat /\ 1 <= Physical(p)
         /\ Capped(p) \in Nat /\ 1 <= Capped(p)
         /\ HardAt(p) \in Nat /\ HardAt(p) <= p.window - p.reserve
         /\ Capped(p) < HardAt(p)
<1>1. /\ p.window \in Nat /\ p.window > 0 /\ p.reserve \in Nat /\ p.reserve < p.window
      /\ p.cap \in Nat /\ p.cap > 0 /\ p.snapshot \in Nat /\ p.compact \in Nat
      /\ p.handoff \in Nat /\ p.hard \in Nat
      /\ 0 < p.snapshot /\ p.snapshot < p.compact /\ p.compact < p.handoff
      /\ p.handoff < p.hard /\ p.hard <= 100
      /\ Least(p.cap, Least(Share(p.window, p.handoff), p.window - p.reserve))
           < Least(Share(p.window, p.hard), p.window - p.reserve)
  BY DEF AcceptedLimits, AsNumbers, LimitFields, RatiosIncrease
<1>2. PICK handoff, hard \in Nat :
        /\ handoff = Share(p.window, p.handoff) /\ 1 <= handoff /\ handoff <= p.window
        /\ hard = Share(p.window, p.hard) /\ 1 <= hard /\ hard <= p.window
  BY <1>1, ShareBounds
<1>3. /\ Physical(p) = Least(handoff, p.window - p.reserve)
      /\ HardAt(p) = Least(hard, p.window - p.reserve)
  BY <1>1, <1>2 DEF Physical, HardAt, Reserved, Least
<1>4. Capped(p) = Least(Physical(p), p.cap)
  BY <1>1 DEF Capped
<1> QED BY <1>1, <1>2, <1>3, <1>4 DEF Least

LEMMA ScaledIsNumber ==
  ASSUME NEW p, AcceptedLimits(p), NEW percent \in Nat
  PROVE  Scaled(p, percent) \in Nat
<1>1. PICK a \in Nat, b \in Nat :
        /\ a = p.window * percent * Capped(p) /\ b = 100 * Physical(p) /\ b > 0
  BY LimitBounds
<1>2. Scaled(p, percent) = (a + b - 1) \div b
  BY <1>1 DEF Scaled, CeilDiv
<1> QED BY <1>1, <1>2

LEMMA ThresholdTypes ==
  ASSUME NEW p, AcceptedLimits(p)
  PROVE  /\ SnapshotAt(p) \in Nat /\ 1 <= SnapshotAt(p)
         /\ CompactAt(p) \in Nat /\ SnapshotAt(p) < CompactAt(p)
         /\ HandoffAt(p) \in Nat /\ HandoffAt(p) = Greatest(CompactAt(p) + 1, Capped(p))
<1>1. /\ Scaled(p, p.snapshot) \in Nat /\ Scaled(p, p.compact) \in Nat
      /\ Capped(p) \in Nat
  BY LimitBounds, ScaledIsNumber
<1>2. SnapshotAt(p) \in Nat /\ 1 <= SnapshotAt(p)
  BY <1>1 DEF SnapshotAt, Greatest
<1>3. CompactAt(p) \in Nat /\ SnapshotAt(p) < CompactAt(p)
  BY <1>1, <1>2 DEF CompactAt, Greatest
<1> QED BY <1>1, <1>2, <1>3 DEF HandoffAt, Greatest

\* The thresholds of limits that the configuration accepts and the governor
\* computes are in the order in which their actions are meant, and the last
\* is reached before the reserve is.  (governor.py, BudgetGovernor.thresholds.)
THEOREM ThresholdsIncrease ==
  ASSUME NEW p, AcceptedLimits(p), Computable(p)
  PROVE  /\ 1 <= SnapshotAt(p) /\ SnapshotAt(p) < CompactAt(p)
         /\ CompactAt(p) < HandoffAt(p) /\ HandoffAt(p) < HardAt(p)
         /\ HardAt(p) <= p.window - p.reserve
BY LimitBounds, ThresholdTypes DEF Computable, Greatest

\* What the configuration accepts, the governor refuses for one reason only:
\* the threshold of compaction, which no reserve lowers, leaves no room for a
\* handoff below the hard limit.  The recommended handoff itself always does.
\*  (context_limits.py, validate_limits.)
THEOREM AcceptedUnlessCrowded ==
  ASSUME NEW p, AcceptedLimits(p)
  PROVE  /\ Capped(p) < HardAt(p)
         /\ Computable(p) <=> CompactAt(p) + 1 < HardAt(p)
BY LimitBounds, ThresholdTypes DEF Computable, Greatest

-----------------------------------------------------------------------------
(* What a delivery makes of the log.                                         *)

LEMMA Deliverable ==
  ASSUME NEW d \in Deliveries, LogTypes
  PROVE  /\ d.session \in Sessions /\ d.kind \in Kinds /\ d.tokens \in Nat
         /\ d.task \in Tasks \cup {None} /\ BranchFor(d) \in Branches
         /\ TaskFor(d) \in Tasks \cup {None}
<1>1. /\ d.session \in Sessions /\ d.kind \in Kinds /\ d.tokens \in Nat
      /\ d.task \in Tasks \cup {None}
  BY DeliveriesAssumption
<1> QED BY <1>1 DEF BranchFor, TaskFor, Branches, LogTypes

LEMMA RowsOfDelivery ==
  ASSUME NEW d \in Deliveries, LogTypes
  PROVE  /\ HostRows(d) \in Seq(LogRow) /\ Len(HostRows(d)) \in Nat /\ Len(HostRows(d)) >= 1
         /\ \A i \in 1..Len(HostRows(d)) : /\ HostRows(d)[i].session = d.session
                                           /\ HostRows(d)[i].origin # "derived"
         /\ d.task # None => Row(d.task, None, "untrusted") \in LogRow
         /\ Len(HostRows(d)) = SizeOf(d.kind)
<1>1. \A o \in {"user", "untrusted", "assistant"} :
        /\ Row(BranchFor(d), d.session, o) \in LogRow
        /\ Row(BranchFor(d), d.session, o).session = d.session
        /\ Row(BranchFor(d), d.session, o).origin # "derived"
  BY Deliverable DEF Row, LogRow
<1>2. d.task # None => Row(d.task, None, "untrusted") \in LogRow
  BY Deliverable DEF Row, LogRow, Branches
<1> DEFINE row(o) == Row(BranchFor(d), d.session, o)
<1>3. \/ HostRows(d) = <<row("user")>>
      \/ HostRows(d) = <<row("untrusted"), row("untrusted")>>
      \/ HostRows(d) = <<row("assistant")>>
      \/ HostRows(d) = <<row("untrusted")>>
  BY DEF HostRows
<1>4. \A o \in {"user", "untrusted", "assistant"} :
        row(o) \in LogRow /\ row(o).session = d.session /\ row(o).origin # "derived"
  BY <1>1
<1>5. ASSUME NEW x \in LogRow, x.session = d.session, x.origin # "derived",
             HostRows(d) = <<x>> \/ HostRows(d) = <<x, x>>
      PROVE  /\ HostRows(d) \in Seq(LogRow) /\ Len(HostRows(d)) \in Nat /\ Len(HostRows(d)) >= 1
             /\ \A i \in 1..Len(HostRows(d)) : /\ HostRows(d)[i].session = d.session
                                               /\ HostRows(d)[i].origin # "derived"
  <2>1. /\ <<x>> \in Seq(LogRow) /\ Len(<<x>>) = 1 /\ <<x>>[1] = x
        /\ <<x, x>> \in Seq(LogRow) /\ Len(<<x, x>>) = 2 /\ <<x, x>>[1] = x /\ <<x, x>>[2] = x
    OBVIOUS
  <2>2. CASE HostRows(d) = <<x>>
    BY <1>5, <2>1, <2>2
  <2>3. CASE HostRows(d) = <<x, x>>
    BY <1>5, <2>1, <2>3
  <2> QED BY <1>5, <2>2, <2>3
<1>6. Len(HostRows(d)) = SizeOf(d.kind)
  BY Deliverable DEF HostRows, SizeOf, Kinds
<1> HIDE DEF row
<1> QED BY <1>2, <1>3, <1>4, <1>5, <1>6

\* The log with some rows more.
LEMMA Longer ==
  ASSUME NEW S, NEW s \in Seq(S), NEW t \in Seq(S)
  PROVE  /\ s \o t \in Seq(S) /\ Len(s) \in Nat /\ Len(t) \in Nat
         /\ Len(s \o t) = Len(s) + Len(t)
         /\ DOMAIN s = 1..Len(s) /\ DOMAIN (s \o t) = 1..(Len(s) + Len(t))
         /\ \A i \in 1..Len(s) : (s \o t)[i] = s[i]
         /\ \A i \in 1..(Len(s) + Len(t)) : i > Len(s) =>
              (s \o t)[i] = t[i - Len(s)] /\ i - Len(s) \in 1..Len(t)
  BY ConcatProperties, LenProperties

\* A log that grew: by k native events of a session after the first m, and for
\* the rest by what something derived, or what belongs to no session.
HostRow(row, s) == row.session = s /\ row.origin # "derived"
AsideRow(row) == row.session = None \/ row.origin = "derived"
Grown(old, new, m, k, s) ==
  /\ new \in Seq(LogRow) /\ m \in Nat /\ k \in Nat
  /\ Len(old) <= m /\ m + k <= Len(new)
  /\ \A n \in 1..Len(old) : new[n] = old[n]
  /\ \A n \in 1..Len(new) : n > Len(old) =>
       IF m < n /\ n <= m + k THEN HostRow(new[n], s) ELSE AsideRow(new[n])
AsideRows(rows) == rows \in Seq(LogRow) /\ \A i \in 1..Len(rows) : AsideRow(rows[i])

LEMMA GrownByNothing ==
  ASSUME NEW old \in Seq(LogRow), NEW s
  PROVE  Grown(old, old, Len(old), 0, s)
BY LenProperties DEF Grown

LEMMA GrownByAsides ==
  ASSUME NEW old \in Seq(LogRow), NEW new, NEW m, NEW k, NEW s, Grown(old, new, m, k, s),
         NEW rows, AsideRows(rows)
  PROVE  Grown(old, new \o rows, m, k, s) /\ Len(new) <= Len(new \o rows)
<1>1. /\ new \in Seq(LogRow) /\ rows \in Seq(LogRow) /\ m \in Nat /\ k \in Nat
      /\ Len(old) \in Nat /\ Len(old) <= m /\ m + k <= Len(new)
  BY LenProperties DEF Grown, AsideRows
<1>2. /\ new \o rows \in Seq(LogRow) /\ Len(new) \in Nat /\ Len(rows) \in Nat
      /\ Len(new \o rows) = Len(new) + Len(rows)
      /\ \A i \in 1..Len(new) : (new \o rows)[i] = new[i]
      /\ \A i \in 1..(Len(new) + Len(rows)) : i > Len(new) =>
           (new \o rows)[i] = rows[i - Len(new)] /\ i - Len(new) \in 1..Len(rows)
  BY <1>1, Longer
<1>3. ASSUME NEW n \in 1..Len(old) PROVE (new \o rows)[n] = old[n]
  BY <1>1, <1>2 DEF Grown
<1>4. ASSUME NEW n \in 1..Len(new \o rows), n > Len(old)
      PROVE  IF m < n /\ n <= m + k THEN HostRow((new \o rows)[n], s)
             ELSE AsideRow((new \o rows)[n])
  <2>1. CASE n <= Len(new)
    <3>1. n \in 1..Len(new) /\ (new \o rows)[n] = new[n]
      BY <1>2, <2>1
    <3> QED BY <1>4, <3>1 DEF Grown
  <2>2. CASE n > Len(new)
    <3>1. n \in 1..(Len(new) + Len(rows))
      BY <1>2
    <3>2. (new \o rows)[n] = rows[n - Len(new)] /\ n - Len(new) \in 1..Len(rows)
      BY <1>2, <2>2, <3>1
    <3>3. AsideRow((new \o rows)[n])
      BY <3>2 DEF AsideRows
    <3>4. ~(n <= m + k)
      BY <1>1, <1>2, <2>2
    <3> QED BY <3>3, <3>4
  <2> QED BY <1>2, <2>1, <2>2
<1>5. m + k <= Len(new \o rows) /\ Len(new) <= Len(new \o rows)
  BY <1>1, <1>2
<1> QED BY <1>1, <1>2, <1>3, <1>4, <1>5 DEF Grown

LEMMA GrownByHost ==
  ASSUME NEW old \in Seq(LogRow), NEW new, NEW s, Grown(old, new, Len(old), 0, s),
         NEW rows \in Seq(LogRow), \A i \in 1..Len(rows) : HostRow(rows[i], s)
  PROVE  Grown(old, new \o rows, Len(new), Len(rows), s)
<1>1. /\ new \in Seq(LogRow) /\ Len(old) \in Nat /\ Len(old) <= Len(new)
  BY LenProperties DEF Grown
<1>2. /\ new \o rows \in Seq(LogRow) /\ Len(new) \in Nat /\ Len(rows) \in Nat
      /\ Len(new \o rows) = Len(new) + Len(rows)
      /\ \A i \in 1..Len(new) : (new \o rows)[i] = new[i]
      /\ \A i \in 1..(Len(new) + Len(rows)) : i > Len(new) =>
           (new \o rows)[i] = rows[i - Len(new)] /\ i - Len(new) \in 1..Len(rows)
  BY <1>1, Longer
<1>3. ASSUME NEW n \in 1..Len(old) PROVE (new \o rows)[n] = old[n]
  BY <1>1, <1>2 DEF Grown
<1>4. ASSUME NEW n \in 1..Len(new \o rows), n > Len(old)
      PROVE  IF Len(new) < n /\ n <= Len(new) + Len(rows) THEN HostRow((new \o rows)[n], s)
             ELSE AsideRow((new \o rows)[n])
  <2>1. CASE n <= Len(new)
    <3>1. n \in 1..Len(new) /\ (new \o rows)[n] = new[n]
      BY <1>2, <2>1
    <3>2. ~(Len(old) < n /\ n <= Len(old) + 0)
      BY <1>1, <1>4
    <3>3. AsideRow(new[n])
      BY <1>4, <3>1, <3>2 DEF Grown
    <3> QED BY <1>2, <2>1, <3>1, <3>3
  <2>2. CASE n > Len(new)
    <3>1. n \in 1..(Len(new) + Len(rows))
      BY <1>2
    <3>2. (new \o rows)[n] = rows[n - Len(new)] /\ n - Len(new) \in 1..Len(rows)
      BY <1>2, <2>2, <3>1
    <3> QED BY <1>2, <2>2, <3>1, <3>2
  <2> QED BY <1>2, <2>1, <2>2
<1> QED BY <1>1, <1>2, <1>3, <1>4 DEF Grown

LEMMA DerivedIsAside ==
  ASSUME NEW b \in Branches, NEW s \in Sessions \cup {None}
  PROVE  DerivedRow(b, s) \in LogRow /\ AsideRow(DerivedRow(b, s))
BY DEF DerivedRow, Row, LogRow, AsideRow

LEMMA SummariesAreAside ==
  ASSUME NEW b \in Branches, NEW events, NEW known, NEW covered, NEW seen
  PROVE  AsideRows(SummaryRows(b, events, known, covered, seen))
<1> DEFINE row == DerivedRow(b, CommonSession(events, covered))
<1>1. CommonSession(events, covered) \in Sessions \cup {None}
  BY DEF CommonSession
<1>2. row \in LogRow /\ AsideRow(row)
  BY <1>1, DerivedIsAside
<1>3. \/ SummaryRows(b, events, known, covered, seen) = <<>>
      \/ SummaryRows(b, events, known, covered, seen) = <<row, row>>
  BY DEF SummaryRows
<1> HIDE DEF row
<1>4. AsideRows(<<>>) /\ AsideRows(<<row, row>>)
  <2>1. /\ <<row, row>> \in Seq(LogRow) /\ Len(<<row, row>>) = 2
        /\ <<row, row>>[1] = row /\ <<row, row>>[2] = row
    BY <1>2
  <2>2. \A i \in 1..2 : AsideRow(<<row, row>>[i])
    BY <1>2, <2>1
  <2> QED BY <2>1, <2>2, EmptySeq DEF AsideRows
<1> QED BY <1>3, <1>4

LEMMA AsidesAreAside ==
  ASSUME NEW d \in Deliveries, LogTypes, NEW aside \in Asides(d)
  PROVE  AsideRows(aside)
<1>1. PICK rows, n :
        /\ rows = Beside(d) /\ n \in 0..MaxAsides
        /\ aside \in [1..n -> rows]
  BY DEF Asides
<1>2. d.session \in Sessions /\ BranchFor(d) \in Branches
  BY Deliverable
<1>3. ASSUME NEW row \in rows PROVE row \in LogRow /\ AsideRow(row)
  <2>1. PICK b \in Branches, s \in Sessions \cup {None} : row = DerivedRow(b, s)
    BY <1>1, <1>2, <1>3 DEF Beside
  <2> QED BY <2>1, DerivedIsAside
<1>4. n \in Nat /\ aside \in Seq(LogRow) /\ Len(aside) = n /\ DOMAIN aside = 1..n
  <2>1. n \in Nat /\ aside \in [1..n -> LogRow]
    BY <1>1, <1>3, SizesAssumption
  <2>2. aside \in Seq(LogRow)
    BY <2>1, SeqDef
  <2> QED BY <2>1, <2>2, LenProperties
<1>5. \A i \in 1..n : AsideRow(aside[i])
  BY <1>1, <1>3
<1> QED BY <1>4, <1>5 DEF AsideRows

\* Native events of a delivery: none, when it was captured before.
NativeOf(d) == IF Repeated(d) THEN 0 ELSE SizeOf(d.kind)

LEMMA LogPrepared ==
  ASSUME NEW d \in Deliveries, LogTypes
  PROVE  Grown(log, Prepared(d), Len(log), 0, d.session)
<1> DEFINE r == Row(d.task, None, "untrusted")
<1>1. Grown(log, log, Len(log), 0, d.session) /\ log \in Seq(LogRow)
  BY GrownByNothing DEF LogTypes
<1>2. Grown(log, Resolved(d), Len(log), 0, d.session)
  <2>1. CASE StartsTask(d)
    <3>1. r \in LogRow /\ AsideRow(r)
      BY <2>1, RowsOfDelivery DEF StartsTask, Row, AsideRow
    <3>2. Resolved(d) = Append(log, r)
      BY <2>1 DEF Resolved
    <3> HIDE DEF r
    <3>3. AsideRows(<<r>>)
      BY <3>1 DEF AsideRows
    <3>4. Resolved(d) = log \o <<r>>
      BY <1>1, <3>1, <3>2
    <3> QED BY <1>1, <3>3, <3>4, GrownByAsides
  <2>2. CASE ~StartsTask(d)
    BY <1>1, <2>2 DEF Resolved
  <2> QED BY <2>1, <2>2
<1>3. PICK rows : /\ AsideRows(rows)
                  /\ Prepared(d) = Resolved(d) \o rows
  BY Deliverable, SummariesAreAside DEF Prepared
<1>4. PICK old, new, m, s : /\ old = log /\ new = Resolved(d) /\ m = Len(log) /\ s = d.session
  OBVIOUS
<1> QED BY <1>1, <1>2, <1>3, <1>4, GrownByAsides

LEMMA LogOfDelivery ==
  ASSUME NEW d \in Deliveries, LogTypes
  PROVE  /\ \E m : Grown(log, Captured(d), m, NativeOf(d), d.session)
         /\ Captured(d) \in Seq(LogRow) /\ Len(Captured(d)) \in Nat
         /\ Len(Captured(d)) >= Len(log)
         /\ ~Repeated(d) => Len(Captured(d)) > Len(log)
<1>1. Grown(log, Prepared(d), Len(log), 0, d.session) /\ log \in Seq(LogRow)
  BY LogPrepared DEF LogTypes
<1>2. PICK old, new, s : old = log /\ new = Prepared(d) /\ s = d.session
  OBVIOUS
<1>3. CASE Repeated(d)
  <2>1. Captured(d) = Prepared(d) /\ NativeOf(d) = 0
    BY <1>3 DEF Captured, NativeOf
  <2> QED BY <1>1, <1>3, <2>1, LenProperties DEF Grown
<1>4. CASE ~Repeated(d)
  <2>1. PICK rows \in Seq(LogRow) :
          /\ rows = HostRows(d) /\ Len(rows) = SizeOf(d.kind) /\ Len(rows) \in Nat /\ Len(rows) >= 1
          /\ \A i \in 1..Len(rows) : HostRow(rows[i], s)
    BY <1>2, RowsOfDelivery DEF HostRow
  <2>2. Captured(d) = new \o rows /\ NativeOf(d) = Len(rows)
    BY <1>2, <1>4, <2>1 DEF Captured, NativeOf
  <2>3. Grown(old, new \o rows, Len(new), Len(rows), s)
    BY <1>1, <1>2, <2>1, GrownByHost
  <2>4. /\ new \o rows \in Seq(LogRow) /\ Len(new) \in Nat /\ Len(old) \in Nat
        /\ Len(old) <= Len(new) /\ Len(new) + Len(rows) <= Len(new \o rows)
        /\ Len(new \o rows) \in Nat
    BY <1>1, <1>2, <2>3, LenProperties DEF Grown
  <2> QED BY <1>2, <1>4, <2>1, <2>2, <2>3, <2>4
<1> QED BY <1>3, <1>4

LEMMA SourceOfDelivery ==
  ASSUME NEW d \in Deliveries, LogTypes, ReceiptTypes
  PROVE  /\ Source(d) \in 1..Len(Captured(d)) /\ Source(d) \in SourceEvents(d)
         /\ Repeated(d) => Source(d) = receipts[Receipt(d)] /\ Source(d) <= Len(log)
         /\ ~Repeated(d) => Source(d) = Len(Captured(d)) /\ Source(d) > Len(log)
<1>1. /\ Len(Captured(d)) \in Nat /\ Len(Captured(d)) >= Len(log) /\ Len(log) \in Nat
      /\ ~Repeated(d) => Len(Captured(d)) > Len(log)
  BY LogOfDelivery DEF LogTypes
<1>2. CASE Repeated(d)
  <2>1. Source(d) = receipts[Receipt(d)] /\ receipts[Receipt(d)] \in 1..Len(log)
    BY <1>2 DEF Source, Repeated, ReceiptTypes
  <2> QED BY <1>1, <1>2, <2>1, RowsOfDelivery DEF SourceEvents
<1>3. CASE ~Repeated(d)
  <2>1. Source(d) = Len(Captured(d))
    BY <1>3 DEF Source
  <2> QED BY <1>1, <1>3, <2>1, RowsOfDelivery DEF SourceEvents
<1> QED BY <1>2, <1>3

LEMMA ReceiptsStep ==
  ASSUME NEW d \in Deliveries, LogTypes, ReceiptTypes, Len(log') \in Nat,
         Len(Captured(d)) <= Len(log'), receipts' = ReceiptsAfter(d)
  PROVE  /\ ReceiptTypes' /\ Receipt(d) \in DOMAIN receipts' /\ receipts'[Receipt(d)] = Source(d)
         /\ DOMAIN receipts' = DOMAIN receipts \cup {Receipt(d)}
         /\ \A r \in DOMAIN receipts : receipts'[r] = receipts[r]
<1>1. /\ Source(d) \in 1..Len(Captured(d))
      /\ Repeated(d) => Source(d) = receipts[Receipt(d)] /\ Source(d) <= Len(log)
      /\ ~Repeated(d) => Source(d) = Len(Captured(d)) /\ Source(d) > Len(log)
  BY SourceOfDelivery
<1>2. Len(Captured(d)) \in Nat /\ Len(Captured(d)) >= Len(log) /\ Len(log) \in Nat
  BY LogOfDelivery DEF LogTypes
<1>3. /\ DOMAIN receipts' = DOMAIN receipts \cup {Receipt(d)}
      /\ receipts'[Receipt(d)] = Source(d)
      /\ receipts' = [r \in DOMAIN receipts' |-> receipts'[r]]
      /\ \A r \in DOMAIN receipts : receipts'[r] = receipts[r]
  BY <1>1 DEF Repeated, ReceiptsAfter
<1>4. \A r \in DOMAIN receipts : receipts[r] \in 1..Len(log)
  BY DEF ReceiptTypes
<1>5. receipts' \in [DOMAIN receipts' -> 1..Len(log')]
  BY <1>1, <1>2, <1>3, <1>4
<1>6. \A r, q \in DOMAIN receipts' : receipts'[r] = receipts'[q] => r = q
  <2>1. CASE Repeated(d)
    BY <1>3, <2>1 DEF Repeated, ReceiptTypes
  <2>2. CASE ~Repeated(d)
    <3>1. \A r \in DOMAIN receipts : receipts[r] # Source(d)
      BY <1>1, <1>2, <1>4, <2>2
    <3> QED BY <1>3, <3>1 DEF ReceiptTypes
  <2> QED BY <2>1, <2>2
<1> QED BY <1>3, <1>5, <1>6 DEF ReceiptTypes

-----------------------------------------------------------------------------
(* What is derived from a delivery.                                          *)

\* The rows of one kind that a captured delivery has.
Right(d, k, count) ==
  IF k = "failure" /\ k \in Wanted(d) /\ d.secret THEN count >= 1
  ELSE count = IF k \in Wanted(d) \cup {"consolidated"} THEN 1 ELSE 0

LEMMA OnceMeansRight ==
  DerivedRowsOnce <=>
    \A d \in Deliveries : Repeated(d) =>
      \A k \in DerivedKinds : Right(d, k, derived[k][receipts[Receipt(d)]])
BY DEF DerivedRowsOnce, Right

LEMMA DerivedStep ==
  ASSUME NEW d \in Deliveries, LogTypes, ReceiptTypes, DerivedTypes, NothingElse, DerivedRowsOnce,
         Len(log') \in Nat, Len(Captured(d)) <= Len(log'), Len(Captured(d)) <= MaxEvents,
         receipts' = ReceiptsAfter(d),
         NEW compacts, NEW seen, derived' = DerivedAfter(d, compacts, seen)
  PROVE  DerivedTypes' /\ NothingElse' /\ DerivedRowsOnce'
<1> DEFINE n == Source(d)
           own == DerivedKinds \ {"consolidated"}
           events == ToConsolidate(d, compacts, seen)
<1>1. /\ n \in Numbers /\ n \in events
      /\ Repeated(d) => n = receipts[Receipt(d)]
      /\ ~Repeated(d) => n > Len(log)
  <2>1. n \in 1..Len(Captured(d)) /\ Len(Captured(d)) \in Nat
    BY SourceOfDelivery, LogOfDelivery
  <2> QED BY <2>1, SourceOfDelivery, BoundsPositive DEF Numbers, ToConsolidate
<1>2. /\ ReceiptTypes' /\ DOMAIN receipts' = DOMAIN receipts \cup {Receipt(d)}
      /\ receipts'[Receipt(d)] = n
      /\ \A r \in DOMAIN receipts : receipts'[r] = receipts[r]
  BY ReceiptsStep
<1>3. /\ \A r \in DOMAIN receipts : receipts[r] \in Numbers
      /\ ~Repeated(d) => \A r \in DOMAIN receipts : receipts[r] # n
  BY <1>1, BoundsPositive DEF ReceiptTypes, LogTypes, Numbers
<1>4. /\ \A k \in DerivedKinds : derived[k] \in [Numbers -> Nat]
      /\ \A k \in DerivedKinds \ {"failure"}, m \in Numbers : derived[k][m] \in {0, 1}
  BY DEF DerivedTypes
<1>5. /\ DOMAIN derived' = DerivedKinds /\ derived' = [k \in DerivedKinds |-> derived'[k]]
      /\ derived'["consolidated"] = Consolidated(events)
      /\ \A k \in own : derived'[k] =
           [derived[k] EXCEPT ![n] = IF k \in Wanted(d) THEN RowsOf(d, k, @) ELSE @]
  BY DEF DerivedAfter, DerivedKinds
<1> HIDE DEF n, events
<1>6. /\ derived'["consolidated"] \in [Numbers -> {0, 1}]
      /\ derived'["consolidated"][n] = 1
      /\ \A m \in Numbers : derived["consolidated"][m] = 1 => derived'["consolidated"][m] = 1
  <2>1. \A m \in Numbers : derived["consolidated"][m] \in {0, 1}
    BY <1>4 DEF DerivedKinds
  <2> QED BY <1>1, <1>5, <2>1 DEF Consolidated, OneRow
<1>7. ASSUME NEW k \in own
      PROVE  /\ derived'[k] \in [Numbers -> Nat]
             /\ k # "failure" => derived'[k] \in [Numbers -> {0, 1}]
             /\ derived'[k][n] =
                  IF k \in Wanted(d) THEN RowsOf(d, k, derived[k][n]) ELSE derived[k][n]
             /\ \A m \in Numbers : m # n => derived'[k][m] = derived[k][m]
  <2>1. derived[k] \in [Numbers -> Nat]
    BY <1>4
  <2>2. derived'[k] = [derived[k] EXCEPT ![n] = IF k \in Wanted(d) THEN RowsOf(d, k, @) ELSE @]
    BY <1>5
  <2>3. /\ \A c \in Nat : RowsOf(d, k, c) \in Nat
        /\ k # "failure" => \A c \in {0, 1} : RowsOf(d, k, c) \in {0, 1}
    BY DEF RowsOf, OneRow
  <2>4. k # "failure" => derived[k] \in [Numbers -> {0, 1}]
    BY <1>4, <2>1
  <2>5. PICK f, c : f = derived[k] /\ c = IF k \in Wanted(d) THEN RowsOf(d, k, f[n]) ELSE f[n]
    OBVIOUS
  <2>6. derived'[k] = [f EXCEPT ![n] = c]
    BY <2>2, <2>5
  <2>7. f \in [Numbers -> Nat] /\ c \in Nat
    BY <1>1, <2>1, <2>3, <2>5
  <2>8. k # "failure" => f \in [Numbers -> {0, 1}] /\ c \in {0, 1}
    BY <1>1, <2>3, <2>4, <2>5
  <2>9. derived'[k] \in [Numbers -> Nat]
    BY <2>6, <2>7
  <2>10. k # "failure" => derived'[k] \in [Numbers -> {0, 1}]
    BY <2>6, <2>8
  <2>11. derived'[k][n] = c /\ \A m \in Numbers : m # n => derived'[k][m] = f[m]
    BY <1>1, <2>6, <2>7
  <2> QED BY <2>5, <2>9, <2>10, <2>11
<1>8. DerivedTypes'
  <2>1. \A k \in DerivedKinds : derived'[k] \in [Numbers -> Nat]
    BY <1>6, <1>7
  <2>2. \A k \in DerivedKinds \ {"failure"} : derived'[k] \in [Numbers -> {0, 1}]
    BY <1>6, <1>7
  <2> QED BY <1>5, <2>1, <2>2 DEF DerivedTypes
<1>9. NothingElse'
  <2> SUFFICES ASSUME NEW k \in own, NEW m \in Numbers, \A r \in DOMAIN receipts' : receipts'[r] # m
               PROVE  derived'[k][m] = 0
    BY DEF NothingElse
  <2>1. m # n /\ \A r \in DOMAIN receipts : receipts[r] # m
    BY <1>2
  <2> QED BY <1>7, <2>1 DEF NothingElse
<1>10. DerivedRowsOnce'
  <2> SUFFICES ASSUME NEW e \in Deliveries, Receipt(e) \in DOMAIN receipts', NEW k \in DerivedKinds
               PROVE  Right(e, k, derived'[k][receipts'[Receipt(e)]])
    BY DEF DerivedRowsOnce, Right, Repeated, Receipt, Wanted, Finalized, Reduced, FailureDerived,
           UsageReported
  <2>1. CASE e = d
    <3>1. CASE k = "consolidated"
      BY <1>2, <1>6, <2>1, <3>1 DEF Right
    <3>2. CASE k \in own
      <4> DEFINE c == derived[k][n]
      <4>1. c \in Nat /\ k # "consolidated"
        BY <1>1, <1>4, <3>2
      <4>2. Repeated(d) => Right(d, k, c)
        BY <1>1, OnceMeansRight
      <4>3. ~Repeated(d) => c = 0
        BY <1>1, <1>3, <3>2 DEF NothingElse
      <4>4. derived'[k][n] = IF k \in Wanted(d) THEN RowsOf(d, k, c) ELSE c
        BY <1>7, <3>2
      <4> HIDE DEF c
      <4>5. Right(d, k, IF k \in Wanted(d) THEN RowsOf(d, k, c) ELSE c)
        BY <4>1, <4>2, <4>3 DEF Right, RowsOf, OneRow
      <4> QED BY <1>2, <2>1, <4>4, <4>5
    <3> QED BY <3>1, <3>2
  <2>2. CASE e # d
    <3>1. Receipt(e) # Receipt(d)
      BY <2>2, ReceiptsIdentify
    <3> DEFINE m == receipts[Receipt(e)]
    <3>2. Repeated(e) /\ receipts'[Receipt(e)] = m /\ m # n /\ m \in Numbers
      BY <1>2, <1>3, <3>1 DEF ReceiptTypes, Repeated
    <3>3. Right(e, k, derived[k][m])
      BY <3>2, OnceMeansRight
    <3> HIDE DEF m
    <3>4. CASE k = "consolidated"
      <4>1. derived[k][m] = 1
        BY <3>3, <3>4 DEF Right
      <4>2. derived'[k][m] = 1
        BY <1>6, <3>2, <3>4, <4>1
      <4> QED BY <3>2, <3>4, <4>2 DEF Right
    <3>5. CASE k \in own
      BY <1>7, <3>2, <3>3, <3>5
    <3> QED BY <3>4, <3>5
  <2> QED BY <2>1, <2>2
<1> QED BY <1>8, <1>9, <1>10

-----------------------------------------------------------------------------
(* Counters: a session's context is the total of its newest row.             *)

CounterTypes ==
  /\ counters \in Seq(CounterRow)
  /\ \A i, j \in DOMAIN counters : counters[i].receipt = counters[j].receipt => i = j
  /\ \A d \in Deliveries : Repeated(d) /\ d.kind \in Counted => HasCounter(d)

\* A non-empty set of numbers up to a bound has a greatest element.
LEMMA MaxExists ==
  ASSUME NEW k \in Nat, NEW T \in SUBSET (0..k), T # {}
  PROVE  \E x \in T : \A y \in T : y <= x
<1> DEFINE Above(x) == {y \in 0..k : x < y}
           A == {Above(x) : x \in T}
           R == StrictSubsetOrdering(0..k)
<1>1. IsFiniteSet(0..k)
  BY FS_Interval
<1>2. IsWellFoundedOn(R, SUBSET (0..k))
  BY <1>1, FS_StrictSubsetOrderingWellFounded, FS_FiniteSubsetsOfFinite, Zenon
<1>3. A \subseteq SUBSET (0..k) /\ A # {}
  OBVIOUS
<1>4. \E a \in A : \A b \in A : ~(<<b, a>> \in R)
  <2> HIDE DEF A, R
  <2> QED BY <1>2, <1>3, WFMin, Zenon
<1>5. PICK x \in T : \A y \in T : ~(<<Above(y), Above(x)>> \in R)
  BY <1>4
<1>6. ASSUME NEW y \in T, ~(y <= x) PROVE FALSE
  <2>1. Above(y) \subseteq Above(x)
    BY <1>6
  <2>2. y \in Above(x) /\ y \notin Above(y)
    BY <1>6
  <2>3. <<Above(y), Above(x)>> \in R
    <3>1. Above(y) # Above(x)
      BY <2>2
    <3> HIDE DEF Above
    <3>2. Above(y) \in SUBSET (0..k) /\ Above(x) \in SUBSET (0..k)
      BY DEF Above
    <3> QED BY <3>1, <3>2, <2>1 DEF StrictSubsetOrdering
  <2> QED BY <2>3, <1>5
<1> QED BY <1>6

LEMMA TotalIsNumber ==
  ASSUME NEW rows \in Seq(CounterRow), NEW s
  PROVE  Total(rows, s) \in Nat
<1> DEFINE mine == {i \in DOMAIN rows : rows[i].session = s}
<1>1. CASE mine = {}
  BY <1>1 DEF Total
<1>2. CASE mine # {}
  <2>1. mine \in SUBSET (0..Len(rows)) /\ Len(rows) \in Nat
    BY LenProperties
  <2>2. \E i \in mine : \A j \in mine : j <= i
    <3> HIDE DEF mine
    <3> QED BY <1>2, <2>1, MaxExists
  <2>3. PICK i : i = CHOOSE k \in mine : \A j \in mine : j <= k
    OBVIOUS
  <2>4. i \in mine
    <3> HIDE DEF mine
    <3> QED BY <2>2, <2>3
  <2>5. Total(rows, s) = rows[i].total
    BY <1>2, <2>3 DEF Total
  <2>6. rows[i] \in CounterRow
    BY <2>4, ElementOfSeq, LenProperties
  <2> QED BY <2>5, <2>6 DEF CounterRow
<1> QED BY <1>1, <1>2

LEMMA TotalAfter ==
  ASSUME NEW rows \in Seq(CounterRow), NEW r \in CounterRow, NEW s
  PROVE  Total(Append(rows, r), s) = IF r.session = s THEN r.total ELSE Total(rows, s)
<1> DEFINE after == Append(rows, r)
           n == Len(rows) + 1
           mine == {i \in DOMAIN rows : rows[i].session = s}
           now == {i \in DOMAIN after : after[i].session = s}
<1>1. /\ Len(rows) \in Nat /\ DOMAIN rows = 1..Len(rows) /\ DOMAIN after = 1..n
      /\ \A i \in 1..Len(rows) : after[i] = rows[i]
      /\ after[n] = r
  BY AppendProperties, LenProperties
<1>2. CASE r.session = s
  <2>1. n \in now /\ \A j \in now : j <= n
    BY <1>1, <1>2
  <2>2. \A i \in now : (\A j \in now : j <= i) => i = n
    BY <1>1, <2>1
  <2>3. n = CHOOSE i \in now : \A j \in now : j <= i
    <3> HIDE DEF now, n
    <3> QED BY <2>1, <2>2
  <2>4. Total(after, s) = after[n].total
    <3> HIDE DEF after, n
    <3>1. now # {}
      BY <2>1
    <3> QED BY <2>3, <3>1 DEF Total
  <2> QED BY <1>1, <1>2, <2>4
<1>3. CASE r.session # s
  <2>1. now = mine
    BY <1>1, <1>3
  <2>2. CASE mine = {}
    BY <1>3, <2>1, <2>2 DEF Total
  <2>3. CASE mine # {}
    <3>1. PICK i : i = CHOOSE k \in mine : \A j \in mine : j <= k
      OBVIOUS
    <3>2. mine \in SUBSET (0..Len(rows))
      BY <1>1
    <3>3. i \in mine
      <4>1. \E k \in mine : \A j \in mine : j <= k
        <5> HIDE DEF mine
        <5> QED BY <1>1, <2>3, <3>2, MaxExists
      <4> HIDE DEF mine
      <4> QED BY <3>1, <4>1
    <3>4. Total(rows, s) = rows[i].total
      BY <2>3, <3>1 DEF Total
    <3>5. Total(after, s) = after[i].total
      <4>1. i = CHOOSE k \in now : \A j \in now : j <= k
        <5> HIDE DEF now, mine
        <5> QED BY <2>1, <3>1
      <4> HIDE DEF after
      <4> QED BY <2>1, <2>3, <4>1 DEF Total
    <3> QED BY <1>1, <1>3, <3>3, <3>4, <3>5
  <2> QED BY <2>2, <2>3
<1> QED BY <1>2, <1>3

LEMMA CountersStep ==
  ASSUME NEW d \in Deliveries, LogTypes, CounterTypes, counters' = CountersAfter(d),
         DOMAIN receipts' = DOMAIN receipts \cup {Receipt(d)}
  PROVE  /\ CounterTypes'
         /\ \A i \in DOMAIN counters : i \in DOMAIN counters' /\ counters'[i] = counters[i]
         /\ d.kind \in Counted =>
              \E i \in DOMAIN counters' : /\ counters'[i].receipt = Receipt(d)
                                          /\ Cumulative(d) = counters'[i].total
         /\ \A s \in Sessions : /\ Total(counters, s) \in Nat
                                /\ Total(counters, s)' >= Total(counters, s)
                                /\ s # d.session \/ Repeated(d) =>
                                     Total(counters, s)' = Total(counters, s)
<1> DEFINE r == [receipt |-> Receipt(d), session |-> d.session,
                 total |-> Total(counters, d.session) + d.tokens]
           n == Len(counters) + 1
<1>0. counters \in Seq(CounterRow) /\ \A s : Total(counters, s) \in Nat
  BY TotalIsNumber DEF CounterTypes
<1>1. /\ r \in CounterRow /\ r.receipt = Receipt(d) /\ r.session = d.session
      /\ r.total \in Nat /\ r.total >= Total(counters, d.session)
  <2>1. d.tokens \in Nat /\ d.session \in Sessions
    BY Deliverable
  <2>2. Total(counters, d.session) \in Nat
    BY <1>0
  <2>3. PICK t \in Nat : t = Total(counters, d.session) + d.tokens /\ t >= Total(counters, d.session)
    BY <2>1, <2>2
  <2> QED BY <2>1, <2>3 DEF CounterRow
<1>a. ASSUME d.kind \in Counted, NEW k \in DOMAIN counters', counters'[k].receipt = Receipt(d)
      PROVE  \E i \in DOMAIN counters' : /\ counters'[i].receipt = Receipt(d)
                                         /\ Cumulative(d) = counters'[i].total
  <2>1. PICK i : i = CHOOSE j \in DOMAIN CountersAfter(d) : CountersAfter(d)[j].receipt = Receipt(d)
    OBVIOUS
  <2>2. i \in DOMAIN counters' /\ counters'[i].receipt = Receipt(d)
    BY <1>a, <2>1
  <2> QED BY <2>1, <2>2 DEF Cumulative
<1>2. CASE counters' = counters /\ (d.kind \notin Counted \/ HasCounter(d))
  <2>1. ASSUME NEW e \in Deliveries, Receipt(e) \in DOMAIN receipts', e.kind \in Counted
        PROVE  HasCounter(e)'
    <3>1. CASE Receipt(e) = Receipt(d)
      <4>1. e = d
        BY <3>1, ReceiptsIdentify
      <4> QED BY <1>2, <2>1, <4>1 DEF HasCounter
    <3>2. CASE Receipt(e) # Receipt(d)
      BY <1>2, <2>1, <3>2 DEF HasCounter, CounterTypes, Repeated
    <3> QED BY <3>1, <3>2
  <2>2. CounterTypes'
    BY <1>2, <2>1 DEF CounterTypes, Repeated
  <2>3. d.kind \in Counted => \E k \in DOMAIN counters' : counters'[k].receipt = Receipt(d)
    BY <1>2 DEF HasCounter
  <2>4. \A s : Total(counters, s)' = Total(counters, s)
    BY <1>2 DEF Total
  <2> QED BY <1>0, <1>2, <1>a, <2>2, <2>3, <2>4
<1>3. CASE counters' = Append(counters, r) /\ d.kind \in Counted /\ ~HasCounter(d)
  <2> HIDE DEF r
  <2>0. /\ Len(counters) \in Nat /\ DOMAIN counters = 1..Len(counters) /\ DOMAIN counters' = 1..n
        /\ counters' \in Seq(CounterRow)
        /\ \A i \in 1..Len(counters) : counters'[i] = counters[i]
        /\ counters'[n] = r
    BY <1>0, <1>1, <1>3, AppendProperties, LenProperties
  <2> HIDE DEF n
  <2>1. /\ n \in DOMAIN counters' /\ counters'[n].receipt = Receipt(d)
        /\ \A i \in DOMAIN counters : i \in DOMAIN counters' /\ counters'[i] = counters[i]
        /\ \A i \in DOMAIN counters' : i \in DOMAIN counters \/ i = n
    BY <1>1, <2>0 DEF n
  <2>2. \A i \in DOMAIN counters : counters[i].receipt # Receipt(d)
    BY <1>3 DEF HasCounter
  <2>3. ASSUME NEW e \in Deliveries, Receipt(e) \in DOMAIN receipts', e.kind \in Counted
        PROVE  HasCounter(e)'
    <3>1. CASE Receipt(e) = Receipt(d)
      BY <2>1, <3>1 DEF HasCounter
    <3>2. CASE Receipt(e) # Receipt(d)
      <4>1. HasCounter(e)
        BY <2>3, <3>2 DEF CounterTypes, Repeated
      <4> QED BY <2>1, <4>1 DEF HasCounter
    <3> QED BY <3>1, <3>2
  <2>4. \A i, j \in DOMAIN counters' : counters'[i].receipt = counters'[j].receipt => i = j
    BY <2>1, <2>2 DEF CounterTypes
  <2>5. CounterTypes'
    BY <2>0, <2>3, <2>4 DEF CounterTypes, Repeated
  <2>6. ~Repeated(d)
    BY <1>3 DEF CounterTypes
  <2>7. \A s : Total(counters, s)' = IF r.session = s THEN r.total ELSE Total(counters, s)
    <3> SUFFICES ASSUME NEW CONSTANT s
                 PROVE  Total(counters, s)' = IF r.session = s THEN r.total ELSE Total(counters, s)
      OBVIOUS
    <3>1. Total(counters, s)' = Total(Append(counters, r), s)
      BY <1>3 DEF Total
    <3> QED BY <1>0, <1>1, <3>1, TotalAfter
  <2>8. \A s \in Sessions : /\ Total(counters, s) \in Nat
                            /\ Total(counters, s)' >= Total(counters, s)
                            /\ s # d.session => Total(counters, s)' = Total(counters, s)
    <3> SUFFICES ASSUME NEW CONSTANT s \in Sessions
                 PROVE  /\ Total(counters, s) \in Nat
                        /\ Total(counters, s)' >= Total(counters, s)
                        /\ s # d.session => Total(counters, s)' = Total(counters, s)
      OBVIOUS
    <3>1. CASE s = d.session
      BY <1>0, <1>1, <2>7, <3>1
    <3>2. CASE s # d.session
      BY <1>0, <1>1, <2>7, <3>2
    <3> QED BY <3>1, <3>2
  <2>9. \E i \in DOMAIN counters' : /\ counters'[i].receipt = Receipt(d)
                                    /\ Cumulative(d) = counters'[i].total
    BY <1>3, <1>a, <2>1
  <2> QED BY <2>1, <2>5, <2>6, <2>8, <2>9
<1> QED BY <1>2, <1>3 DEF CountersAfter

\* Who is counted was captured, and no row is above its session's newest.
CountersGrow ==
  /\ \A d \in Deliveries : HasCounter(d) => Repeated(d)
  /\ \A i \in DOMAIN counters :
       /\ counters[i].session = counters[i].receipt[1]
       /\ counters[i].total <= Total(counters, counters[i].session)

LEMMA CountersKept ==
  ASSUME CounterTypes, CountersGrow, UNCHANGED <<receipts, counters>>
  PROVE  CounterTypes' /\ CountersGrow'
<1>1. CounterTypes'
  BY DEF CounterTypes, HasCounter, Repeated
<1>2. \A d \in Deliveries : HasCounter(d)' => Repeated(d)'
  BY DEF CountersGrow, HasCounter, Repeated
<1>3. \A s : Total(counters, s)' = Total(counters, s)
  BY DEF Total
<1>4. \A i \in DOMAIN counters' :
        /\ counters'[i].session = counters'[i].receipt[1]
        /\ counters'[i].total <= Total(counters', counters'[i].session)
  BY DEF CountersGrow
<1> QED BY <1>1, <1>2, <1>4 DEF CountersGrow, Total

LEMMA CountersGrowStep ==
  ASSUME NEW d \in Deliveries, LogTypes, CounterTypes, CounterTypes', CountersGrow,
         counters' = CountersAfter(d),
         DOMAIN receipts' = DOMAIN receipts \cup {Receipt(d)}
  PROVE  /\ CountersGrow'
         /\ ~Repeated(d) =>
              Total(counters, d.session)' = Total(counters, d.session) + TokensOf(d)
<1> DEFINE r == [receipt |-> Receipt(d), session |-> d.session,
                 total |-> Total(counters, d.session) + d.tokens]
<1>1. /\ counters \in Seq(CounterRow) /\ \A s : Total(counters, s) \in Nat
      /\ d.tokens \in Nat /\ d.session \in Sessions
  BY TotalIsNumber, Deliverable DEF CounterTypes
<1>2. CASE counters' = counters /\ (d.kind \notin Counted \/ HasCounter(d))
  <2>1. CountersGrow'
    BY <1>2 DEF CountersGrow, HasCounter, Repeated, Total
  <2>2. ~Repeated(d) => d.kind \notin Counted
    BY <1>2 DEF CountersGrow
  <2>3. Total(counters, d.session)' = Total(counters, d.session)
    BY <1>2 DEF Total
  <2>4. ~Repeated(d) => Total(counters, d.session)' = Total(counters, d.session) + TokensOf(d)
    BY <1>1, <2>2, <2>3 DEF TokensOf
  <2> QED BY <2>1, <2>4
<1>3. CASE counters' = Append(counters, r) /\ d.kind \in Counted
  <2>1. /\ r \in CounterRow /\ r.receipt = Receipt(d) /\ r.session = d.session
        /\ r.total = Total(counters, d.session) + d.tokens
    BY <1>1 DEF CounterRow
  <2> HIDE DEF r
  <2>2. PICK n \in Nat : n = Len(counters) + 1
    BY <1>1, LenProperties
  <2>3. /\ DOMAIN counters = 1..Len(counters) /\ DOMAIN counters' = 1..n /\ counters'[n] = r
        /\ \A i \in DOMAIN counters : counters'[i] = counters[i] /\ counters[i] \in CounterRow
        /\ \A i \in DOMAIN counters' : i \in DOMAIN counters \/ i = n
    BY <1>1, <1>3, <2>1, <2>2, AppendProperties, LenProperties, ElementOfSeq
  <2>4. ASSUME NEW CONSTANT s
        PROVE  Total(counters', s) = IF s = d.session THEN r.total ELSE Total(counters, s)
    BY <1>1, <1>3, <2>1, TotalAfter
  <2>5. \A e \in Deliveries : HasCounter(e)' => Repeated(e)'
    BY <2>1, <2>3 DEF CountersGrow, HasCounter, Repeated
  <2>6. ASSUME NEW CONSTANT i \in DOMAIN counters'
        PROVE  /\ counters'[i].session = counters'[i].receipt[1]
               /\ counters'[i].total <= Total(counters', counters'[i].session)
    <3>1. CASE i = n
      <4>1. Receipt(d)[1] = d.session
        BY DEF Receipt
      <4> QED BY <1>1, <2>1, <2>3, <2>4, <3>1, <4>1
    <3>2. CASE i \in DOMAIN counters
      <4>1. PICK row : row = counters[i] /\ row \in CounterRow /\ counters'[i] = row
        BY <2>3, <3>2
      <4>2. row.session = row.receipt[1] /\ row.total <= Total(counters, row.session)
        BY <3>2, <4>1 DEF CountersGrow
      <4>3. Total(counters', row.session) >= Total(counters, row.session)
        BY <1>1, <2>1, <2>4
      <4>4. row.total \in Nat /\ Total(counters', row.session) \in Nat
        BY <4>1, TotalIsNumber DEF CounterRow, CounterTypes
      <4> QED BY <1>1, <4>1, <4>2, <4>3, <4>4
    <3> QED BY <2>3, <3>1, <3>2
  <2>7. CountersGrow'
    BY <2>5, <2>6 DEF CountersGrow, Total
  <2>8. Total(counters, d.session)' = Total(counters, d.session) + TokensOf(d)
    BY <1>3, <2>1, <2>4 DEF TokensOf, Total
  <2> QED BY <2>7, <2>8
<1> QED BY <1>2, <1>3 DEF CountersAfter

\* A delivery that warns counts no more than its session has in all.
LEMMA WarnedInTotal ==
  ASSUME NEW d \in Deliveries, LogTypes, CounterTypes', CountersGrow', Warning(d),
         \E i \in DOMAIN counters' : /\ counters'[i].receipt = Receipt(d)
                                     /\ Cumulative(d) = counters'[i].total,
         SnapshotAt(Limits[d.session]) \in Nat
  PROVE  Total(counters, d.session)' >= SnapshotAt(Limits[d.session])
<1>1. PICK i \in DOMAIN counters' : /\ counters'[i].receipt = Receipt(d)
                                    /\ Cumulative(d) = counters'[i].total
  OBVIOUS
<1>2. Cumulative(d) >= SnapshotAt(Limits[d.session])
  BY DEF Warning
<1>3. counters'[i].session = d.session
  BY <1>1 DEF CountersGrow, Receipt
<1>4. counters'[i].total <= Total(counters, d.session)'
  BY <1>3 DEF CountersGrow
<1>5. counters'[i].total \in Nat /\ Total(counters, d.session)' \in Nat
  <2>1. counters' \in Seq(CounterRow)
    BY DEF CounterTypes
  <2>2. Total(counters', d.session) \in Nat
    BY <2>1, TotalIsNumber
  <2>3. counters'[i] \in CounterRow
    BY <1>1, <2>1, ElementOfSeq, LenProperties
  <2> QED BY <2>2, <2>3 DEF CounterRow, Total
<1> QED BY <1>1, <1>2, <1>4, <1>5

-----------------------------------------------------------------------------
(* Actions: rows are only added, and none of the governor is a checkpoint.   *)

CheckpointOf(s) == <<"context-checkpoint", s, Limits[s].id>>

ActionTypes == \E S : actions \in Seq(S)

\* Rows that the governor adds.
GovernorAdds(G) == /\ \E S : G \in Seq(S)
                   /\ \A i \in DOMAIN G, s \in Sessions : G[i].receipt # CheckpointOf(s)

LEMMA OneOrNone ==
  ASSUME NEW S, NEW a \in S, NEW c
  PROVE  (IF c THEN <<a>> ELSE << >>) \in Seq(S)
<1>1. <<a>> \in Seq(S) /\ << >> \in Seq(S)
  BY EmptySeq
<1> QED BY <1>1

LEMMA AppliedIsSeq ==
  ASSUME NEW rows, NEW b, NEW s, NEW context, NEW tailDue, NEW now
  PROVE  \E S : AppliedActions(rows, b, s, context, tailDue, now) \in Seq(S)
<1> DEFINE S == {"snapshot", "compact", "handoff", "handoff_required"}
           applied(a) == IF Applies(a, rows, b, s, context, tailDue, now) THEN <<a>> ELSE <<>>
<1>1. AppliedActions(rows, b, s, context, tailDue, now) =
        applied("snapshot") \o applied("compact") \o applied("handoff") \o applied("handoff_required")
  BY DEF AppliedActions
<1>2. /\ "snapshot" \in S /\ "compact" \in S /\ "handoff" \in S /\ "handoff_required" \in S
  OBVIOUS
<1> HIDE DEF S
<1>3. /\ applied("snapshot") \in Seq(S) /\ applied("compact") \in Seq(S)
      /\ applied("handoff") \in Seq(S) /\ applied("handoff_required") \in Seq(S)
  BY <1>2, OneOrNone
<1> HIDE DEF applied
<1> QED BY <1>1, <1>3, ConcatProperties

LEMMA GovernorRowsAdd ==
  ASSUME NEW S, NEW applied \in Seq(S), NEW b, NEW s, NEW context, NEW source
  PROVE  GovernorAdds(GovernorRows(applied, b, s, context, source))
<1> DEFINE G == GovernorRows(applied, b, s, context, source)
<1>1. /\ G = [i \in 1..Len(applied) |->
                ActionRow(GovernorReceipt(b, Limits[s], applied[i], context), b, applied[i],
                          Limits[s].id, source)]
      /\ Len(applied) \in Nat
  BY LenProperties DEF GovernorRows
<1> HIDE DEF G
<1>2. G \in Seq({G[i] : i \in 1..Len(applied)})
  <2> DEFINE T == {G[i] : i \in 1..Len(applied)}
  <2>1. G \in [1..Len(applied) -> T]
    BY <1>1
  <2> HIDE DEF T
  <2> QED BY <1>1, <2>1, SeqDef
<1>3. ASSUME NEW i \in DOMAIN G, NEW t \in Sessions PROVE G[i].receipt # CheckpointOf(t)
  <2>1. G[i].receipt = GovernorReceipt(b, Limits[s], applied[i], context)
    BY <1>1 DEF ActionRow
  <2>2. 4 \in DOMAIN GovernorReceipt(b, Limits[s], applied[i], context)
    BY DEF GovernorReceipt
  <2>3. 4 \notin DOMAIN CheckpointOf(t)
    BY DEF CheckpointOf
  <2> QED BY <2>1, <2>2, <2>3, Zenon
<1> QED BY <1>2, <1>3 DEF GovernorAdds, G

\* The delivery is answered with the checkpoint it is due.
Answered(d, a) ==
  /\ answer' = [answer EXCEPT ![d] = a]
  /\ a.checkpoint <=> Warning(d) /\ ~(d.kind = "pre" /\ d.warns)
  /\ a.checkpoint \in BOOLEAN

\* The log after a delivery, with what is derived from it and beside it.
LEMMA LogDelivered ==
  ASSUME NEW d \in Deliveries, LogTypes, NEW aside \in Asides(d), NEW more, AsideRows(more),
         NEW new, new = (Derived(d) \o aside) \o more
  PROVE  /\ \E m : Grown(log, new, m, NativeOf(d), d.session)
         /\ Len(new) \in Nat /\ Len(Captured(d)) <= Len(new)
<1>1. PICK old, s, k : old = log /\ s = d.session /\ k = NativeOf(d)
  OBVIOUS
<1>2. old \in Seq(LogRow)
  BY <1>1 DEF LogTypes
<1>3. PICK m, captured : captured = Captured(d) /\ Grown(old, captured, m, k, s)
  BY <1>1, LogOfDelivery
<1>4. PICK derivedLog : /\ derivedLog = Derived(d)
                        /\ Grown(old, derivedLog, m, k, s) /\ Len(captured) <= Len(derivedLog)
  <2> DEFINE row == DerivedRow(BranchFor(d), d.session)
  <2>1. row \in LogRow /\ AsideRow(row)
    BY Deliverable, DerivedIsAside
  <2>2. Derived(d) = captured \/ Derived(d) = Append(captured, row)
    BY <1>3 DEF Derived
  <2> HIDE DEF row
  <2>3. captured \in Seq(LogRow) /\ Len(captured) \in Nat
    BY <1>3, LenProperties DEF Grown
  <2>4. AsideRows(<<row>>) /\ Append(captured, row) = captured \o <<row>>
    BY <2>1, <2>3 DEF AsideRows
  <2>5. Grown(old, captured \o <<row>>, m, k, s) /\ Len(captured) <= Len(captured \o <<row>>)
    BY <1>2, <1>3, <2>4, GrownByAsides
  <2>6. Grown(old, captured, m, k, s) /\ Len(captured) <= Len(captured)
    BY <1>3, <2>3
  <2>7. Grown(old, Derived(d), m, k, s) /\ Len(captured) <= Len(Derived(d))
    BY <2>2, <2>4, <2>5, <2>6
  <2> QED BY <2>7
<1>5. PICK events : /\ events = derivedLog \o aside
                    /\ Grown(old, events, m, k, s) /\ Len(derivedLog) <= Len(events)
  <2>1. AsideRows(aside)
    BY AsidesAreAside
  <2> QED BY <1>2, <1>4, <2>1, GrownByAsides
<1>6. Grown(old, events \o more, m, k, s) /\ Len(events) <= Len(events \o more)
  BY <1>2, <1>5, GrownByAsides
<1>7. /\ Len(captured) \in Nat /\ Len(derivedLog) \in Nat /\ Len(events) \in Nat
      /\ Len(events \o more) \in Nat
  BY <1>3, <1>4, <1>5, <1>6, LenProperties DEF Grown
<1>8. new = events \o more
  BY <1>4, <1>5
<1> QED BY <1>1, <1>3, <1>4, <1>5, <1>6, <1>7, <1>8

\* What a delivery does, without the details of the governor.
LEMMA Delivered ==
  ASSUME NEW d \in Deliveries, LogTypes, Deliver(d)
  PROVE  /\ \E m : Grown(log, log', m, NativeOf(d), d.session)
         /\ Len(log') \in Nat /\ Len(log') <= MaxEvents
         /\ Len(Captured(d)) <= Len(log') /\ Len(Captured(d)) <= MaxEvents
         /\ taskOf' = [taskOf EXCEPT ![d.session] = TaskFor(d)]
         /\ sessionBranch' = [sessionBranch EXCEPT ![d.session] = BranchFor(d)]
         /\ receipts' = ReceiptsAfter(d)
         /\ \E compacts, events : derived' = DerivedAfter(d, compacts, events)
         /\ counters' = CountersAfter(d)
         /\ \E G : GovernorAdds(G) /\ actions' = ActionsWarned(d) \o G
         /\ \E a : Answered(d, a)
<1> DEFINE Events(x) == Derived(d) \o x
           Seen(x) == SeenIn(d, Events(x))
           Context0(x) == Context(d.session, ReportedAfter(d), CountersAfter(d), Seen(x))
           TailDue(x) == TailSize(d, Events(x)) >= Limits[d.session].tail
           Applied(x) == AppliedActions(ActionsWarned(d), BranchFor(d), d.session, Context0(x),
                                        TailDue(x), Source(d))
           Cover(x) == IF InSeq("compact", Applied(x)) THEN Covered(ReceiptsAfter(d), Seen(x)) ELSE {}
<1>0. PICK x \in Asides(d) :
        /\ log' = Events(x) \o SummaryRows(BranchFor(d), Events(x), SummariesPrepared(d), Cover(x), Seen(x))
        /\ derived' = DerivedAfter(d, InSeq("compact", Applied(x)), Events(x))
        /\ actions' = ActionsWarned(d) \o
                        GovernorRows(Applied(x), BranchFor(d), d.session, Context0(x), Source(d))
        /\ answer' = [answer EXCEPT ![d] = AnswerTo(d, Applied(x))]
  BY DEF Deliver
<1>1. PICK aside, applied, context, tailDue, events, known, covered, seen :
        /\ aside \in Asides(d)
        /\ events = Derived(d) \o aside
        /\ log' = events \o SummaryRows(BranchFor(d), events, known, covered, seen)
        /\ applied = AppliedActions(ActionsWarned(d), BranchFor(d), d.session, context, tailDue, Source(d))
        /\ derived' = DerivedAfter(d, InSeq("compact", applied), events)
        /\ actions' = ActionsWarned(d) \o GovernorRows(applied, BranchFor(d), d.session, context, Source(d))
        /\ answer' = [answer EXCEPT ![d] = AnswerTo(d, applied)]
  BY <1>0
<1>2. GovernorAdds(GovernorRows(applied, BranchFor(d), d.session, context, Source(d)))
  BY <1>1, AppliedIsSeq, GovernorRowsAdd
<1>3. /\ AnswerTo(d, applied).checkpoint <=> Warning(d) /\ ~(d.kind = "pre" /\ d.warns)
      /\ AnswerTo(d, applied).checkpoint \in BOOLEAN
  <2>1. Warning(d) \in BOOLEAN
    BY DEF Warning
  <2>2. CASE d.kind = "pre" /\ d.warns
    BY <2>2 DEF AnswerTo, Silence
  <2>3. CASE ~(d.kind = "pre" /\ d.warns)
    <3>1. AnswerTo(d, applied).checkpoint = Warning(d)
      BY <2>3 DEF AnswerTo
    <3> QED BY <2>1, <2>3, <3>1, Zenon
  <2> QED BY <2>2, <2>3
<1>4. /\ Len(log') <= MaxEvents /\ Len(Captured(d)) <= MaxEvents
      /\ taskOf' = [taskOf EXCEPT ![d.session] = TaskFor(d)]
      /\ sessionBranch' = [sessionBranch EXCEPT ![d.session] = BranchFor(d)]
      /\ receipts' = ReceiptsAfter(d)
      /\ counters' = CountersAfter(d)
  BY DEF Deliver
<1> HIDE DEF Deliver
<1>5. /\ \E m : Grown(log, log', m, NativeOf(d), d.session)
      /\ Len(log') \in Nat /\ Len(Captured(d)) <= Len(log')
  <2>1. PICK new, more : /\ new = log' /\ AsideRows(more)
                         /\ new = (Derived(d) \o aside) \o more
    BY <1>1, Deliverable, SummariesAreAside
  <2>2. /\ \E m : Grown(log, new, m, NativeOf(d), d.session)
        /\ Len(new) \in Nat /\ Len(Captured(d)) <= Len(new)
    BY <1>1, <2>1, LogDelivered
  <2> QED BY <2>1, <2>2
<1>6. \E compacts, seenNow : derived' = DerivedAfter(d, compacts, seenNow)
  BY <1>1
<1>7. \E G : GovernorAdds(G) /\ actions' = ActionsWarned(d) \o G
  BY <1>1, <1>2
<1>8. Answered(d, AnswerTo(d, applied))
  BY <1>1, <1>3 DEF Answered
<1> QED BY <1>4, <1>5, <1>6, <1>7, <1>8

LEMMA GovernorOnlyAdds ==
  ASSUME NEW S, NEW rows \in Seq(S), NEW G, GovernorAdds(G)
  PROVE  /\ \E T : rows \o G \in Seq(T)
         /\ \A i \in DOMAIN rows : i \in DOMAIN (rows \o G) /\ (rows \o G)[i] = rows[i]
         /\ \A i \in DOMAIN (rows \o G) : i \in DOMAIN rows \/
              \A s \in Sessions : (rows \o G)[i].receipt # CheckpointOf(s)
<1>1. PICK S2 : G \in Seq(S2)
  BY DEF GovernorAdds
<1> DEFINE T == S \cup S2
<1>2. rows \in Seq(T) /\ G \in Seq(T)
  BY <1>1, SeqDef
<1> HIDE DEF T
<1>3. /\ rows \o G \in Seq(T) /\ Len(rows) \in Nat /\ Len(G) \in Nat
      /\ DOMAIN rows = 1..Len(rows) /\ DOMAIN (rows \o G) = 1..(Len(rows) + Len(G))
      /\ \A i \in 1..Len(rows) : (rows \o G)[i] = rows[i]
      /\ \A i \in 1..(Len(rows) + Len(G)) : i > Len(rows) =>
           (rows \o G)[i] = G[i - Len(rows)] /\ i - Len(rows) \in 1..Len(G)
  BY <1>2, Longer
<1>4. DOMAIN G = 1..Len(G)
  BY <1>2, LenProperties
<1>5. ASSUME NEW i \in DOMAIN (rows \o G), i \notin DOMAIN rows, NEW s \in Sessions
      PROVE  (rows \o G)[i].receipt # CheckpointOf(s)
  <2>1. i \in 1..(Len(rows) + Len(G)) /\ i > Len(rows)
    BY <1>3, <1>5
  <2>2. PICK k \in DOMAIN G : (rows \o G)[i] = G[k]
    BY <1>3, <1>4, <2>1
  <2> QED BY <2>2 DEF GovernorAdds
<1> QED BY <1>3, <1>5

LEMMA ActionsStep ==
  ASSUME NEW d \in Deliveries, LogTypes, ActionTypes,
         \E G : GovernorAdds(G) /\ actions' = ActionsWarned(d) \o G
  PROVE  /\ ActionTypes'
         /\ \A i \in DOMAIN actions : i \in DOMAIN actions' /\ actions'[i] = actions[i]
         /\ \A i \in DOMAIN actions', s \in Sessions :
              actions'[i].receipt = CheckpointOf(s) =>
                i \in DOMAIN actions \/ (s = d.session /\ Warning(d))
         /\ Warning(d) => \E i \in DOMAIN actions' : /\ actions'[i].receipt = CheckpointReceipt(d)
                                                    /\ actions'[i].source = Source(d)
<1> DEFINE rows == ActionsWarned(d)
           r == ActionRow(CheckpointReceipt(d), BranchFor(d), "context_checkpoint",
                          Limits[d.session].id, Source(d))
<1>1. PICK G : GovernorAdds(G) /\ actions' = rows \o G
  OBVIOUS
<1>2. PICK S : actions \in Seq(S)
  BY DEF ActionTypes
<1>3. /\ \E T : rows \in Seq(T)
      /\ \A i \in DOMAIN actions : i \in DOMAIN rows /\ rows[i] = actions[i]
      /\ \A i \in DOMAIN rows, s \in Sessions :
           rows[i].receipt = CheckpointOf(s) =>
             i \in DOMAIN actions \/ (s = d.session /\ Warning(d))
      /\ Warning(d) => \E i \in DOMAIN rows : /\ rows[i].receipt = CheckpointReceipt(d)
                                             /\ rows[i].source = Source(d)
  <2>1. CASE ~Warning(d) \/ CheckpointOwned(d)
    <3>1. rows = actions
      BY <2>1 DEF ActionsWarned
    <3>2. Warning(d) => \E i \in DOMAIN rows : /\ rows[i].receipt = CheckpointReceipt(d)
                                             /\ rows[i].source = Source(d)
      BY <2>1, <3>1 DEF CheckpointOwned
    <3> HIDE DEF rows
    <3> QED BY <1>2, <3>1, <3>2
  <2>2. CASE Warning(d) /\ ~CheckpointOwned(d)
    <3>1. rows = Append(actions, r)
      BY <2>2 DEF ActionsWarned
    <3>2. /\ r.receipt = CheckpointReceipt(d) /\ r.source = Source(d)
      BY DEF ActionRow
    <3>3. \A s \in Sessions : CheckpointReceipt(d) = CheckpointOf(s) => s = d.session
      BY DEF CheckpointReceipt, CheckpointOf
    <3> DEFINE T == S \cup {r}
    <3>4. actions \in Seq(T) /\ r \in T
      BY <1>2, SeqDef
    <3> HIDE DEF rows, r, T
    <3>5. /\ rows \in Seq(T) /\ Len(actions) \in Nat /\ DOMAIN actions = 1..Len(actions)
          /\ DOMAIN rows = 1..(Len(actions) + 1)
          /\ \A i \in 1..Len(actions) : rows[i] = actions[i]
          /\ rows[Len(actions) + 1] = r
      BY <3>1, <3>4, AppendProperties, LenProperties
    <3>6. PICK n \in Nat : n = Len(actions) + 1
      BY <3>5
    <3>7. /\ n \in DOMAIN rows /\ rows[n] = r
          /\ \A i \in DOMAIN actions : i \in DOMAIN rows /\ rows[i] = actions[i]
          /\ \A i \in DOMAIN rows : i \in DOMAIN actions \/ i = n
      BY <3>5, <3>6
    <3> QED BY <2>2, <3>2, <3>3, <3>5, <3>7
  <2> QED BY <2>1, <2>2
<1>4. PICK T : rows \in Seq(T)
  BY <1>3
<1> HIDE DEF rows
<1>5. /\ \E U : actions' \in Seq(U)
      /\ \A i \in DOMAIN rows : i \in DOMAIN actions' /\ actions'[i] = rows[i]
      /\ \A i \in DOMAIN actions' : i \in DOMAIN rows \/
           \A s \in Sessions : actions'[i].receipt # CheckpointOf(s)
  BY <1>1, <1>4, GovernorOnlyAdds
<1>6. ActionTypes'
  BY <1>5 DEF ActionTypes
<1>7. \A i \in DOMAIN actions : i \in DOMAIN actions' /\ actions'[i] = actions[i]
  BY <1>3, <1>5
<1>8. \A i \in DOMAIN actions', s \in Sessions :
        actions'[i].receipt = CheckpointOf(s) =>
          i \in DOMAIN actions \/ (s = d.session /\ Warning(d))
  BY <1>3, <1>5
<1>9. Warning(d) => \E i \in DOMAIN actions' : /\ actions'[i].receipt = CheckpointReceipt(d)
                                             /\ actions'[i].source = Source(d)
  BY <1>3, <1>5
<1> QED BY <1>6, <1>7, <1>8, <1>9

-----------------------------------------------------------------------------
(* What the other actions do.                                                *)

\* A task started by hand adds a row of no session.
LEMMA ByHand ==
  ASSUME LogTypes, StartedByHand
  PROVE  /\ LogTypes' /\ Len(log') >= Len(log)
         /\ \A s : Grown(log, log', Len(log), 0, s)
         /\ UNCHANGED hookVars
<1>1. ASSUME NEW t \in Tasks, NEW parent \in Branches, Start(t, parent)
      PROVE  /\ LogTypes' /\ Len(log') >= Len(log)
             /\ \A s : Grown(log, log', Len(log), 0, s)
  <2> DEFINE r == Row(t, None, "untrusted")
  <2>1. /\ log' = Append(log, r) /\ Len(log) < MaxEvents
        /\ taskOf' = taskOf /\ sessionBranch' = sessionBranch
        /\ r \in LogRow /\ AsideRow(r)
    BY <1>1 DEF Start, StartWith, Row, LogRow, Branches, AsideRow
  <2> HIDE DEF r
  <2>2. PICK old, new : old = log /\ new = log' /\ old \in Seq(LogRow) /\ new = old \o <<r>>
    BY <2>1 DEF LogTypes
  <2>3. AsideRows(<<r>>)
    BY <2>1 DEF AsideRows
  <2>4. \A s : Grown(old, old \o <<r>>, Len(old), 0, s)
    <3> SUFFICES ASSUME NEW s PROVE Grown(old, old \o <<r>>, Len(old), 0, s)
      OBVIOUS
    <3> QED BY <2>2, <2>3, GrownByNothing, GrownByAsides
  <2>5. LogTypes' /\ Len(log') >= Len(log)
    BY <2>1, AppendProperties, LenProperties, BoundsPositive DEF LogTypes
  <2> QED BY <2>2, <2>4, <2>5
<1>2. ASSUME NEW t \in Tasks, NEW s \in Sessions, StartExisting(t, s)
      PROVE  LogTypes' /\ log' = log
  BY <1>2 DEF StartExisting, LogTypes
<1>3. \A s : Grown(log, log, Len(log), 0, s)
  BY GrownByNothing DEF LogTypes
<1>4. ASSUME LogTypes', log' = log
      PROVE  Len(log') >= Len(log) /\ \A s : Grown(log, log', Len(log), 0, s)
  BY <1>3, <1>4 DEF LogTypes
<1> QED BY <1>1, <1>2, <1>4 DEF StartedByHand

\* The governor applied by hand consolidates, adds its own rows and may add the
\* summary of a compaction.
LEMMA Evaluated ==
  ASSUME LogTypes, DerivedTypes, NEW s \in Sessions, EvaluateByHand(s)
  PROVE  /\ LogTypes' /\ Len(log') >= Len(log)
         /\ \A t : Grown(log, log', Len(log), 0, t)
         /\ UNCHANGED <<taskOf, receipts, counters, answer>>
         /\ \E G : GovernorAdds(G) /\ actions' = actions \o G
         /\ DerivedTypes'
         /\ \A k \in DerivedKinds, n \in Numbers :
              derived'[k][n] = derived[k][n] \/ (k = "consolidated" /\ derived'[k][n] = 1)
<1>1. PICK b, context, tailDue, now, applied, events, covered, seen :
        /\ b = sessionBranch[s]
        /\ log' = log \o SummaryRows(b, log, summaries, covered, seen)
        /\ applied = AppliedActions(actions, b, s, context, tailDue, now)
        /\ actions' = actions \o GovernorRows(applied, b, s, context, 0)
        /\ derived' = [derived EXCEPT !["consolidated"] = Consolidated(events)]
  BY DEF EvaluateByHand
<1>2. /\ UNCHANGED <<taskOf, sessionBranch, receipts, counters, answer>>
      /\ sessionBranch[s] # None /\ Len(log') <= MaxEvents
  BY DEF EvaluateByHand, taskVars
<1>3. \E G : GovernorAdds(G) /\ actions' = actions \o G
  BY <1>1, AppliedIsSeq, GovernorRowsAdd
<1> HIDE DEF EvaluateByHand
<1>4. \A n \in Numbers : derived["consolidated"][n] \in {0, 1}
  BY DEF DerivedTypes, DerivedKinds
<1>5. /\ Consolidated(events) \in [Numbers -> {0, 1}]
      /\ \A n \in Numbers : Consolidated(events)[n] \in {derived["consolidated"][n], 1}
  BY <1>4 DEF Consolidated, OneRow
<1>6. /\ derived'["consolidated"] = Consolidated(events)
      /\ \A k \in DerivedKinds \ {"consolidated"} : derived'[k] = derived[k]
      /\ derived' = [k \in DerivedKinds |-> derived'[k]]
  BY <1>1 DEF DerivedTypes, DerivedKinds
<1>7. DerivedTypes'
  <2>1. \A k \in DerivedKinds : derived'[k] \in [Numbers -> Nat]
    <3>1. Consolidated(events) \in [Numbers -> Nat]
      BY <1>5
    <3> QED BY <1>6, <3>1 DEF DerivedTypes
  <2>2. \A k \in DerivedKinds \ {"failure"}, n \in Numbers : derived'[k][n] \in {0, 1}
    BY <1>5, <1>6 DEF DerivedTypes
  <2> QED BY <1>6, <2>1, <2>2 DEF DerivedTypes
<1>8. \A k \in DerivedKinds, n \in Numbers :
        derived'[k][n] = derived[k][n] \/ (k = "consolidated" /\ derived'[k][n] = 1)
  <2> SUFFICES ASSUME NEW k \in DerivedKinds, NEW n \in Numbers
               PROVE  derived'[k][n] = derived[k][n] \/ (k = "consolidated" /\ derived'[k][n] = 1)
    OBVIOUS
  <2>1. CASE k = "consolidated"
    BY <1>5, <1>6, <2>1
  <2>2. CASE k # "consolidated"
    BY <1>6, <2>2
  <2> QED BY <2>1, <2>2
<1>9. /\ LogTypes' /\ Len(log') >= Len(log)
      /\ \A t : Grown(log, log', Len(log), 0, t)
  <2>1. b \in Branches
    BY <1>1, <1>2 DEF LogTypes
  <2>2. PICK old, new, rows : /\ old = log /\ new = log' /\ old \in Seq(LogRow)
                              /\ AsideRows(rows) /\ new = old \o rows
    BY <1>1, <2>1, SummariesAreAside DEF LogTypes
  <2>3. \A t : Grown(old, new, Len(old), 0, t) /\ Len(old) <= Len(new)
    <3> SUFFICES ASSUME NEW t PROVE Grown(old, new, Len(old), 0, t) /\ Len(old) <= Len(new)
      OBVIOUS
    <3> QED BY <2>2, GrownByNothing, GrownByAsides
  <2>4. new \in Seq(LogRow) /\ Len(new) \in Nat /\ Len(old) \in Nat
    BY <2>2, <2>3, LenProperties DEF Grown
  <2> QED BY <1>2, <2>2, <2>3, <2>4 DEF LogTypes
<1> QED BY <1>2, <1>3, <1>7, <1>8, <1>9

-----------------------------------------------------------------------------
(* The inductive invariant.                                                  *)

\* Who was told of the checkpoint has crossed the threshold and owns its row.
Told(d) ==
  /\ Repeated(d) /\ d.kind \in Counted
  /\ \E i \in DOMAIN counters : /\ counters[i].receipt = Receipt(d)
                               /\ counters[i].total >= SnapshotAt(Limits[d.session])
  /\ \E i \in DOMAIN actions : /\ actions[i].receipt = CheckpointReceipt(d)
                              /\ actions[i].source = receipts[Receipt(d)]

AnswersAreOwned ==
  /\ DOMAIN answer = Deliveries
  /\ \A d \in Deliveries : answer[d].checkpoint \in BOOLEAN /\ (answer[d].checkpoint => Told(d))

DeliveryInv ==
  /\ LogTypes /\ ReceiptTypes /\ DerivedTypes /\ NothingElse /\ DerivedRowsOnce
  /\ CounterTypes /\ CountersGrow /\ ActionTypes /\ AnswersAreOwned

LEMMA DeliverKeepsInv ==
  ASSUME DeliveryInv, NEW d \in Deliveries, Deliver(d)
  PROVE  DeliveryInv'
<1>1. /\ LogTypes /\ ReceiptTypes /\ DerivedTypes /\ NothingElse /\ DerivedRowsOnce
      /\ CounterTypes /\ CountersGrow /\ ActionTypes /\ AnswersAreOwned
  BY DEF DeliveryInv
<1>2. /\ \E m : Grown(log, log', m, NativeOf(d), d.session)
      /\ Len(log') \in Nat /\ Len(log') <= MaxEvents
      /\ Len(Captured(d)) <= Len(log') /\ Len(Captured(d)) <= MaxEvents
      /\ taskOf' = [taskOf EXCEPT ![d.session] = TaskFor(d)]
      /\ sessionBranch' = [sessionBranch EXCEPT ![d.session] = BranchFor(d)]
      /\ receipts' = ReceiptsAfter(d)
      /\ counters' = CountersAfter(d)
  BY <1>1, Delivered
<1>3. PICK compacts, events : derived' = DerivedAfter(d, compacts, events)
  BY <1>1, Delivered
<1>4. \E G : GovernorAdds(G) /\ actions' = ActionsWarned(d) \o G
  BY <1>1, Delivered
<1>a. PICK a : Answered(d, a)
  BY <1>1, Delivered
<1>5. /\ answer' = [answer EXCEPT ![d] = a]
      /\ a.checkpoint <=> Warning(d) /\ ~(d.kind = "pre" /\ d.warns)
      /\ a.checkpoint \in BOOLEAN
  BY <1>a DEF Answered
<1>6. LogTypes'
  BY <1>1, <1>2, Deliverable DEF LogTypes, Grown
<1>7. /\ ReceiptTypes' /\ Receipt(d) \in DOMAIN receipts' /\ receipts'[Receipt(d)] = Source(d)
      /\ DOMAIN receipts' = DOMAIN receipts \cup {Receipt(d)}
      /\ \A r \in DOMAIN receipts : r \in DOMAIN receipts' /\ receipts'[r] = receipts[r]
  BY <1>1, <1>2, ReceiptsStep
<1>8. DerivedTypes' /\ NothingElse' /\ DerivedRowsOnce'
  BY <1>1, <1>2, <1>3, DerivedStep
<1>9. /\ CounterTypes'
      /\ \A i \in DOMAIN counters : i \in DOMAIN counters' /\ counters'[i] = counters[i]
      /\ d.kind \in Counted =>
           \E i \in DOMAIN counters' : /\ counters'[i].receipt = Receipt(d)
                                       /\ Cumulative(d) = counters'[i].total
  BY <1>1, <1>2, <1>7, CountersStep
<1>b. CountersGrow'
  BY <1>1, <1>2, <1>7, <1>9, CountersGrowStep
<1>10. /\ ActionTypes'
       /\ \A i \in DOMAIN actions : i \in DOMAIN actions' /\ actions'[i] = actions[i]
       /\ Warning(d) => \E i \in DOMAIN actions' : /\ actions'[i].receipt = CheckpointReceipt(d)
                                                  /\ actions'[i].source = Source(d)
  BY <1>1, <1>4, ActionsStep
<1>11. AnswersAreOwned'
  <2>1. /\ DOMAIN answer' = Deliveries /\ answer'[d] = a
        /\ \A e \in Deliveries : e # d => answer'[e] = answer[e]
    BY <1>1, <1>5 DEF AnswersAreOwned
  <2>2. ASSUME NEW e \in Deliveries, e # d
        PROVE  answer'[e].checkpoint \in BOOLEAN /\ (answer'[e].checkpoint => Told(e)')
    <3>1. answer'[e] = answer[e] /\ (answer[e].checkpoint => Told(e)) /\ answer[e].checkpoint \in BOOLEAN
      BY <1>1, <2>1, <2>2 DEF AnswersAreOwned
    <3>2. Told(e) => Told(e)'
      BY <1>7, <1>9, <1>10 DEF Told, Repeated, CheckpointReceipt, Receipt
    <3> QED BY <3>1, <3>2, Zenon
  <2>3. answer'[d].checkpoint \in BOOLEAN /\ (answer'[d].checkpoint => Told(d)')
    <3>1. Warning(d) => Told(d)'
      BY <1>7, <1>9, <1>10 DEF Told, Repeated, Warning, CheckpointReceipt, Receipt
    <3> QED BY <1>5, <2>1, <3>1, Zenon
  <2> QED BY <2>1, <2>2, <2>3, Zenon DEF AnswersAreOwned
<1> QED BY <1>6, <1>7, <1>8, <1>9, <1>b, <1>10, <1>11 DEF DeliveryInv

LEMMA DeliveryInvHolds == Spec => []DeliveryInv
<1>1. HookInit => DeliveryInv
  <2> SUFFICES ASSUME HookInit PROVE DeliveryInv
    OBVIOUS
  <2>1. LogTypes
    BY BoundsPositive, EmptySeq DEF HookInit, WsInit, LogTypes
  <2>2. ReceiptTypes /\ DOMAIN receipts = {}
    BY DEF HookInit, ReceiptTypes
  <2>3. DerivedTypes /\ NothingElse
    BY DEF HookInit, DerivedTypes, NothingElse
  <2>4. DerivedRowsOnce
    BY <2>2 DEF DerivedRowsOnce, Repeated
  <2>5. CounterTypes /\ CountersGrow
    BY <2>2, EmptySeq DEF HookInit, CounterTypes, CountersGrow, HasCounter, Repeated
  <2>6. ActionTypes
    BY EmptySeq DEF HookInit, ActionTypes
  <2>7. AnswersAreOwned
    BY DEF HookInit, AnswersAreOwned, Silence
  <2> QED BY <2>1, <2>2, <2>3, <2>4, <2>5, <2>6, <2>7 DEF DeliveryInv
<1>2. DeliveryInv /\ [Next]_vars => DeliveryInv'
  <2> SUFFICES ASSUME DeliveryInv, [Next]_vars PROVE DeliveryInv'
    OBVIOUS
  <2>0. /\ LogTypes /\ ReceiptTypes /\ DerivedTypes /\ NothingElse /\ DerivedRowsOnce
        /\ CounterTypes /\ CountersGrow /\ ActionTypes /\ AnswersAreOwned
    BY DEF DeliveryInv
  <2>1. CASE StartedByHand
    <3>1. /\ LogTypes' /\ Len(log') >= Len(log)
          /\ UNCHANGED <<receipts, derived, counters, actions, answer>>
      BY <2>0, <2>1, ByHand DEF hookVars
    <3>2. ReceiptTypes'
      BY <2>0, <3>1 DEF ReceiptTypes, LogTypes
    <3>3. DerivedTypes' /\ NothingElse' /\ DerivedRowsOnce'
      BY <2>0, <3>1 DEF DerivedTypes, NothingElse, DerivedRowsOnce, Repeated
    <3>4. ActionTypes' /\ AnswersAreOwned'
      BY <2>0, <3>1 DEF ActionTypes, AnswersAreOwned, Told, Repeated, Receipt, CheckpointReceipt
    <3>5. CounterTypes' /\ CountersGrow'
      BY <2>0, <3>1, CountersKept
    <3> QED BY <3>1, <3>2, <3>3, <3>4, <3>5 DEF DeliveryInv
  <2>2. ASSUME NEW d \in Deliveries, Deliver(d) PROVE DeliveryInv'
    BY <2>2, DeliverKeepsInv
  <2>3. ASSUME NEW d \in Deliveries, Refuse(d) PROVE DeliveryInv'
    <3>1. UNCHANGED <<log, taskOf, sessionBranch, receipts, derived, counters, actions>>
      BY <2>3 DEF Refuse, wsVars
    <3> DEFINE a == [Silence EXCEPT !.refused = TRUE]
    <3>2. answer' = [answer EXCEPT ![d] = a] /\ a.checkpoint = FALSE
      BY <2>3 DEF Refuse, Silence
    <3> HIDE DEF a
    <3>3. AnswersAreOwned'
      <4>1. /\ DOMAIN answer' = Deliveries /\ answer'[d] = a
            /\ \A e \in Deliveries : e # d => answer'[e] = answer[e]
        BY <2>0, <3>2 DEF AnswersAreOwned
      <4>2. \A e \in Deliveries : Told(e) => Told(e)'
        BY <3>1 DEF Told, Repeated, Receipt, CheckpointReceipt
      <4>3. answer'[d].checkpoint \in BOOLEAN /\ ~answer'[d].checkpoint
        BY <3>2, <4>1
      <4>4. \A e \in Deliveries : e # d =>
              answer'[e].checkpoint \in BOOLEAN /\ (answer'[e].checkpoint => Told(e)')
        BY <2>0, <4>1, <4>2, Zenon DEF AnswersAreOwned
      <4> QED BY <4>1, <4>3, <4>4, Zenon DEF AnswersAreOwned
    <3>4. LogTypes' /\ ReceiptTypes' /\ ActionTypes'
      BY <2>0, <3>1 DEF LogTypes, ReceiptTypes, ActionTypes
    <3>5. DerivedTypes' /\ NothingElse' /\ DerivedRowsOnce'
      BY <2>0, <3>1 DEF DerivedTypes, NothingElse, DerivedRowsOnce, Repeated
    <3>6. CounterTypes' /\ CountersGrow'
      BY <2>0, <3>1, CountersKept
    <3> QED BY <3>3, <3>4, <3>5, <3>6 DEF DeliveryInv
  <2>4. ASSUME NEW s \in Sessions, EvaluateByHand(s) PROVE DeliveryInv'
    <3>1. /\ LogTypes' /\ Len(log') >= Len(log)
          /\ UNCHANGED <<receipts, counters, answer>>
          /\ \E G : GovernorAdds(G) /\ actions' = actions \o G
          /\ DerivedTypes'
          /\ \A k \in DerivedKinds, n \in Numbers :
               derived'[k][n] = derived[k][n] \/ (k = "consolidated" /\ derived'[k][n] = 1)
      BY <2>0, <2>4, Evaluated
    <3>2. PICK S, G : actions \in Seq(S) /\ GovernorAdds(G) /\ actions' = actions \o G
      BY <2>0, <3>1 DEF ActionTypes
    <3>3. /\ \E T : actions' \in Seq(T)
          /\ \A i \in DOMAIN actions : i \in DOMAIN actions' /\ actions'[i] = actions[i]
      BY <3>2, GovernorOnlyAdds
    <3>4. NothingElse'
      BY <2>0, <3>1 DEF NothingElse
    <3>5. DerivedRowsOnce'
      <4> SUFFICES ASSUME NEW d \in Deliveries, Repeated(d), NEW k \in DerivedKinds
                   PROVE  Right(d, k, derived'[k][receipts[Receipt(d)]])
        BY <3>1 DEF DerivedRowsOnce, Right, Repeated
      <4>1. receipts[Receipt(d)] \in Numbers
        BY <2>0, BoundsPositive DEF ReceiptTypes, LogTypes, Repeated, Numbers
      <4>2. Right(d, k, derived[k][receipts[Receipt(d)]])
        BY <2>0, OnceMeansRight
      <4>3. Right(d, "consolidated", 1)
        BY DEF Right
      <4> QED BY <3>1, <4>1, <4>2, <4>3
    <3>6. ReceiptTypes' /\ ActionTypes'
      BY <2>0, <3>1, <3>3 DEF LogTypes, ReceiptTypes, ActionTypes
    <3>8. CounterTypes' /\ CountersGrow'
      BY <2>0, <3>1, CountersKept
    <3>7. AnswersAreOwned'
      <4>1. \A e \in Deliveries : Told(e) => Told(e)'
        BY <3>1, <3>3 DEF Told, Repeated, Receipt, CheckpointReceipt
      <4> QED BY <2>0, <3>1, <4>1, Zenon DEF AnswersAreOwned
    <3> QED BY <3>1, <3>4, <3>5, <3>6, <3>7, <3>8 DEF DeliveryInv
  <2>5. CASE UNCHANGED vars
    <3>1. UNCHANGED <<log, taskOf, sessionBranch, receipts, derived, counters, actions, answer>>
      BY <2>5 DEF vars, wsVars, hookVars
    <3>2. LogTypes' /\ ReceiptTypes' /\ ActionTypes'
      BY <2>0, <3>1 DEF LogTypes, ReceiptTypes, ActionTypes
    <3>5. CounterTypes' /\ CountersGrow'
      BY <2>0, <3>1, CountersKept
    <3>3. DerivedTypes' /\ NothingElse' /\ DerivedRowsOnce'
      BY <2>0, <3>1 DEF DerivedTypes, NothingElse, DerivedRowsOnce, Repeated
    <3>4. AnswersAreOwned'
      BY <2>0, <3>1, Zenon DEF AnswersAreOwned, Told, Repeated, Receipt, CheckpointReceipt
    <3> QED BY <3>2, <3>3, <3>4, <3>5 DEF DeliveryInv
  <2> QED BY <2>1, <2>2, <2>3, <2>4, <2>5 DEF Next
<1> QED BY <1>1, <1>2, PTL DEF Spec

\* A delivery that was captured has each of its rows exactly once, whatever is
\* repeated, compacted and delivered after it: a retry finds them.  Of a failure
\* whose text holds a secret there is one row or more, since no retry finds the
\* last; of a failure that says nothing there is none.  (hooks.py, process_hook,
\* _derive_native_failure.)
THEOREM RowsAreDerivedOnce == Spec => []DerivedRowsOnce
BY DeliveryInvHolds, PTL DEF DeliveryInv

\* A retry of a delivery that was told of the checkpoint is told again, unless
\* it is refused: the delivery owns the row of its session and its counter has
\* crossed the threshold.  (hooks.py, register_context_checkpoint.)
THEOREM RetriesAreToldAgain == Spec => RetryKeepsCheckpoint
<1> DEFINE Kept == \A d \in Deliveries :
                     answer[d].checkpoint => answer'[d].checkpoint \/ answer'[d].refused
<1>1. ASSUME DeliveryInv, Next PROVE Kept
  <2>0. /\ LogTypes /\ ReceiptTypes /\ CounterTypes /\ ActionTypes /\ AnswersAreOwned
    BY <1>1 DEF DeliveryInv
  <2>1. ASSUME NEW d \in Deliveries, Deliver(d) PROVE Kept
    <3>a. PICK a : Answered(d, a)
      BY <2>0, <2>1, Delivered
    <3>1. /\ DOMAIN answer' = Deliveries /\ answer'[d] = a
          /\ \A e \in Deliveries : e # d => answer'[e] = answer[e]
          /\ a.checkpoint <=> Warning(d) /\ ~(d.kind = "pre" /\ d.warns)
          /\ a.checkpoint \in BOOLEAN
      BY <2>0, <3>a DEF AnswersAreOwned, Answered
    <3>2. ASSUME Told(d) PROVE Warning(d) /\ d.kind # "pre"
      <4>1. d.kind \in Counted /\ d.kind # "pre" /\ Repeated(d)
        BY <3>2 DEF Told, Counted
      <4>2. PICK i \in DOMAIN counters : /\ counters[i].receipt = Receipt(d)
                                         /\ counters[i].total >= SnapshotAt(Limits[d.session])
        BY <3>2 DEF Told
      <4>3. CountersAfter(d) = counters
        BY <4>2 DEF CountersAfter, HasCounter
      <4>4. i = CHOOSE j \in DOMAIN counters : counters[j].receipt = Receipt(d)
        BY <2>0, <4>2 DEF CounterTypes
      <4>5. Cumulative(d) = counters[i].total
        BY <4>3, <4>4 DEF Cumulative
      <4>6. CheckpointOwned(d)
        BY <3>2, <4>1 DEF Told, CheckpointOwned, Source
      <4> QED BY <4>1, <4>2, <4>5, <4>6 DEF Warning
    <3>3. \A e \in Deliveries : answer[e].checkpoint => Told(e)
      BY <2>0 DEF AnswersAreOwned
    <3>4. answer[d].checkpoint => answer'[d].checkpoint
      BY <3>1, <3>2, <3>3, Zenon
    <3>5. \A e \in Deliveries : e # d => (answer[e].checkpoint => answer'[e].checkpoint)
      BY <3>1, Zenon
    <3> QED BY <3>4, <3>5, Zenon
  <2>2. ASSUME NEW d \in Deliveries, Refuse(d) PROVE Kept
    <3> DEFINE a == [Silence EXCEPT !.refused = TRUE]
    <3>1. answer' = [answer EXCEPT ![d] = a] /\ a.refused
      BY <2>2 DEF Refuse, Silence
    <3> HIDE DEF a
    <3>2. answer'[d].refused /\ \A e \in Deliveries : e # d => answer'[e] = answer[e]
      BY <2>0, <3>1 DEF AnswersAreOwned
    <3> QED BY <3>2, Zenon
  <2>3. ASSUME answer' = answer PROVE Kept
    BY <2>3, Zenon
  <2>4. \A s : EvaluateByHand(s) => answer' = answer
    BY DEF EvaluateByHand
  <2>5. StartedByHand => answer' = answer
    BY DEF StartedByHand, hookVars
  <2> HIDE DEF Kept
  <2> QED BY <1>1, <2>1, <2>2, <2>3, <2>4, <2>5 DEF Next
<1>2. DeliveryInv /\ [Next]_vars => [Kept]_vars
  BY <1>1
<1> QED BY <1>2, DeliveryInvHolds, PTL DEF Spec, RetryKeepsCheckpoint

-----------------------------------------------------------------------------
(* Every governor action has a receipt of its own.                           *)

Once(seq) == \A i, j \in DOMAIN seq : seq[i] = seq[j] => i = j
Differ(rows) == \A i, j \in DOMAIN rows : rows[i].receipt = rows[j].receipt => i = j

LEMMA JoinedOnce ==
  ASSUME NEW S, NEW T, S \cap T = {}, NEW u \in Seq(S), NEW v \in Seq(T), Once(u), Once(v)
  PROVE  u \o v \in Seq(S \cup T) /\ Once(u \o v)
<1> DEFINE U == S \cup T
<1>1. u \in Seq(U) /\ v \in Seq(U)
  BY SeqDef
<1>2. /\ DOMAIN u = 1..Len(u) /\ DOMAIN v = 1..Len(v) /\ Len(u) \in Nat /\ Len(v) \in Nat
      /\ \A i \in DOMAIN u : u[i] \in S
      /\ \A i \in DOMAIN v : v[i] \in T
  BY LenProperties, ElementOfSeq
<1> HIDE DEF U
<1>3. /\ u \o v \in Seq(U) /\ DOMAIN (u \o v) = 1..(Len(u) + Len(v))
      /\ \A i \in 1..Len(u) : (u \o v)[i] = u[i]
      /\ \A i \in 1..(Len(u) + Len(v)) : i > Len(u) =>
           (u \o v)[i] = v[i - Len(u)] /\ i - Len(u) \in 1..Len(v)
  BY <1>1, Longer
<1>4. ASSUME NEW i \in DOMAIN (u \o v), NEW j \in DOMAIN (u \o v), (u \o v)[i] = (u \o v)[j]
      PROVE  i = j
  <2>1. CASE i <= Len(u) /\ j <= Len(u)
    BY <1>2, <1>3, <1>4, <2>1 DEF Once
  <2>2. CASE i > Len(u) /\ j > Len(u)
    <3>1. i - Len(u) = j - Len(u)
      BY <1>2, <1>3, <1>4, <2>2 DEF Once
    <3> QED BY <1>2, <1>3, <3>1
  <2>3. CASE i <= Len(u) /\ j > Len(u)
    BY <1>2, <1>3, <1>4, <2>3
  <2>4. CASE i > Len(u) /\ j <= Len(u)
    BY <1>2, <1>3, <1>4, <2>4
  <2> QED BY <1>2, <1>3, <2>1, <2>2, <2>3, <2>4
<1> QED BY <1>3, <1>4 DEF Once, U

\* What the governor applies: each action at most once, and none whose receipt
\* is there.
LEMMA AppliedOnce ==
  ASSUME NEW rows, NEW b, NEW s, NEW context, NEW tailDue, NEW now, NEW applied,
         applied = AppliedActions(rows, b, s, context, tailDue, now)
  PROVE  /\ \E S : applied \in Seq(S)
         /\ Once(applied)
         /\ \A i \in DOMAIN applied :
              ~Recorded(rows, GovernorReceipt(b, Limits[s], applied[i], context))
<1> DEFINE one(a) == IF Applies(a, rows, b, s, context, tailDue, now) THEN <<a>> ELSE <<>>
           due(a) == {x \in {a} : Applies(x, rows, b, s, context, tailDue, now)}
<1>1. \A a : one(a) \in Seq(due(a)) /\ Once(one(a))
  <2> SUFFICES ASSUME NEW a PROVE one(a) \in Seq(due(a)) /\ Once(one(a))
    OBVIOUS
  <2>1. CASE Applies(a, rows, b, s, context, tailDue, now)
    <3>1. one(a) = <<a>> /\ a \in due(a)
      BY <2>1
    <3> HIDE DEF one, due
    <3> QED BY <3>1 DEF Once
  <2>2. CASE ~Applies(a, rows, b, s, context, tailDue, now)
    <3>1. one(a) = <<>>
      BY <2>2
    <3> HIDE DEF one, due
    <3> QED BY <3>1, EmptySeq DEF Once
  <2> QED BY <2>1, <2>2
<1>2. \A a, c : a # c => due(a) \cap due(c) = {}
  OBVIOUS
<1>3. applied = one("snapshot") \o one("compact") \o one("handoff") \o one("handoff_required")
  BY DEF AppliedActions
<1> DEFINE A == due("snapshot") \cup due("compact")
           B == A \cup due("handoff")
           C == B \cup due("handoff_required")
<1>4. A \cap due("handoff") = {} /\ B \cap due("handoff_required") = {}
  OBVIOUS
<1>5. \A x \in C : ~Recorded(rows, GovernorReceipt(b, Limits[s], x, context))
  BY DEF Applies
<1> HIDE DEF one, due
<1>6. /\ one("snapshot") \o one("compact") \in Seq(A)
      /\ Once(one("snapshot") \o one("compact"))
  BY <1>1, <1>2, JoinedOnce
<1> HIDE DEF A
<1>7. /\ one("snapshot") \o one("compact") \o one("handoff") \in Seq(B)
      /\ Once(one("snapshot") \o one("compact") \o one("handoff"))
  BY <1>1, <1>4, <1>6, JoinedOnce
<1> HIDE DEF B
<1>8. applied \in Seq(C) /\ Once(applied)
  <2> DEFINE three == one("snapshot") \o one("compact") \o one("handoff")
  <2>1. three \in Seq(B) /\ Once(three)
    BY <1>7
  <2>2. applied = three \o one("handoff_required")
    BY <1>3
  <2> HIDE DEF three
  <2>3. PICK last : last = one("handoff_required")
    OBVIOUS
  <2>4. last \in Seq(due("handoff_required")) /\ Once(last)
    BY <1>1, <2>3
  <2>5. three \o last \in Seq(B \cup due("handoff_required")) /\ Once(three \o last)
    BY <1>4, <2>1, <2>4, JoinedOnce
  <2> QED BY <2>2, <2>3, <2>5
<1> HIDE DEF C
<1> QED BY <1>5, <1>8, ElementOfSeq, LenProperties

\* Rows that the governor adds differ from each other and from all before.
LEMMA GovernorKeepsDiffer ==
  ASSUME NEW S, NEW rows \in Seq(S), Differ(rows), NEW b, NEW s, NEW context, NEW source,
         NEW tailDue, NEW now, NEW applied,
         applied = AppliedActions(rows, b, s, context, tailDue, now)
  PROVE  Differ(rows \o GovernorRows(applied, b, s, context, source))
<1> DEFINE G == GovernorRows(applied, b, s, context, source)
           receipt(a) == GovernorReceipt(b, Limits[s], a, context)
<1>1. PICK T : applied \in Seq(T)
  BY AppliedOnce
<1>2. /\ DOMAIN G = DOMAIN applied
      /\ \A i \in DOMAIN G : G[i].receipt = receipt(applied[i])
  BY DEF GovernorRows, ActionRow
<1>3. \A i, j \in DOMAIN G : G[i].receipt = G[j].receipt => i = j
  <2>1. \A a, c : receipt(a) = receipt(c) => a = c
    BY DEF GovernorReceipt
  <2> HIDE DEF G, receipt
  <2> QED BY <1>2, <2>1, AppliedOnce DEF Once
<1>4. \A i \in DOMAIN rows, j \in DOMAIN G : rows[i].receipt # G[j].receipt
  <2> HIDE DEF G
  <2> QED BY <1>2, AppliedOnce DEF Recorded
<1>5. GovernorAdds(G)
  BY <1>1, GovernorRowsAdd
<1> HIDE DEF G
<1>6. PICK T2 : G \in Seq(T2)
  BY <1>5 DEF GovernorAdds
<1>7. rows \in Seq(S \cup T2) /\ G \in Seq(S \cup T2)
  BY <1>6, SeqDef
<1>8. /\ Len(rows) \in Nat /\ Len(G) \in Nat
      /\ DOMAIN rows = 1..Len(rows) /\ DOMAIN G = 1..Len(G)
      /\ DOMAIN (rows \o G) = 1..(Len(rows) + Len(G))
      /\ \A i \in 1..Len(rows) : (rows \o G)[i] = rows[i]
      /\ \A i \in 1..(Len(rows) + Len(G)) : i > Len(rows) =>
           (rows \o G)[i] = G[i - Len(rows)] /\ i - Len(rows) \in 1..Len(G)
  BY <1>7, Longer, LenProperties
<1>9. ASSUME NEW i \in DOMAIN (rows \o G), NEW j \in DOMAIN (rows \o G),
             (rows \o G)[i].receipt = (rows \o G)[j].receipt
      PROVE  i = j
  <2>1. CASE i <= Len(rows) /\ j <= Len(rows)
    BY <1>8, <1>9, <2>1 DEF Differ
  <2>2. CASE i > Len(rows) /\ j > Len(rows)
    <3>1. i - Len(rows) = j - Len(rows)
      BY <1>3, <1>8, <1>9, <2>2
    <3> QED BY <1>8, <3>1
  <2>3. CASE i <= Len(rows) /\ j > Len(rows)
    BY <1>4, <1>8, <1>9, <2>3
  <2>4. CASE i > Len(rows) /\ j <= Len(rows)
    BY <1>4, <1>8, <1>9, <2>4
  <2> QED BY <1>8, <2>1, <2>2, <2>3, <2>4
<1> QED BY <1>9 DEF Differ, G

LEMMA SomeRows ==
  ASSUME NEW S, actions \in Seq(S), NEW d
  PROVE  \E T : ActionsWarned(d) \in Seq(T)
<1> DEFINE r == ActionRow(CheckpointReceipt(d), BranchFor(d), "context_checkpoint",
                          Limits[d.session].id, Source(d))
           T == S \cup {r}
<1>1. ActionsWarned(d) = actions \/ ActionsWarned(d) = Append(actions, r)
  BY DEF ActionsWarned
<1>2. actions \in Seq(T) /\ r \in T
  BY SeqDef
<1> HIDE DEF r, T
<1> QED BY <1>1, <1>2, AppendProperties

LEMMA WarningKeepsDiffer ==
  ASSUME NEW S, actions \in Seq(S), Differ(actions), NEW d
  PROVE  Differ(ActionsWarned(d)) /\ \E T : ActionsWarned(d) \in Seq(T)
<1> DEFINE r == ActionRow(CheckpointReceipt(d), BranchFor(d), "context_checkpoint",
                          Limits[d.session].id, Source(d))
<1>1. CASE ~Warning(d) \/ CheckpointOwned(d)
  BY <1>1 DEF ActionsWarned
<1>2. CASE Warning(d) /\ ~CheckpointOwned(d)
  <2>1. ActionsWarned(d) = Append(actions, r)
    BY <1>2 DEF ActionsWarned
  <2>2. r.receipt = CheckpointReceipt(d) /\ ~Recorded(actions, r.receipt)
    BY <1>2 DEF ActionRow, Warning, CheckpointDue
  <2> DEFINE T == S \cup {r}
  <2>3. actions \in Seq(T) /\ r \in T
    BY SeqDef
  <2> HIDE DEF r, T
  <2>4. /\ Append(actions, r) \in Seq(T) /\ Len(actions) \in Nat
        /\ DOMAIN actions = 1..Len(actions)
        /\ DOMAIN Append(actions, r) = 1..(Len(actions) + 1)
        /\ \A i \in 1..Len(actions) : Append(actions, r)[i] = actions[i]
        /\ Append(actions, r)[Len(actions) + 1] = r
    BY <2>3, AppendProperties, LenProperties
  <2>5. Differ(Append(actions, r))
    BY <2>2, <2>4 DEF Differ, Recorded
  <2> QED BY <2>1, <2>4, <2>5
<1> QED BY <1>1, <1>2

ActionsDiffer == Differ(actions)

\* No action of the governor is recorded twice: one row for each branch,
\* policy, action and bucket of the context, and one checkpoint for each
\* session and policy, whatever is repeated, delivered to another session or
\* evaluated by hand.  (governor.py, evaluate_and_apply, record_governor_action.)
THEOREM ActionsAreRecordedOnce == Spec => []ActionsDiffer
<1>1. HookInit => ActionsDiffer
  BY DEF HookInit, ActionsDiffer, Differ
<1>2. ActionsDiffer /\ DeliveryInv /\ [Next]_vars => ActionsDiffer'
  <2> SUFFICES ASSUME ActionsDiffer, DeliveryInv, [Next]_vars PROVE ActionsDiffer'
    OBVIOUS
  <2>1. PICK S : actions \in Seq(S)
    BY DEF DeliveryInv, ActionTypes
  <2>2. ASSUME NEW d \in Deliveries, Deliver(d) PROVE ActionsDiffer'
    <3>1. PICK applied, context, tailDue :
            /\ applied = AppliedActions(ActionsWarned(d), BranchFor(d), d.session, context,
                                        tailDue, Source(d))
            /\ actions' = ActionsWarned(d) \o
                            GovernorRows(applied, BranchFor(d), d.session, context, Source(d))
      BY <2>2 DEF Deliver
    <3>2. PICK rows, T, source : /\ rows = ActionsWarned(d) /\ source = Source(d)
                                 /\ Differ(rows) /\ rows \in Seq(T)
      BY <2>1, WarningKeepsDiffer DEF ActionsDiffer
    <3>3. PICK b, s : b = BranchFor(d) /\ s = d.session
      OBVIOUS
    <3>4. /\ applied = AppliedActions(rows, b, s, context, tailDue, source)
          /\ actions' = rows \o GovernorRows(applied, b, s, context, source)
      BY <3>1, <3>2, <3>3
    <3>5. Differ(rows \o GovernorRows(applied, b, s, context, source))
      BY <3>2, <3>4, GovernorKeepsDiffer
    <3> QED BY <3>4, <3>5 DEF ActionsDiffer, Differ
  <2>3. ASSUME NEW s \in Sessions, EvaluateByHand(s) PROVE ActionsDiffer'
    <3>1. PICK b, context, tailDue, now, applied :
            /\ applied = AppliedActions(actions, b, s, context, tailDue, now)
            /\ actions' = actions \o GovernorRows(applied, b, s, context, 0)
      BY <2>3 DEF EvaluateByHand
    <3>2. PICK rows : rows = actions /\ Differ(rows) /\ rows \in Seq(S)
      BY <2>1 DEF ActionsDiffer
    <3>3. /\ applied = AppliedActions(rows, b, s, context, tailDue, now)
          /\ actions' = rows \o GovernorRows(applied, b, s, context, 0)
      BY <3>1, <3>2
    <3>4. Differ(rows \o GovernorRows(applied, b, s, context, 0))
      BY <3>2, <3>3, GovernorKeepsDiffer
    <3> QED BY <3>3, <3>4 DEF ActionsDiffer, Differ
  <2>4. ASSUME actions' = actions PROVE ActionsDiffer'
    BY <2>4 DEF ActionsDiffer, Differ
  <2>5. StartedByHand \/ (\E d \in Deliveries : Refuse(d)) \/ UNCHANGED vars => actions' = actions
    BY DEF StartedByHand, Refuse, vars, hookVars
  <2> QED BY <2>2, <2>3, <2>4, <2>5 DEF Next
<1> QED BY <1>1, <1>2, DeliveryInvHolds, PTL DEF Spec

-----------------------------------------------------------------------------
(* The governor keeps to the interval of its policy.                         *)

SameAction(x, y) == x.branch = y.branch /\ x.action = y.action /\ x.policy = y.policy
Successive(rows, i, j) ==
  /\ i < j /\ SameAction(rows[i], rows[j])
  /\ \A k \in DOMAIN rows : i < k /\ k < j => ~SameAction(rows[k], rows[j])

\* Rows that deliveries brought about: their source is an event.
OfEvents(x, y) == x.source > 0 /\ y.source > 0
Spaced(rows) ==
  \A i, j \in DOMAIN rows :
    /\ Successive(rows, i, j) /\ OfEvents(rows[i], rows[j])
    /\ rows[j].action # "context_checkpoint"
    => \E s \in Sessions : /\ Limits[s].id = rows[j].policy
                           /\ ~(rows[j].source < rows[i].source + Limits[s].interval)

LEMMA AppliedInTime ==
  ASSUME NEW rows, NEW b, NEW s, NEW context, NEW tailDue, NEW now, NEW applied,
         applied = AppliedActions(rows, b, s, context, tailDue, now)
  PROVE  \A i \in DOMAIN applied : ~RateLimited(rows, b, Limits[s], applied[i], now)
<1> DEFINE one(a) == IF Applies(a, rows, b, s, context, tailDue, now) THEN <<a>> ELSE <<>>
           D == {x \in {"snapshot", "compact", "handoff", "handoff_required"} :
                   Applies(x, rows, b, s, context, tailDue, now)}
<1>1. ASSUME NEW a \in {"snapshot", "compact", "handoff", "handoff_required"}
      PROVE  one(a) \in Seq(D)
  <2>1. CASE Applies(a, rows, b, s, context, tailDue, now)
    <3>1. one(a) = <<a>> /\ a \in D
      BY <1>1, <2>1
    <3> HIDE DEF one, D
    <3> QED BY <3>1
  <2>2. CASE ~Applies(a, rows, b, s, context, tailDue, now)
    <3>1. one(a) = <<>>
      BY <2>2
    <3> HIDE DEF one, D
    <3> QED BY <3>1, EmptySeq
  <2> QED BY <2>1, <2>2
<1>2. applied = one("snapshot") \o one("compact") \o one("handoff") \o one("handoff_required")
  BY DEF AppliedActions
<1>3. \A x \in D : ~RateLimited(rows, b, Limits[s], x, now)
  BY DEF Applies
<1> HIDE DEF one, D
<1>4. /\ one("snapshot") \in Seq(D) /\ one("compact") \in Seq(D)
      /\ one("handoff") \in Seq(D) /\ one("handoff_required") \in Seq(D)
  BY <1>1
<1>5. applied \in Seq(D)
  BY <1>2, <1>4, ConcatProperties
<1> QED BY <1>3, <1>5, ElementOfSeq, LenProperties

\* The row that limits the rate is the newest of its action.
LEMMA NewestLimits ==
  ASSUME NEW S, NEW rows \in Seq(S), NEW b, NEW policy, NEW action, NEW now,
         NEW i \in LastRows(rows, b, policy, action),
         \A k \in LastRows(rows, b, policy, action) : k <= i,
         rows[i].source > 0, ~RateLimited(rows, b, policy, action, now)
  PROVE  ~(now < rows[i].source + policy.interval)
<1> DEFINE mine == LastRows(rows, b, policy, action)
<1>1. \A k \in mine : k \in Nat
  <2>1. mine \subseteq DOMAIN rows
    BY DEF LastRows
  <2> HIDE DEF mine
  <2> QED BY <2>1, LenProperties
<1>2. i = CHOOSE k \in mine : \A j \in mine : j <= k
  <2> HIDE DEF mine
  <2>1. \A k \in mine : (\A j \in mine : j <= k) => k = i
    BY <1>1 DEF mine
  <2> QED BY <2>1 DEF mine
<1>3. LastSource(rows, b, policy, action) = rows[i].source
  BY <1>2 DEF LastSource
<1> QED BY <1>3 DEF RateLimited

LEMMA GovernorKeepsSpaced ==
  ASSUME NEW S, NEW rows \in Seq(S), Spaced(rows), NEW b, NEW s \in Sessions, NEW context,
         NEW source, NEW tailDue, NEW now, source = now \/ source = 0, NEW applied,
         applied = AppliedActions(rows, b, s, context, tailDue, now)
  PROVE  Spaced(rows \o GovernorRows(applied, b, s, context, source))
<1> DEFINE G == GovernorRows(applied, b, s, context, source)
           all == rows \o G
<1>1. PICK T : applied \in Seq(T)
  BY AppliedOnce
<1>2. /\ DOMAIN G = DOMAIN applied
      /\ \A k \in DOMAIN G : /\ G[k].branch = b /\ G[k].action = applied[k]
                             /\ G[k].policy = Limits[s].id /\ G[k].source = source
  BY DEF GovernorRows, ActionRow
<1>3. GovernorAdds(G)
  BY <1>1, GovernorRowsAdd
<1> HIDE DEF G
<1>4. PICK T2 : G \in Seq(T2)
  BY <1>3 DEF GovernorAdds
<1>5. rows \in Seq(S \cup T2) /\ G \in Seq(S \cup T2)
  BY <1>4, SeqDef
<1>6. /\ Len(rows) \in Nat /\ Len(G) \in Nat
      /\ DOMAIN rows = 1..Len(rows) /\ DOMAIN G = 1..Len(G)
      /\ DOMAIN all = 1..(Len(rows) + Len(G))
      /\ \A k \in 1..Len(rows) : all[k] = rows[k]
      /\ \A k \in 1..(Len(rows) + Len(G)) : k > Len(rows) =>
           all[k] = G[k - Len(rows)] /\ k - Len(rows) \in 1..Len(G)
  BY <1>5, Longer, LenProperties
<1> HIDE DEF all
<1> SUFFICES ASSUME NEW i \in DOMAIN all, NEW j \in DOMAIN all, Successive(all, i, j),
                    OfEvents(all[i], all[j]), all[j].action # "context_checkpoint"
             PROVE  \E t \in Sessions : /\ Limits[t].id = all[j].policy
                                        /\ ~(all[j].source < all[i].source + Limits[t].interval)
  BY DEF Spaced, all, G
<1>7. i \in Nat /\ j \in Nat /\ i < j /\ SameAction(all[i], all[j])
  BY <1>6 DEF Successive
<1>8. CASE j <= Len(rows)
  <2>1. i \in DOMAIN rows /\ j \in DOMAIN rows /\ all[i] = rows[i] /\ all[j] = rows[j]
    BY <1>6, <1>7, <1>8
  <2>2. Successive(rows, i, j)
    <3>1. ASSUME NEW k \in DOMAIN rows, i < k, k < j PROVE ~SameAction(rows[k], rows[j])
      BY <1>6, <2>1, <3>1 DEF Successive
    <3> QED BY <1>7, <2>1, <3>1 DEF Successive
  <2> QED BY <2>1, <2>2 DEF Spaced
<1>9. CASE j > Len(rows)
  <2>1. PICK g \in DOMAIN G : g = j - Len(rows) /\ all[j] = G[g]
    BY <1>6, <1>9
  <2>2. /\ all[j].branch = b /\ all[j].action = applied[g]
        /\ all[j].policy = Limits[s].id /\ all[j].source = source
    BY <1>2, <2>1
  <2>3. i <= Len(rows)
    <3> SUFFICES ASSUME i > Len(rows) PROVE FALSE
      BY <1>6, <1>7
    <3>1. PICK h \in DOMAIN G : h = i - Len(rows) /\ all[i] = G[h]
      BY <1>6
    <3>2. applied[h] = applied[g]
      BY <1>2, <1>7, <2>2, <3>1 DEF SameAction
    <3>3. h = g
      BY <1>2, <3>2, AppliedOnce DEF Once
    <3> QED BY <1>6, <1>7, <2>1, <3>1, <3>3
  <2>4. i \in DOMAIN rows /\ all[i] = rows[i]
    BY <1>6, <1>7, <2>3
  <2> DEFINE mine == LastRows(rows, b, Limits[s], applied[g])
  <2>5. i \in mine
    BY <1>7, <2>2, <2>4 DEF SameAction, LastRows
  <2>6. ASSUME NEW k \in mine PROVE k <= i
    <3>1. k \in DOMAIN rows /\ k \in Nat /\ all[k] = rows[k] /\ k < j /\ k \in DOMAIN all
      BY <1>6, <1>9, <2>6 DEF LastRows
    <3>2. SameAction(all[k], all[j])
      BY <2>2, <2>6, <3>1 DEF LastRows, SameAction
    <3> QED BY <1>7, <3>1, <3>2 DEF Successive
  <2>7. rows[i].source > 0 /\ source > 0
    BY <2>2, <2>4 DEF OfEvents
  <2>8. ~RateLimited(rows, b, Limits[s], applied[g], now)
    BY <1>2, AppliedInTime
  <2>9. ~(now < rows[i].source + Limits[s].interval)
    <3> HIDE DEF mine
    <3>1. PICK policy, action : policy = Limits[s] /\ action = applied[g]
      OBVIOUS
    <3>2. i \in LastRows(rows, b, policy, action) /\
            \A k \in LastRows(rows, b, policy, action) : k <= i
      BY <2>5, <2>6, <3>1 DEF mine
    <3>3. ~RateLimited(rows, b, policy, action, now)
      BY <2>8, <3>1
    <3> QED BY <2>7, <3>1, <3>2, <3>3, NewestLimits
  <2>10. source = now
    BY <2>7
  <2> QED BY <2>2, <2>4, <2>9, <2>10
<1> QED BY <1>6, <1>7, <1>8, <1>9

LEMMA WarningKeepsSpaced ==
  ASSUME NEW S, actions \in Seq(S), Spaced(actions), NEW d
  PROVE  Spaced(ActionsWarned(d))
<1> DEFINE r == ActionRow(CheckpointReceipt(d), BranchFor(d), "context_checkpoint",
                          Limits[d.session].id, Source(d))
<1>1. CASE ~Warning(d) \/ CheckpointOwned(d)
  BY <1>1 DEF ActionsWarned
<1>2. CASE Warning(d) /\ ~CheckpointOwned(d)
  <2>1. ActionsWarned(d) = Append(actions, r)
    BY <1>2 DEF ActionsWarned
  <2>2. r.action = "context_checkpoint"
    BY DEF ActionRow
  <2> DEFINE T == S \cup {r}
  <2>3. actions \in Seq(T) /\ r \in T
    BY SeqDef
  <2> HIDE DEF r, T
  <2>4. PICK rows, more, n : rows = actions /\ more = Append(actions, r) /\ n = Len(actions)
    OBVIOUS
  <2>5. /\ n \in Nat /\ DOMAIN rows = 1..n /\ DOMAIN more = 1..(n + 1) /\ Spaced(rows)
        /\ \A i \in 1..n : more[i] = rows[i]
        /\ more[n + 1] = r
    BY <2>3, <2>4, AppendProperties, LenProperties
  <2>6. ASSUME NEW i \in DOMAIN more, NEW j \in DOMAIN more, Successive(more, i, j),
               OfEvents(more[i], more[j]), more[j].action # "context_checkpoint"
        PROVE  \E s \in Sessions : /\ Limits[s].id = more[j].policy
                                   /\ ~(more[j].source < more[i].source + Limits[s].interval)
    <3>1. j # n + 1
      BY <2>2, <2>5, <2>6
    <3>2. i \in DOMAIN rows /\ j \in DOMAIN rows /\ more[i] = rows[i] /\ more[j] = rows[j]
      BY <2>5, <2>6, <3>1 DEF Successive
    <3>3. Successive(rows, i, j)
      BY <2>5, <2>6, <3>2 DEF Successive
    <3> QED BY <2>5, <2>6, <3>2, <3>3 DEF Spaced
  <2>7. Spaced(more)
    BY <2>6 DEF Spaced
  <2> QED BY <2>1, <2>4, <2>7
<1> QED BY <1>1, <1>2

ActionsSpaced == Spaced(actions)

\* Two successive actions of one kind, branch and policy that deliveries
\* brought about are at least the interval of the policy apart, also when the
\* later one is a retry of an old delivery or comes from another session.  One
\* applied by hand in between starts afresh: it has no event to count from.
\* (governor.py, evaluate_and_apply; storage.py, last_governor_action_seq.)
THEOREM ActionsKeepTheInterval == Spec => []ActionsSpaced
<1>1. HookInit => ActionsSpaced
  BY DEF HookInit, ActionsSpaced, Spaced
<1>2. ActionsSpaced /\ DeliveryInv /\ [Next]_vars => ActionsSpaced'
  <2> SUFFICES ASSUME ActionsSpaced, DeliveryInv, [Next]_vars PROVE ActionsSpaced'
    OBVIOUS
  <2>1. PICK S : actions \in Seq(S)
    BY DEF DeliveryInv, ActionTypes
  <2>2. ASSUME NEW d \in Deliveries, Deliver(d) PROVE ActionsSpaced'
    <3>1. PICK applied, context, tailDue :
            /\ applied = AppliedActions(ActionsWarned(d), BranchFor(d), d.session, context,
                                        tailDue, Source(d))
            /\ actions' = ActionsWarned(d) \o
                            GovernorRows(applied, BranchFor(d), d.session, context, Source(d))
      BY <2>2 DEF Deliver
    <3>2. Spaced(ActionsWarned(d)) /\ \E T : ActionsWarned(d) \in Seq(T)
      <4>1. \E T : ActionsWarned(d) \in Seq(T)
        BY <2>1, SomeRows
      <4> QED BY <2>1, <4>1, WarningKeepsSpaced DEF ActionsSpaced
    <3>3. PICK rows, T, source : /\ rows = ActionsWarned(d) /\ source = Source(d)
                                 /\ Spaced(rows) /\ rows \in Seq(T)
      BY <3>2
    <3>a. d.session \in Sessions
      BY Deliverable DEF DeliveryInv
    <3>4. PICK s \in Sessions, b \in {BranchFor(d)} : s = d.session
      BY <3>a
    <3>5. /\ applied = AppliedActions(rows, b, s, context, tailDue, source)
          /\ actions' = rows \o GovernorRows(applied, b, s, context, source)
      BY <3>1, <3>3, <3>4
    <3>6. Spaced(rows \o GovernorRows(applied, b, s, context, source))
      BY <3>3, <3>5, GovernorKeepsSpaced
    <3> QED BY <3>5, <3>6 DEF ActionsSpaced, Spaced, Successive
  <2>3. ASSUME NEW s \in Sessions, EvaluateByHand(s) PROVE ActionsSpaced'
    <3>1. PICK b, context, tailDue, now, applied :
            /\ applied = AppliedActions(actions, b, s, context, tailDue, now)
            /\ actions' = actions \o GovernorRows(applied, b, s, context, 0)
      BY <2>3 DEF EvaluateByHand
    <3>2. PICK rows : rows = actions /\ Spaced(rows) /\ rows \in Seq(S)
      BY <2>1 DEF ActionsSpaced
    <3>3. /\ applied = AppliedActions(rows, b, s, context, tailDue, now)
          /\ actions' = rows \o GovernorRows(applied, b, s, context, 0)
      BY <3>1, <3>2
    <3>4. Spaced(rows \o GovernorRows(applied, b, s, context, 0))
      BY <3>2, <3>3, GovernorKeepsSpaced
    <3> QED BY <3>3, <3>4 DEF ActionsSpaced, Spaced, Successive
  <2>4. ASSUME actions' = actions PROVE ActionsSpaced'
    BY <2>4 DEF ActionsSpaced, Spaced, Successive
  <2>5. StartedByHand \/ (\E d \in Deliveries : Refuse(d)) \/ UNCHANGED vars => actions' = actions
    BY DEF StartedByHand, Refuse, vars, hookVars
  <2> QED BY <2>2, <2>3, <2>4, <2>5 DEF Next
<1> QED BY <1>1, <1>2, DeliveryInvHolds, PTL DEF Spec

-----------------------------------------------------------------------------
(* The promise.                                                              *)

\* The native events of a session.
Of(s) == {n \in DOMAIN log : log[n].session = s /\ log[n].origin # "derived"}
StoredNow == [s \in Sessions |-> Cardinality(Of(s))]
ContextNow == [s \in Sessions |-> Total(counters, s)]
WarnedNow == {s \in Sessions : \E i \in DOMAIN actions : actions[i].receipt = CheckpointOf(s)}

\* What a longer log stores: the native events that it grew by, for their
\* session, and for every other what it stored before.
LEMMA StoredGrows ==
  ASSUME log \in Seq(LogRow), NEW s \in Sessions, NEW m, NEW k, Grown(log, log', m, k, s)
  PROVE  /\ Cardinality(Of(s)') = Cardinality(Of(s)) + k
         /\ \A r \in Sessions : r # s \/ k = 0 => Of(r)' = Of(r)
<1>1. /\ DOMAIN log = 1..Len(log) /\ DOMAIN log' = 1..Len(log')
      /\ Len(log) \in Nat /\ Len(log') \in Nat /\ m \in Nat /\ k \in Nat
      /\ Len(log) <= m /\ m + k <= Len(log')
  BY LenProperties DEF Grown
<1>2. /\ \A n \in 1..Len(log) : log'[n] = log[n]
      /\ \A n \in 1..Len(log') : n > Len(log) =>
           IF m < n /\ n <= m + k
           THEN log'[n].session = s /\ log'[n].origin # "derived"
           ELSE log'[n].session = None \/ log'[n].origin = "derived"
  BY DEF Grown, HostRow, AsideRow
<1>3. \A r \in Sessions : r # None
  BY NamesDistinct
<1>4. ASSUME NEW r \in Sessions, r # s \/ k = 0 PROVE Of(r)' = Of(r)
  <2>1. ASSUME NEW n \in 1..Len(log'), n > Len(log)
        PROVE  ~(log'[n].session = r /\ log'[n].origin # "derived")
    <3>1. CASE m < n /\ n <= m + k
      BY <1>1, <1>2, <1>4, <2>1, <3>1
    <3>2. CASE ~(m < n /\ n <= m + k)
      BY <1>2, <1>3, <2>1, <3>2
    <3> QED BY <3>1, <3>2
  <2> QED BY <1>1, <1>2, <2>1 DEF Of
<1> DEFINE new == (m + 1)..(m + k)
<1>5. Of(s)' = Of(s) \cup new /\ Of(s) \cap new = {} /\ Of(s) \subseteq 1..m
  <2>1. ASSUME NEW n \in 1..Len(log'), n > Len(log)
        PROVE  log'[n].session = s /\ log'[n].origin # "derived" <=> n \in new
    <3>1. CASE m < n /\ n <= m + k
      BY <1>1, <1>2, <2>1, <3>1
    <3>2. CASE ~(m < n /\ n <= m + k)
      BY <1>1, <1>2, <1>3, <2>1, <3>2
    <3> QED BY <3>1, <3>2
  <2>2. Of(s) \cap new = {} /\ Of(s) \subseteq 1..m
    BY <1>1 DEF Of
  <2>3. ASSUME NEW n PROVE n \in Of(s)' <=> n \in Of(s) \cup new
    <3>1. CASE n \in 1..Len(log)
      BY <1>1, <1>2, <3>1 DEF Of
    <3>2. CASE n \in 1..Len(log') /\ n > Len(log)
      BY <1>1, <2>1, <3>2 DEF Of
    <3>3. CASE n \notin 1..Len(log')
      <4>1. n \notin Of(s)' /\ n \notin Of(s) /\ n \notin new
        BY <1>1, <3>3 DEF Of
      <4> QED BY <4>1
    <3> QED BY <1>1, <3>1, <3>2, <3>3
  <2> QED BY <2>2, <2>3
<1>6. IsFiniteSet(new) /\ Cardinality(new) = k
  BY <1>1, FS_Interval
<1>7. IsFiniteSet(Of(s)) /\ Cardinality(Of(s)) \in Nat
  <2>1. IsFiniteSet(1..m)
    BY <1>1, FS_Interval
  <2> QED BY <1>5, <2>1, FS_Subset, FS_CardinalityType
<1> HIDE DEF new
<1>8. Cardinality(Of(s) \cup new) = Cardinality(Of(s)) + Cardinality(new) - Cardinality({})
  BY <1>5, <1>6, <1>7, FS_Union
<1>9. Cardinality({}) = 0
  BY FS_EmptySet
<1> QED BY <1>1, <1>4, <1>5, <1>6, <1>7, <1>8, <1>9

\* A step of the promise, in the terms of the deliveries.
MayWarnNow(s) ==
  /\ WarnedNow' \in {WarnedNow, WarnedNow \cup {s}}
  /\ s \in WarnedNow' \ WarnedNow => ContextNow'[s] >= SnapshotAt(Limits[s])
CapturedNow(d) ==
  /\ Receipt(d) \notin DOMAIN receipts
  /\ DOMAIN receipts' = DOMAIN receipts \cup {Receipt(d)}
  /\ StoredNow' = [StoredNow EXCEPT ![d.session] = @ + SizeOf(d.kind)]
  /\ ContextNow' = [ContextNow EXCEPT ![d.session] = @ + TokensOf(d)]
  /\ MayWarnNow(d.session)
Promised ==
  \/ \E d \in Deliveries : CapturedNow(d)
  \/ \E s \in Sessions : /\ UNCHANGED <<DOMAIN receipts, StoredNow, ContextNow>>
                          /\ MayWarnNow(s)

Unmoved == UNCHANGED <<DOMAIN receipts, StoredNow, ContextNow, WarnedNow>>

LEMMA WarnedGrows ==
  ASSUME NEW d \in Deliveries, d.session \in Sessions,
         \A i \in DOMAIN actions : i \in DOMAIN actions' /\ actions'[i] = actions[i],
         \A i \in DOMAIN actions', s \in Sessions :
           actions'[i].receipt = CheckpointOf(s) =>
             i \in DOMAIN actions \/ (s = d.session /\ Warning(d)),
         Warning(d) => Total(counters, d.session)' >= SnapshotAt(Limits[d.session])
  PROVE  MayWarnNow(d.session)
<1>1. WarnedNow \subseteq WarnedNow'
  BY DEF WarnedNow, CheckpointOf
<1>2. \A s \in WarnedNow' : s \in WarnedNow \/ (s = d.session /\ Warning(d))
  BY DEF WarnedNow, CheckpointOf
<1>3. ContextNow'[d.session] = Total(counters, d.session)'
  BY DEF ContextNow
<1> QED BY <1>1, <1>2, <1>3 DEF MayWarnNow

LEMMA DeliveryKeepsPromise ==
  ASSUME DeliveryInv, DeliveryInv', NEW d \in Deliveries, Deliver(d)
  PROVE  Promised
<1> DEFINE s == d.session
<1>1. /\ LogTypes /\ ReceiptTypes /\ CounterTypes /\ CountersGrow /\ ActionTypes
      /\ LogTypes' /\ CounterTypes' /\ CountersGrow'
  BY DEF DeliveryInv
<1>2. /\ \E m : Grown(log, log', m, NativeOf(d), d.session)
      /\ Len(log') \in Nat /\ Len(Captured(d)) <= Len(log')
      /\ counters' = CountersAfter(d) /\ receipts' = ReceiptsAfter(d)
      /\ \E G : GovernorAdds(G) /\ actions' = ActionsWarned(d) \o G
  BY <1>1, Delivered
<1>3. s \in Sessions /\ DOMAIN receipts' = DOMAIN receipts \cup {Receipt(d)}
  BY <1>1, <1>2, Deliverable, ReceiptsStep
<1>4. PICK k : k = NativeOf(d)
  OBVIOUS
<1>5. /\ Cardinality(Of(s)') = Cardinality(Of(s)) + k
      /\ \A r \in Sessions : r # s \/ k = 0 => Of(r)' = Of(r)
  <2>1. PICK m : Grown(log, log', m, k, s)
    BY <1>2, <1>4
  <2>2. log \in Seq(LogRow)
    BY <1>1 DEF LogTypes
  <2> HIDE DEF s
  <2> QED BY <1>3, <2>1, <2>2, StoredGrows
<1>6. \A r \in Sessions : r # s \/ Repeated(d) => Of(r)' = Of(r)
  BY <1>4, <1>5 DEF NativeOf
<1>7. ~Repeated(d) => Cardinality(Of(s)') = Cardinality(Of(s)) + SizeOf(d.kind)
  BY <1>4, <1>5 DEF NativeOf
<1>8. /\ \A r \in Sessions : r # s \/ Repeated(d) => Total(counters, r)' = Total(counters, r)
      /\ d.kind \in Counted =>
           \E i \in DOMAIN counters' : /\ counters'[i].receipt = Receipt(d)
                                       /\ Cumulative(d) = counters'[i].total
  BY <1>1, <1>2, <1>3, CountersStep
<1>9. ~Repeated(d) => Total(counters, s)' = Total(counters, s) + TokensOf(d)
  BY <1>1, <1>2, <1>3, CountersGrowStep
<1>10. Warning(d) => Total(counters, s)' >= SnapshotAt(Limits[s])
  <2>1. SnapshotAt(Limits[s]) \in Nat
    BY <1>3, LimitsAssumption, ThresholdTypes
  <2>2. Warning(d) => d.kind \in Counted
    BY DEF Warning
  <2> QED BY <1>1, <1>8, <2>1, <2>2, WarnedInTotal
<1>11. MayWarnNow(s)
  <2>1. /\ \A i \in DOMAIN actions : i \in DOMAIN actions' /\ actions'[i] = actions[i]
        /\ \A i \in DOMAIN actions', r \in Sessions :
             actions'[i].receipt = CheckpointOf(r) =>
               i \in DOMAIN actions \/ (r = s /\ Warning(d))
    BY <1>1, <1>2, ActionsStep
  <2> QED BY <1>3, <1>10, <2>1, WarnedGrows
<1> HIDE DEF s
<1>12. CASE Repeated(d)
  <2>1. StoredNow' = StoredNow
    BY <1>6, <1>12 DEF StoredNow
  <2>2. ContextNow' = ContextNow
    BY <1>8, <1>12 DEF ContextNow
  <2>3. DOMAIN receipts' = DOMAIN receipts
    BY <1>3, <1>12 DEF Repeated
  <2> QED BY <1>3, <1>11, <2>1, <2>2, <2>3 DEF Promised
<1>13. CASE ~Repeated(d)
  <2>1. StoredNow' = [StoredNow EXCEPT ![s] = @ + SizeOf(d.kind)]
    BY <1>3, <1>6, <1>7, <1>13 DEF StoredNow
  <2>2. ContextNow' = [ContextNow EXCEPT ![s] = @ + TokensOf(d)]
    BY <1>3, <1>8, <1>9, <1>13 DEF ContextNow
  <2>3. Receipt(d) \notin DOMAIN receipts
    BY <1>13 DEF Repeated
  <2>4. CapturedNow(d)
    BY <1>3, <1>11, <2>1, <2>2, <2>3 DEF CapturedNow, s
  <2> QED BY <2>4 DEF Promised
<1> QED BY <1>12, <1>13

LEMMA StoredKept ==
  ASSUME LogTypes, \A s : Grown(log, log', Len(log), 0, s)
  PROVE  StoredNow' = StoredNow
<1>1. ASSUME NEW CONSTANT s \in Sessions PROVE Of(s)' = Of(s)
  <2>1. PICK m, k : k = 0 /\ Grown(log, log', m, k, s)
    OBVIOUS
  <2>2. log \in Seq(LogRow)
    BY DEF LogTypes
  <2> QED BY <2>1, <2>2, StoredGrows
<1> QED BY <1>1 DEF StoredNow

\* What no session is stored, counted or warned by.
LEMMA OthersStutter ==
  ASSUME DeliveryInv, DeliveryInv',
         \/ StartedByHand
         \/ \E d \in Deliveries : Refuse(d)
         \/ \E s \in Sessions : EvaluateByHand(s)
         \/ UNCHANGED vars
  PROVE  Unmoved
<1>1. /\ LogTypes /\ DerivedTypes /\ ActionTypes /\ LogTypes'
  BY DEF DeliveryInv
<1>2. CASE StartedByHand
  <2>1. /\ \A s : Grown(log, log', Len(log), 0, s)
        /\ UNCHANGED <<receipts, counters, actions>>
    BY <1>1, <1>2, ByHand DEF hookVars
  <2>2. StoredNow' = StoredNow
    BY <1>1, <2>1, StoredKept
  <2>3. ContextNow' = ContextNow /\ WarnedNow' = WarnedNow
    BY <2>1 DEF ContextNow, WarnedNow, Total, CheckpointOf
  <2> QED BY <2>1, <2>2, <2>3 DEF Unmoved
<1>3. ASSUME UNCHANGED <<log, receipts, counters, actions>> PROVE Unmoved
  BY <1>3 DEF Unmoved, StoredNow, Of, ContextNow, Total, WarnedNow, CheckpointOf
<1>4. ASSUME NEW s \in Sessions, EvaluateByHand(s) PROVE Unmoved
  <2>1. /\ \A t : Grown(log, log', Len(log), 0, t)
        /\ UNCHANGED <<receipts, counters>>
        /\ \E G : GovernorAdds(G) /\ actions' = actions \o G
    BY <1>1, <1>4, Evaluated
  <2>2. PICK S, G : actions \in Seq(S) /\ GovernorAdds(G) /\ actions' = actions \o G
    BY <1>1, <2>1 DEF ActionTypes
  <2>3. /\ \A i \in DOMAIN actions : i \in DOMAIN actions' /\ actions'[i] = actions[i]
        /\ \A i \in DOMAIN actions' : i \in DOMAIN actions \/
             \A r \in Sessions : actions'[i].receipt # CheckpointOf(r)
    BY <2>2, GovernorOnlyAdds
  <2>4. WarnedNow' = WarnedNow
    BY <2>3 DEF WarnedNow, CheckpointOf
  <2>5. StoredNow' = StoredNow /\ ContextNow' = ContextNow
    BY <1>1, <2>1, StoredKept DEF ContextNow, Total
  <2> QED BY <2>1, <2>4, <2>5 DEF Unmoved
<1>5. ASSUME NEW d \in Deliveries, Refuse(d) PROVE Unmoved
  BY <1>3, <1>5 DEF Refuse, wsVars
<1>6. CASE UNCHANGED vars
  BY <1>3, <1>6 DEF vars, wsVars, hookVars
<1> QED BY <1>2, <1>4, <1>5, <1>6

\* The deliveries keep their promise: a delivery is captured once; the native
\* events in the log and the context of its session then grow by exactly what it
\* is, and nothing of another session does; a retry changes neither; and no
\* session is warned before its context has reached the threshold.  The memories,
\* summaries and lines that are derived from events lie beside them, some in the
\* same session, and count for nothing.  (hooks.py, process_hook.)
THEOREM DeliveriesKeepThePromise == Spec => PromiseSpec
<1>1. HookInit => Promise!Init
  BY FS_EmptySet DEF HookInit, WsInit, Promise!Init, Total
<1>2. ASSUME NEW d \in Deliveries
      PROVE  Receipt(d) \in Names /\ Named(Receipt(d)) = d
  BY ReceiptsIdentify DEF Names, Named
<1>3. ASSUME NEW s, MayWarnNow(s) PROVE Promise!MayWarn(s)
  BY <1>3 DEF MayWarnNow, Promise!MayWarn, ContextNow, WarnedNow, CheckpointOf
<1>4. ASSUME NEW d \in Deliveries, CapturedNow(d) PROVE Promise!Capture(Receipt(d))
  BY <1>2, <1>3, <1>4 DEF CapturedNow, Promise!Capture, StoredNow, Of, ContextNow
<1>5. ASSUME Promised PROVE Promise!Next
  BY <1>2, <1>3, <1>4, <1>5 DEF Promised, Promise!Next, Promise!Warn, StoredNow, Of, ContextNow
<1>6. ASSUME Unmoved PROVE UNCHANGED Promise!vars
  BY <1>6 DEF Unmoved, Promise!vars, StoredNow, Of, ContextNow, WarnedNow, CheckpointOf
<1>7. DeliveryInv /\ DeliveryInv' /\ [Next]_vars => [Promise!Next]_(Promise!vars)
  <2> SUFFICES ASSUME DeliveryInv, DeliveryInv', [Next]_vars PROVE Promised \/ Unmoved
    BY <1>5, <1>6
  <2> QED BY DeliveryKeepsPromise, OthersStutter DEF Next
<1> QED BY <1>1, <1>7, DeliveryInvHolds, PTL DEF Spec, PromiseSpec, Promise!Spec
=============================================================================
