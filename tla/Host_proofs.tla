----------------------------- MODULE Host_proofs -----------------------------
(***************************************************************************)
(* Proofs about what a host is given: the packet of a session, for any log,  *)
(* any sizes of its parts and any budget; the removal of an installation,    *)
(* for any projects, hosts and tools; and the hook file, for any contents,   *)
(* failures and crashes.                                                     *)
(*                                                                           *)
(* A packet is cut one section after the other, and the restated contract    *)
(* is added at the end.  Tokens round up, so the cost of two parts together  *)
(* is at most the sum of their costs: what was set aside for the contract    *)
(* is enough wherever the other cuts fell.                                   *)
(*                                                                           *)
(* A transcript is cut between groups.  No two outputs are paired with one   *)
(* call, and an output is in the group of its call and in no other, so every *)
(* choice of groups has a call for each output.  In a body that is folded,   *)
(* replacing a text leaves none of it and makes no new occurrence of another *)
(* one: so a pointer leads to a body in which nothing could be folded.       *)
(***************************************************************************)
EXTENDS PromptPacket, HookFile, Setup, FiniteSetTheorems, SequenceTheorems,
        WellFoundedInduction, TLAPS

-----------------------------------------------------------------------------
(* Induction over numbers, and recursion over them.                        *)

\* A non-empty set of numbers up to a bound has a greatest element.
LEMMA MaxExists ==
    ASSUME NEW k \in Nat, NEW T \in SUBSET (0..k), T # {}
    PROVE  \E x \in T : \A y \in T : y <= x
<1> DEFINE Above(x) == {y \in 0..k : x < y}
           A == {Above(x) : x \in T}
           R == StrictSubsetOrdering(0..k)
<1>1. IsFiniteSet(0..k)
  BY FS_Interval
<1>2. IsWellFoundedOn(R, SUBSET (0..k))
  BY <1>1, FS_StrictSubsetOrderingWellFounded, FS_FiniteSubsetsOfFinite, Zenon
<1>3. A \subseteq SUBSET (0..k) /\ A # {}
  OBVIOUS
<1>4. \E a \in A : \A b \in A : ~(<<b, a>> \in R)
  <2> HIDE DEF A, R
  <2> QED BY <1>2, <1>3, WFMin, Zenon
<1>5. PICK x \in T : \A y \in T : ~(<<Above(y), Above(x)>> \in R)
  BY <1>4
<1>6. ASSUME NEW y \in T, ~(y <= x) PROVE FALSE
  <2>1. Above(y) \subseteq Above(x)
    BY <1>6
  <2>2. y \in Above(x) /\ y \notin Above(y)
    BY <1>6
  <2>3. <<Above(y), Above(x)>> \in R
    <3>1. Above(y) # Above(x)
      BY <2>2
    <3> HIDE DEF Above
    <3>2. Above(y) \in SUBSET (0..k) /\ Above(x) \in SUBSET (0..k)
      BY DEF Above
    <3> QED BY <3>1, <3>2, <2>1 DEF StrictSubsetOrdering
  <2> QED BY <2>3, <1>5
<1> QED BY <1>6

\* Strong induction, on a set instead of a formula.
LEMMA Upwards ==
    ASSUME NEW k \in Nat, NEW G \in SUBSET (0..k),
           \A n \in 0..k : 0..(n - 1) \subseteq G => n \in G
    PROVE  0..k \subseteq G
<1> DEFINE T == {n \in 0..k : 0..n \subseteq G}
<1>1. 0 \in T
  BY 0..(0 - 1) = {} /\ 0..0 = {0}
<1>2. PICK n \in T : \A j \in T : j <= n
  <2>1. T \in SUBSET (0..k) /\ T # {}
    BY <1>1
  <2> HIDE DEF T
  <2> QED BY <2>1, MaxExists
<1>3. CASE n < k
  <2>1. n + 1 \in 0..k /\ 0..((n + 1) - 1) \subseteq G
    BY <1>3
  <2>2. 0..(n + 1) \subseteq G
    BY <2>1
  <2>3. n + 1 \in T /\ ~(n + 1 <= n)
    BY <2>1, <2>2
  <2> QED BY <2>3, <1>2
<1>4. CASE n = k
  BY <1>4
<1> QED BY <1>3, <1>4

\* A functional on sequences of values is causal when the value at a number depends on
\* the values at smaller numbers only.
Causal(F, k, X) ==
  /\ F \in [[0..k -> X] -> [0..k -> X]]
  /\ \A f, g \in [0..k -> X], n \in 0..k :
       (\A m \in 0..(n - 1) : f[m] = g[m]) => F[f][n] = F[g][n]
FixedPoint(f, F, k, X) == f \in [0..k -> X] /\ f = F[f]

\* So what such a functional defines exists.
LEMMA FixedPointExists ==
  ASSUME NEW k \in Nat, NEW X, X # {}, NEW F, Causal(F, k, X)
  PROVE  \E f : FixedPoint(f, F, k, X)
<1> DEFINE Fs == [0..k -> X]
           G == {n \in 0..k : \E f \in Fs : \A i \in 0..n : f[i] = F[f][i]}
<1>0. F \in [Fs -> Fs] /\ \A f, g \in Fs, n \in 0..k :
        (\A m \in 0..(n - 1) : f[m] = g[m]) => F[f][n] = F[g][n]
  BY DEF Causal
<1>1. ASSUME NEW n \in 0..k, 0..(n - 1) \subseteq G PROVE n \in G
  <2>1. \E f \in Fs : \A i \in 0..(n - 1) : f[i] = F[f][i]
    <3>1. CASE n = 0
      <4>1. PICK x \in X : TRUE
        OBVIOUS
      <4>2. [i \in 0..k |-> x] \in Fs /\ 0..(0 - 1) = {}
        OBVIOUS
      <4> QED BY <3>1, <4>2
    <3>2. CASE n # 0
      <4>1. n - 1 \in 0..(n - 1)
        BY <3>2
      <4>2. n - 1 \in G
        <5> HIDE DEF G
        <5> QED BY <1>1, <4>1
      <4> QED BY <4>2
    <3> QED BY <3>1, <3>2
  <2>2. PICK f \in Fs : \A i \in 0..(n - 1) : f[i] = F[f][i]
    BY <2>1
  <2> DEFINE v == F[f][n]
             g == [i \in 0..k |-> IF i = n THEN v ELSE f[i]]
  <2>3. F[f] \in Fs /\ v \in X
    BY <1>0, <2>2
  <2>4. g \in Fs /\ g[n] = v /\ \A m \in 0..(n - 1) : g[m] = f[m]
    <3> HIDE DEF v
    <3> QED BY <2>3
  <2> HIDE DEF g
  <2>5. ASSUME NEW i \in 0..n PROVE g[i] = F[g][i]
    <3>1. i \in 0..k /\ \A m \in 0..(i - 1) : m \in 0..(n - 1)
      OBVIOUS
    <3>2. F[g][i] = F[f][i]
      BY <1>0, <2>2, <2>4, <3>1
    <3>3. i = n \/ i \in 0..(n - 1)
      OBVIOUS
    <3> QED BY <2>2, <2>4, <3>2, <3>3 DEF v
  <2> QED BY <2>4, <2>5
<1>2. k \in G
  <2>1. G \in SUBSET (0..k)
    OBVIOUS
  <2> HIDE DEF G
  <2>2. 0..k \subseteq G
    BY <1>1, <2>1, Upwards
  <2> QED BY <2>2
<1>3. PICK f \in Fs : \A i \in 0..k : f[i] = F[f][i]
  BY <1>2
<1>4. F[f] \in Fs /\ f = F[f]
  BY <1>0, <1>3
<1> QED BY <1>4 DEF FixedPoint

LEMMA OneByOne ==
  ASSUME NEW k \in Nat, NEW G, 0 \in G, \A n \in 1..k : n - 1 \in G => n \in G
  PROVE  \A n \in 0..k : n \in G
<1> DEFINE H == G \cap 0..k
<1>1. ASSUME NEW n \in 0..k, 0..(n - 1) \subseteq H PROVE n \in H
  <2>1. n # 0 => n \in 1..k /\ n - 1 \in 0..(n - 1)
    BY <1>1
  <2> QED BY <1>1, <2>1
<1>2. H \in SUBSET (0..k)
  OBVIOUS
<1>3. 0..k \subseteq H
  <2> HIDE DEF H
  <2> QED BY <1>1, <1>2, Upwards
<1> QED BY <1>3

-----------------------------------------------------------------------------
(* Packets.                                                                *)

\* What a packet is cut from: Shape gives such a record in every state.
IsShape(s) ==
  /\ s.blocks \in Nat
  /\ s.section \in Seq(Nat) /\ s.entries \in Seq(Nat)

LEMMA SizesAreNumbers ==
  /\ HeadBytes \in Nat /\ DigestHead \in Nat /\ IndexHead \in Nat /\ HelpBytes \in Nat
  /\ LineBytes \in Nat /\ MaxReserve \in Nat
  BY Sizes

LEMMA RoundingUp ==
  ASSUME NEW a \in Nat, NEW b \in Nat
  PROVE  /\ Tokens(a) \in Nat
         /\ Tokens(a + b) <= Tokens(a) + Tokens(b)
         /\ Tokens(a) = 0 => a = 0
  BY DEF Tokens

\* Counting the parts before the first that does not fit finds the last one that does.
LEMMA LongestFits ==
  ASSUME NEW n \in Nat, NEW fits
  PROVE  /\ Longest(n, fits) \in 0..n
         /\ Longest(n, fits) > 0 => Longest(n, fits) \in fits
         /\ n > 0 /\ 1 \in fits => Longest(n, fits) > 0
<1> DEFINE K == {k \in 1..n : 1..k \subseteq fits}
           c == Cardinality(K)
<1>1. IsFiniteSet(1..n) /\ Cardinality(1..n) = n
  BY FS_Interval
<1>2. IsFiniteSet(K) /\ c \in Nat /\ c <= n
  BY <1>1, FS_Subset, FS_CardinalityType
<1>3. ASSUME c > 0, c \notin fits PROVE FALSE
  <2> HIDE DEF c
  <2>1. K \subseteq 1..(c - 1)
    <3> SUFFICES ASSUME NEW k \in K PROVE k < c
      BY <1>2
    <3>1. k >= c => c \in 1..k
      BY <1>2, <1>3
    <3> QED
      BY <1>2, <1>3, <3>1
  <2>2. IsFiniteSet(1..(c - 1)) /\ Cardinality(1..(c - 1)) = c - 1
    <3>1. 1 \in Int /\ c - 1 \in Int /\ ~(1 > c - 1 /\ c - 1 # 0)
      BY <1>2, <1>3
    <3> QED
      BY <3>1, <1>2, <1>3, FS_Interval
  <2>3. c <= c - 1
    <3> DEFINE m == c - 1
    <3>1. K \in SUBSET (1..m) /\ IsFiniteSet(1..m) /\ Cardinality(1..m) = m
      BY <2>1, <2>2
    <3> HIDE DEF m, K
    <3>2. Cardinality(K) <= Cardinality(1..m)
      BY <3>1, FS_Subset
    <3> QED
      BY <3>1, <3>2 DEF c, m
  <2> QED
    BY <1>2, <2>3
<1>4. ASSUME n > 0, 1 \in fits PROVE c > 0
  <2>1. 1 \in K
    BY <1>4
  <2> QED
    BY <2>1, <1>2, FS_EmptySet
<1> QED
  BY <1>2, <1>3, <1>4 DEF Longest

\* A section that is cut to what is left, leaves no more used than that.
LEMMA CutFits ==
  ASSUME NEW sizes \in Seq(Nat), NEW bytes \in Nat, NEW budget \in Int, Tokens(bytes) <= budget
  PROVE  LET k == Fitting(sizes, bytes, budget)
         IN /\ k \in 0..Len(sizes)
            /\ With(bytes, sizes, k) \in Nat
            /\ Tokens(With(bytes, sizes, k)) <= budget
<1> DEFINE fits == {j \in DOMAIN sizes : Tokens(bytes + 2 + sizes[j]) <= budget}
           k == Fitting(sizes, bytes, budget)
<1>1. k \in 0..Len(sizes) /\ (k > 0 => k \in fits)
  BY LongestFits DEF Fitting
<1>2. CASE k = 0
  BY <1>1, <1>2 DEF With
<1>3. CASE k > 0
  BY <1>1, <1>3 DEF With
<1> QED
  BY <1>1, <1>2, <1>3

----------------------------------------------------------------------------
\* Every part of a packet leaves room for the contract that is set aside, and with a
\* query for the share of retrieval: cut after cut.
LEMMA CutsFit ==
  ASSUME NEW s, IsShape(s), NEW budget \in Nat, NEW query \in BOOLEAN, NEW lines \in Nat,
         ~Refused(s, budget)
  PROVE  /\ DigestCost(s, budget) \in Nat /\ DigestBytes(s) \in Nat
         /\ Restated(s, budget) => DigestCost(s, budget) = Tokens(DigestBytes(s))
         /\ Left(s, budget) \in Int /\ Reserve(s, budget, query) \in Nat
         /\ AfterTranscript(s, budget, query) \in Nat
         /\ Tokens(AfterTranscript(s, budget, query)) <= Left(s, budget) - Reserve(s, budget, query)
         /\ AfterIndex(s, budget, query, lines) \in Nat
         /\ Tokens(AfterIndex(s, budget, query, lines)) <= Left(s, budget)
<1> DEFINE left == Left(s, budget)
           reserve == Reserve(s, budget, query)
           active == ActiveBytes(s)
           transcript == AfterTranscript(s, budget, query)
           entries == AfterEntries(s, budget, query)
<1>1. active \in Nat /\ DigestBytes(s) \in Nat /\ Tokens(active) \in Nat /\ Tokens(DigestBytes(s)) \in Nat
  <2>1. active \in Nat /\ DigestBytes(s) \in Nat
    BY SizesAreNumbers DEF IsShape, ActiveBytes, DigestBytes
  <2> QED
    BY <2>1, RoundingUp
<1>2. /\ DigestCost(s, budget) \in Nat
      /\ Restated(s, budget) => DigestCost(s, budget) = Tokens(DigestBytes(s))
  BY <1>1 DEF DigestCost, Restated
<1>3. left \in Int /\ Tokens(active) <= left
  BY <1>1, <1>2 DEF Left, DigestCost, Refused
<1>4. reserve \in Nat /\ Tokens(active) <= left - reserve
  <2>1. (left - Tokens(active)) \div 3 \in Nat /\ (left - Tokens(active)) \div 3 <= left - Tokens(active)
    BY <1>1, <1>3
  <2> QED
    BY <2>1, <1>1, <1>3, SizesAreNumbers DEF Reserve
<1>5. transcript \in Nat /\ Tokens(transcript) <= left - reserve /\ Tokens(transcript) <= left
  <2>1. /\ transcript = With(active, s.section, Fitting(s.section, active, left - reserve))
        /\ s.section \in Seq(Nat)
    BY DEF AfterTranscript, ChosenGroups, IsShape
  <2>2. transcript \in Nat /\ Tokens(transcript) <= left - reserve
    BY <2>1, <1>1, <1>3, <1>4, CutFits
  <2> QED
    BY <2>2, <1>3, <1>4, RoundingUp
<1>6. entries \in Nat /\ Tokens(entries) <= left
  <2>1. CASE query
    <3>1. entries = With(transcript, s.entries, Fitting(s.entries, transcript, left)) /\ s.entries \in Seq(Nat)
      BY <2>1 DEF AfterEntries, ChosenEntries, IsShape
    <3> QED
      BY <3>1, <1>3, <1>5, CutFits
  <2>2. CASE ~query
    BY <2>2, <1>5 DEF AfterEntries, ChosenEntries, With
  <2> QED
    BY <2>1, <2>2
<1>7. /\ AfterIndex(s, budget, query, lines) \in Nat
      /\ Tokens(AfterIndex(s, budget, query, lines)) <= left
  <2> DEFINE helps == Tokens(entries + 2 + IndexHead + HelpBytes) <= left
             top == IndexHead + IF helps THEN HelpBytes ELSE 0
             sizes == [j \in 1..lines |-> top + j * LineBytes]
             k == Fitting(sizes, entries, left)
  <2> HIDE DEF helps
  <2>1. top \in Nat /\ sizes \in Seq(Nat)
    <3>1. top \in Nat
      BY SizesAreNumbers
    <3> HIDE DEF top
    <3>2. \A j \in 1..lines : top + j * LineBytes \in Nat
      BY <3>1, SizesAreNumbers
    <3> QED
      BY <3>1, <3>2
  <2>2. k \in Nat /\ With(entries, sizes, k) \in Nat /\ Tokens(With(entries, sizes, k)) <= left
    BY <2>1, <1>3, <1>6, CutFits
  <2>3. AfterIndex(s, budget, query, lines) =
          IF k = 0 /\ helps THEN entries + 2 + top ELSE With(entries, sizes, k)
    BY DEF AfterIndex, helps
  <2>4. helps => entries + 2 + top \in Nat /\ Tokens(entries + 2 + top) <= left
    BY <1>6, <2>1, SizesAreNumbers DEF helps
  <2> QED
    BY <2>2, <2>3, <2>4
<1> QED
  BY <1>1, <1>2, <1>3, <1>4, <1>5, <1>7

\* A packet that is not refused is within its budget: whatever its sections cost, in
\* whatever way their sizes round, and however many lines the index might have.  It is
\* the last assertion of assemble, and what PacketFits says of the shapes of one state.
THEOREM WithinBudget ==
  ASSUME NEW s, IsShape(s), NEW budget \in Nat, NEW query \in BOOLEAN, NEW lines \in Nat,
         ~Refused(s, budget)
  PROVE  Tokens(PacketBytes(s, budget, query, lines)) <= budget
<1> DEFINE bytes == AfterIndex(s, budget, query, lines)
<1>1. /\ DigestCost(s, budget) \in Nat /\ DigestBytes(s) \in Nat
      /\ Restated(s, budget) => DigestCost(s, budget) = Tokens(DigestBytes(s))
      /\ bytes \in Nat /\ Tokens(bytes) <= budget - DigestCost(s, budget)
  BY CutsFit DEF Left
<1> HIDE DEF bytes
<1>2. /\ Tokens(bytes + DigestBytes(s)) <= Tokens(bytes) + Tokens(DigestBytes(s))
      /\ Tokens(bytes) \in Nat /\ Tokens(DigestBytes(s)) \in Nat
      /\ Tokens(bytes + DigestBytes(s)) \in Nat
  <2>1. bytes + DigestBytes(s) \in Nat
    BY <1>1
  <2> QED
    BY <2>1, <1>1, RoundingUp
<1>3. PacketBytes(s, budget, query, lines) = bytes
      \/ /\ Restated(s, budget)
         /\ PacketBytes(s, budget, query, lines) = bytes + DigestBytes(s)
  BY DEF PacketBytes, bytes
<1> QED
  BY <1>1, <1>2, <1>3

\* With a query, the share that is kept for retrieval has room for a memory of its
\* size, however much transcript there is.  (retrieval_reserve; RoomForMemories says it
\* of the shapes of one state.)
THEOREM RetrievalHasRoom ==
  ASSUME NEW s, IsShape(s), NEW budget \in Nat, ~Refused(s, budget),
         Len(s.entries) > 0, Tokens(2 + s.entries[1]) <= Reserve(s, budget, TRUE)
  PROVE  ChosenEntries(s, budget, TRUE) > 0
<1> DEFINE bytes == AfterTranscript(s, budget, TRUE)
           left == Left(s, budget)
           reserve == Reserve(s, budget, TRUE)
           fits == {j \in DOMAIN s.entries : Tokens(bytes + 2 + s.entries[j]) <= left}
<1>1. bytes \in Nat /\ Tokens(bytes) <= left - reserve
  BY CutsFit
<1>2. s.entries \in Seq(Nat) /\ Len(s.entries) \in Nat /\ s.entries[1] \in Nat /\ 1 \in DOMAIN s.entries
  BY DEF IsShape
<1>3. left \in Int /\ reserve \in Nat
  BY CutsFit
<1>4. 1 \in fits
  <2> DEFINE e == 2 + s.entries[1]
  <2>1. e \in Nat /\ bytes + 2 + s.entries[1] = bytes + e /\ Tokens(e) <= reserve
    <3>1. Tokens(e) <= reserve
      OBVIOUS
    <3> HIDE DEF bytes, reserve
    <3>2. e \in Nat /\ bytes + 2 + s.entries[1] = bytes + e
      BY <1>1, <1>2
    <3> QED
      BY <3>1, <3>2
  <2> HIDE DEF bytes, left, reserve, e
  <2>2. bytes + e \in Nat
    BY <1>1, <2>1
  <2>3. /\ Tokens(bytes + e) <= Tokens(bytes) + Tokens(e)
        /\ Tokens(bytes) \in Nat /\ Tokens(e) \in Nat /\ Tokens(bytes + e) \in Nat
    BY <2>1, <2>2, <1>1, RoundingUp
  <2>4. Tokens(bytes + e) <= left
    BY <2>1, <2>3, <1>1, <1>3
  <2> QED
    BY <2>1, <2>4, <1>2
<1>5. ChosenEntries(s, budget, TRUE) = Longest(Len(s.entries), fits)
  BY DEF ChosenEntries, Fitting
<1> HIDE DEF fits
<1> QED
  BY <1>2, <1>4, <1>5, LongestFits

-----------------------------------------------------------------------------
(* Sizes.                                                                  *)

\* The type invariant: the log is one of events.
Logged == log \in Seq(Drafts)

\* What a shown body is made of: texts, and pointers to events.
Parts == Texts \cup DOMAIN log

LEMMA EventsAreNumbers ==
  ASSUME Logged
  PROVE  Len(log) \in Nat /\ DOMAIN log = 1..Len(log) /\ DOMAIN log \subseteq Nat
<1>1. Len(log) \in Nat /\ DOMAIN log = 1..Len(log)
  BY LenProperties DEF Logged
<1> QED BY <1>1

Size(part) == IF part \in Nat THEN PointerBytes ELSE TextBytes[part]

LEMMA SizeIsNumber ==
  ASSUME Logged, NEW part \in Parts
  PROVE  Size(part) \in Nat
BY SizesOfParts, EventsAreNumbers DEF Size, Parts

BytesOf(body) ==
  CHOOSE f : f = [i \in 0..Len(body) |->
    IF i = 0 THEN 0
    ELSE f[i - 1] + (IF body[i] \in Nat THEN PointerBytes ELSE TextBytes[body[i]])]

LEMMA BytesIsNumber ==
  ASSUME Logged, NEW body \in Seq(Parts)
  PROVE  Bytes(body) \in Nat
<1> DEFINE k == Len(body)
           e == BytesOf(body)
           F == [f \in [0..k -> Nat] |->
                   [i \in 0..k |-> IF i = 0 THEN 0 ELSE f[i - 1] + Size(body[i])]]
<1>1. k \in Nat /\ \A i \in 1..k : Size(body[i]) \in Nat
  <2>1. k \in Nat /\ \A i \in 1..k : body[i] \in Parts
    BY LenProperties, ElementOfSeq
  <2> QED BY <2>1, SizeIsNumber
<1>2. Bytes(body) = e[k]
  BY Zenon DEF Bytes, BytesOf
<1>3. Causal(F, k, Nat)
  <2> HIDE DEF k
  <2>1. ASSUME NEW f \in [0..k -> Nat], NEW i \in 0..k
        PROVE  F[f][i] \in Nat /\ (i # 0 => i - 1 \in 0..(i - 1))
    BY <1>1
  <2>2. F \in [[0..k -> Nat] -> [0..k -> Nat]]
    BY <2>1
  <2>3. ASSUME NEW f \in [0..k -> Nat], NEW g \in [0..k -> Nat], NEW n \in 0..k,
               \A m \in 0..(n - 1) : f[m] = g[m]
        PROVE  F[f][n] = F[g][n]
    BY <2>1, <2>3
  <2> HIDE DEF F
  <2> QED BY <2>2, <2>3 DEF Causal
<1>4. \E f : f = [i \in 0..k |-> IF i = 0 THEN 0 ELSE f[i - 1] + Size(body[i])]
  <2>1. PICK f : FixedPoint(f, F, k, Nat)
    <3> HIDE DEF F, k
    <3> QED BY <1>1, <1>3, FixedPointExists
  <2> QED BY <2>1 DEF FixedPoint
<1>5. e = [i \in 0..k |-> IF i = 0 THEN 0 ELSE e[i - 1] + Size(body[i])]
  BY <1>4, Zenon DEF BytesOf, Size
<1> HIDE DEF e, k
<1>6. \A i \in 0..k : e[i] \in Nat
  <2> DEFINE G == {n \in 0..k : e[n] \in Nat}
  <2>1. 0 \in G
    BY <1>1, <1>5
  <2>2. ASSUME NEW n \in 1..k, n - 1 \in G PROVE n \in G
    <3>1. n \in 0..k /\ n # 0
      BY <1>1
    <3>2. e[n] = e[n - 1] + Size(body[n])
      BY <1>5, <3>1
    <3> QED BY <1>1, <2>2, <3>1, <3>2
  <2>3. \A i \in 0..k : i \in G
    <3> HIDE DEF G
    <3> QED BY <1>1, <2>1, <2>2, OneByOne
  <2> QED BY <2>3
<1> QED BY <1>1, <1>2, <1>6

-----------------------------------------------------------------------------
(* Replacing.  R[n] is what the last n parts of a body become.             *)

Starts(body, part, n) ==
  /\ Len(part) <= n
  /\ SubSeq(body, Len(body) - n + 1, Len(body) - n + 1 + Len(part) - 1) = part
ReplaceOf(body, part, pointer) ==
  CHOOSE f : f = [n \in 0..Len(body) |->
    IF n = 0 THEN <<>>
    ELSE IF Starts(body, part, n) THEN <<pointer>> \o f[n - Len(part)]
    ELSE <<body[Len(body) - n + 1]>> \o f[n - 1]]

\* What a body, what is replaced in it and its pointer are.
Replaceable(body, part, pointer) ==
  /\ Logged /\ pointer \in DOMAIN log
  /\ body \in Seq(Parts) /\ part \in Seq(Texts) /\ Len(part) > 0

LEMMA ReplaceableFacts ==
  ASSUME NEW body, NEW part, NEW pointer, Replaceable(body, part, pointer)
  PROVE  /\ Len(body) \in Nat /\ Len(part) \in Nat \ {0}
         /\ pointer \in Parts /\ pointer \in Nat
         /\ \A i \in 1..Len(body) : body[i] \in Parts
         /\ \A i \in 1..Len(part) : part[i] \in Parts /\ part[i] \notin Nat
<1>1. body \in Seq(Parts) /\ part \in Seq(Texts) /\ Len(part) > 0
  BY DEF Replaceable
<1>2. Len(body) \in Nat /\ Len(part) \in Nat
  BY <1>1, LenProperties
<1>3. \A i \in 1..Len(body) : body[i] \in Parts
  BY <1>1, ElementOfSeq
<1>4. \A i \in 1..Len(part) : part[i] \in Texts
  BY <1>1, ElementOfSeq
<1>5. pointer \in Parts /\ pointer \in Nat
  BY EventsAreNumbers DEF Replaceable, Parts
<1> QED BY <1>1, <1>2, <1>3, <1>4, <1>5, TextsAreNoPointers DEF Parts

LEMMA Prefixed ==
  ASSUME NEW part \in Parts, NEW s \in Seq(Parts)
  PROVE  /\ <<part>> \o s \in Seq(Parts)
         /\ Len(<<part>> \o s) = Len(s) + 1
         /\ (<<part>> \o s)[1] = part
         /\ \A i \in 1..Len(s) : (<<part>> \o s)[i + 1] = s[i]
OBVIOUS

Recurs(body, part, pointer, R) ==
  /\ R[0] = <<>>
  /\ \A n \in 1..Len(body) :
       R[n] = IF Starts(body, part, n) THEN <<pointer>> \o R[n - Len(part)]
              ELSE <<body[Len(body) - n + 1]>> \o R[n - 1]
  /\ \A n \in 0..Len(body) : R[n] \in Seq(Parts)
LEMMA ReplaceRecurs ==
  ASSUME NEW body, NEW part, NEW pointer, Replaceable(body, part, pointer), NEW R,
         R = ReplaceOf(body, part, pointer)
  PROVE  Recurs(body, part, pointer, R) /\ Replace(body, part, pointer) = R[Len(body)]
<1> DEFINE k == Len(body)
           P == Seq(Parts)
           Step(f, n) == IF n = 0 THEN <<>>
                         ELSE IF Starts(body, part, n) THEN <<pointer>> \o f[n - Len(part)]
                         ELSE <<body[k - n + 1]>> \o f[n - 1]
           F == [f \in [0..k -> P] |-> [n \in 0..k |-> Step(f, n)]]
<1>1. /\ k \in Nat /\ Len(part) \in Nat \ {0} /\ pointer \in Parts
      /\ \A n \in 1..k : body[k - n + 1] \in Parts
  <2>1. \A n \in 1..k : k - n + 1 \in 1..k
    BY ReplaceableFacts
  <2> QED BY <2>1, ReplaceableFacts DEF Replaceable, Parts
<1>2. Replace(body, part, pointer) = ReplaceOf(body, part, pointer)[k]
  BY Zenon DEF Replace, ReplaceOf, Starts
<1>3. \A n \in 1..k : /\ n - 1 \in 0..(n - 1)
                      /\ Starts(body, part, n) => n - Len(part) \in 0..(n - 1)
  BY <1>1 DEF Starts
<1>4. ASSUME NEW f, NEW n \in 0..k, \A m \in 0..(n - 1) : f[m] \in P PROVE Step(f, n) \in P
  <2>1. CASE n = 0
    BY <2>1
  <2>2. CASE n # 0
    <3>1. n \in 1..k
      BY <2>2
    <3> HIDE DEF k
    <3>2. Starts(body, part, n) => <<pointer>> \o f[n - Len(part)] \in P
      BY <1>1, <1>3, <1>4, <3>1, Prefixed
    <3>3. <<body[k - n + 1]>> \o f[n - 1] \in P
      BY <1>1, <1>3, <1>4, <3>1, Prefixed
    <3> QED BY <3>2, <3>3, <2>2
  <2> QED BY <2>1, <2>2
<1>5. ASSUME NEW f, NEW g, NEW n \in 0..k, \A m \in 0..(n - 1) : f[m] = g[m]
      PROVE  Step(f, n) = Step(g, n)
  <2>1. n # 0 => n \in 1..k
    OBVIOUS
  <2> HIDE DEF k
  <2> QED BY <1>3, <1>5, <2>1
<1> HIDE DEF P, k, Step
<1>6. Causal(F, k, P)
  <2>1. ASSUME NEW f \in [0..k -> P], NEW n \in 0..k PROVE F[f][n] = Step(f, n) /\ Step(f, n) \in P
    <3>1. \A m \in 0..(n - 1) : f[m] \in P
      BY <1>1
    <3> QED BY <1>4, <3>1
  <2>2. F \in [[0..k -> P] -> [0..k -> P]]
    BY <2>1
  <2> HIDE DEF F
  <2> QED BY <1>5, <2>1, <2>2 DEF Causal
<1>7. \E f : f = [n \in 0..k |-> Step(f, n)]
  <2>1. <<>> \in P
    BY DEF P
  <2>2. PICK f : FixedPoint(f, F, k, P)
    <3> HIDE DEF F
    <3> QED BY <1>1, <1>6, <2>1, FixedPointExists
  <2> QED BY <2>2 DEF FixedPoint
<1>8. R = [n \in 0..k |-> Step(R, n)]
  <2>1. ReplaceOf(body, part, pointer) = CHOOSE f : f = [n \in 0..k |-> Step(f, n)]
    BY DEF ReplaceOf, Step, k
  <2> DEFINE r == ReplaceOf(body, part, pointer)
  <2>2. r = [n \in 0..k |-> Step(r, n)]
    BY <1>7, <2>1, Zenon
  <2> HIDE DEF r
  <2>3. R = r
    BY DEF r
  <2> QED BY <2>2, <2>3
<1>9. \A n \in 0..k : R[n] = Step(R, n)
  BY <1>8
<1>10. \A n \in 0..k : R[n] \in P
  <2> DEFINE G == {n \in 0..k : R[n] \in P}
  <2>1. ASSUME NEW n \in 0..k, 0..(n - 1) \subseteq G PROVE n \in G
    <3>1. \A m \in 0..(n - 1) : R[m] \in P
      BY <2>1
    <3> QED BY <1>4, <1>9, <3>1
  <2>2. G \in SUBSET (0..k)
    OBVIOUS
  <2>3. 0..k \subseteq G
    <3> HIDE DEF G
    <3> QED BY <1>1, <2>1, <2>2, Upwards
  <2> QED BY <2>3
<1>11. 0 \in 0..k /\ \A n \in 1..k : n \in 0..k /\ n # 0
  BY <1>1
<1> QED BY <1>2, <1>9, <1>10, <1>11 DEF Recurs, Step, P, k

Occurs(part, body) == \E n \in 1..Len(body) : Starts(body, part, n)

LEMMA StartsIs ==
  ASSUME NEW body \in Seq(Parts), NEW part \in Seq(Parts), NEW n \in 1..Len(body)
  PROVE  Starts(body, part, n) <=>
           /\ Len(part) <= n
           /\ \A j \in 1..Len(part) : body[Len(body) - n + j] = part[j]
<1> DEFINE k == Len(body)
           c == Len(part)
           i == k - n + 1
           t == SubSeq(body, i, i + c - 1)
<1>1. k \in Nat /\ c \in Nat /\ n \in 1..k
  BY LenProperties
<1>2. ASSUME c <= n
      PROVE  t \in Seq(Parts) /\ Len(t) = c /\ \A j \in 1..c : t[j] = body[k - n + j]
  <2>1. \A j \in 1..c : i + j - 1 = k - n + j
    BY <1>1
  <2>2. i \in 1..(k + 1) /\ i + c - 1 \in (i - 1)..k /\ (i + c - 1) - i + 1 = c
    BY <1>1, <1>2
  <2> HIDE DEF i, c, k
  <2>3. i..(i + c - 1) \subseteq 1..k
    BY <1>1, <2>2
  <2>4. t \in Seq(Parts) /\ Len(t) = c /\ \A j \in 1..c : t[j] = body[i + j - 1]
    BY <1>1, <2>2, <2>3, SubSeqProperties DEF k
  <2> QED BY <2>1, <2>4
<1>3. c <= n => (t = part <=> \A j \in 1..c : body[k - n + j] = part[j])
  <2> SUFFICES ASSUME c <= n PROVE t = part <=> \A j \in 1..c : body[k - n + j] = part[j]
    OBVIOUS
  <2>1. t \in Seq(Parts) /\ Len(t) = c /\ \A j \in 1..c : t[j] = body[k - n + j]
    BY <1>2
  <2> HIDE DEF t, k, i
  <2>2. (\A j \in 1..c : t[j] = part[j]) => t = part
    BY <2>1, SeqEqual
  <2> QED BY <2>1, <2>2
<1> QED BY <1>3 DEF Starts

\* The text at the start of what is left is the text at the start of the suffix.
TextLeads(body, R) ==
  \A n \in 0..Len(body), c \in Nat :
    c <= Len(R[n]) /\ (\A j \in 1..c : R[n][j] \notin Nat) =>
      c <= n /\ \A j \in 1..c : body[Len(body) - n + j] = R[n][j]
LEMMA LeadingText ==
  ASSUME NEW body, NEW part, NEW pointer, Replaceable(body, part, pointer), NEW R,
         R = ReplaceOf(body, part, pointer)
  PROVE  TextLeads(body, R)
<1> DEFINE k == Len(body)
           Same(n, c) ==
             c <= Len(R[n]) /\ (\A j \in 1..c : R[n][j] \notin Nat) =>
               c <= n /\ \A j \in 1..c : body[k - n + j] = R[n][j]
           G == {n \in 0..k : \A c \in Nat : Same(n, c)}
<1>0. /\ k \in Nat /\ pointer \in Parts /\ pointer \in Nat
      /\ \A i \in 1..k : body[i] \in Parts
      /\ Len(part) \in Nat \ {0}
  BY ReplaceableFacts DEF Replaceable, Parts
<1>1. /\ R[0] = <<>> /\ \A n \in 0..k : R[n] \in Seq(Parts)
      /\ \A n \in 1..k :
           R[n] = IF Starts(body, part, n) THEN <<pointer>> \o R[n - Len(part)]
                  ELSE <<body[k - n + 1]>> \o R[n - 1]
  <2>1. Recurs(body, part, pointer, R)
    BY ReplaceRecurs
  <2> QED BY <2>1 DEF Recurs
<1>2. 0 \in G
  <2>1. Len(R[0]) = 0 /\ 0 \in 0..k
    BY <1>0, <1>1
  <2> QED BY <2>1
<1>3. ASSUME NEW n \in 1..k, n - 1 \in G PROVE n \in G
  <2> SUFFICES ASSUME NEW c \in Nat, c <= Len(R[n]), \A j \in 1..c : R[n][j] \notin Nat, c > 0
               PROVE  c <= n /\ \A j \in 1..c : body[k - n + j] = R[n][j]
    <3>1. n \in 0..k /\ 0 <= n /\ 1..0 = {}
      BY <1>0
    <3> HIDE DEF k
    <3>2. ASSUME NEW c \in Nat PROVE c > 0 \/ c = 0
      OBVIOUS
    <3> QED BY <3>1, <3>2
  <2> DEFINE i == k - n + 1
             s == R[n - 1]
  <2>1. R[n][1] # pointer
    BY <1>0
  <2>2. n - 1 \in 0..k /\ i \in 1..k /\ s \in Seq(Parts) /\ Len(s) \in Nat /\ body[i] \in Parts
    <3>1. n - 1 \in 0..k /\ i \in 1..k
      BY <1>0
    <3> QED BY <1>0, <1>1, <3>1, LenProperties
  <2>3. Starts(body, part, n) => R[n][1] = pointer
    <3>1. ASSUME Starts(body, part, n) PROVE n - Len(part) \in 0..k
      BY <1>0, <3>1 DEF Starts
    <3>2. ASSUME Starts(body, part, n) PROVE R[n] = <<pointer>> \o R[n - Len(part)]
      BY <1>1, <3>2
    <3> QED BY <1>0, <1>1, <3>1, <3>2, Prefixed
  <2>4. R[n] = <<body[i]>> \o s
    BY <1>1, <2>1, <2>3
  <2>5. /\ Len(R[n]) = Len(s) + 1 /\ R[n][1] = body[i]
        /\ \A j \in 1..Len(s) : R[n][j + 1] = s[j]
    <3> HIDE DEF s, i, k
    <3> QED BY <2>2, <2>4, Prefixed
  <2>6. c - 1 \in Nat /\ c - 1 <= Len(s) /\ \A j \in 1..(c - 1) : j + 1 \in 1..c /\ j \in 1..Len(s)
    BY <2>2, <2>5
  <2>7. \A j \in 1..(c - 1) : s[j] \notin Nat
    BY <2>5, <2>6
  <2>8. c - 1 <= n - 1 /\ \A j \in 1..(c - 1) : body[k - (n - 1) + j] = s[j]
    <3>1. Same(n - 1, c - 1)
      BY <1>3, <2>6
    <3> QED BY <2>6, <2>7, <3>1
  <2>9. ASSUME NEW j \in 1..c PROVE body[k - n + j] = R[n][j]
    <3>1. CASE j = 1
      BY <3>1, <2>5
    <3>2. CASE j # 1
      <4>1. j - 1 \in 1..(c - 1) /\ (j - 1) + 1 = j /\ k - (n - 1) + (j - 1) = k - n + j
        BY <3>2, <1>0
      <4> HIDE DEF s, k
      <4>2. R[n][j] = s[j - 1]
        BY <4>1, <2>5, <2>6
      <4>3. s[j - 1] = body[k - (n - 1) + (j - 1)]
        BY <4>1, <2>8
      <4> QED BY <4>1, <4>2, <4>3
    <3> QED BY <3>1, <3>2
  <2>10. c <= n
    BY <2>8
  <2> QED BY <2>9, <2>10
<1>4. \A n \in 0..k : n \in G
  <2> HIDE DEF G
  <2> QED BY <1>0, <1>2, <1>3, OneByOne
<1> QED BY <1>4 DEF TextLeads

\* Any text in what is left is a text of the body, at a place where nothing was replaced.
RemainsAt(body, part, R, n, i, c) ==
  i + c <= Len(R[n]) + 1 /\ (\A j \in 1..c : R[n][i + j - 1] \notin Nat) =>
    \E m \in 1..n : /\ c <= m /\ ~Starts(body, part, m)
                    /\ \A j \in 1..c : body[Len(body) - m + j] = R[n][i + j - 1]
TextRemains(body, part, R) ==
  \A n \in 0..Len(body) : \A i \in Nat \ {0}, c \in Nat \ {0} : RemainsAt(body, part, R, n, i, c)
LEMMA TextIsKept ==
  ASSUME NEW body, NEW part, NEW pointer, Replaceable(body, part, pointer), NEW R,
         R = ReplaceOf(body, part, pointer)
  PROVE  TextRemains(body, part, R)
<1> DEFINE k == Len(body)
           Somewhere(n, i, c) ==
             \E m \in 1..n : /\ c <= m /\ ~Starts(body, part, m)
                             /\ \A j \in 1..c : body[k - m + j] = R[n][i + j - 1]
           Good(n) == \A i \in Nat \ {0}, c \in Nat \ {0} :
             i + c <= Len(R[n]) + 1 /\ (\A j \in 1..c : R[n][i + j - 1] \notin Nat) => Somewhere(n, i, c)
           G == {n \in 0..k : Good(n)}
<1>0. /\ k \in Nat /\ pointer \in Parts /\ pointer \in Nat
      /\ \A i \in 1..k : body[i] \in Parts
      /\ Len(part) \in Nat \ {0}
  BY ReplaceableFacts DEF Replaceable, Parts
<1>1. /\ R[0] = <<>> /\ \A n \in 0..k : R[n] \in Seq(Parts) /\ Len(R[n]) \in Nat
      /\ \A n \in 1..k :
           R[n] = IF Starts(body, part, n) THEN <<pointer>> \o R[n - Len(part)]
                  ELSE <<body[k - n + 1]>> \o R[n - 1]
  <2>r. Recurs(body, part, pointer, R)
    BY ReplaceRecurs
  <2>1. \A n \in 0..k : R[n] \in Seq(Parts)
    BY <2>r DEF Recurs
  <2>2. \A n \in 0..k : Len(R[n]) \in Nat
    BY <2>1, LenProperties
  <2> QED BY <2>1, <2>2, <2>r DEF Recurs
<1>2. ASSUME NEW n \in 0..k, 0..(n - 1) \subseteq G PROVE n \in G
  <2> SUFFICES ASSUME NEW i \in Nat \ {0}, NEW c \in Nat \ {0}, i + c <= Len(R[n]) + 1,
                      \A j \in 1..c : R[n][i + j - 1] \notin Nat
               PROVE  Somewhere(n, i, c)
    OBVIOUS
  <2>1. n \in 1..k
    <3>1. n = 0 => Len(R[n]) = 0
      BY <1>1
    <3> QED BY <1>0, <3>1
  <2> DEFINE step == IF Starts(body, part, n) THEN Len(part) ELSE 1
             top == IF Starts(body, part, n) THEN pointer ELSE body[k - n + 1]
             s == R[n - step]
  <2>2. /\ step \in 1..n /\ top \in Parts /\ s \in Seq(Parts) /\ Len(s) \in Nat
        /\ R[n] = <<top>> \o s /\ n - step \in 0..(n - 1)
    <3>1. step \in 1..n /\ k - n + 1 \in 1..k
      BY <1>0, <2>1 DEF Starts
    <3>2. n - step \in 0..k
      BY <1>0, <2>1, <3>1
    <3>3. R[n] = <<top>> \o s
      BY <1>1, <2>1
    <3> QED BY <1>0, <1>1, <2>1, <3>1, <3>2, <3>3
  <2>3. /\ Len(R[n]) = Len(s) + 1 /\ R[n][1] = top
        /\ \A j \in 1..Len(s) : R[n][j + 1] = s[j]
    <3> HIDE DEF s, step, top, k
    <3> QED BY <2>2, Prefixed
  <2>4. CASE i = 1
    <3>1. c <= Len(R[n]) /\ \A j \in 1..c : i + j - 1 = j
      BY <2>4, <2>3, <2>2
    <3>2. c <= n /\ \A j \in 1..c : body[k - n + j] = R[n][j]
      <4>1. TextLeads(body, R)
        BY LeadingText
      <4>2. \A j \in 1..c : R[n][j] \notin Nat
        BY <3>1
      <4> QED BY <3>1, <4>1, <4>2 DEF TextLeads
    <3>3. R[n][1] \notin Nat
      <4>1. 1 \in 1..c /\ i + 1 - 1 = 1
        BY <2>4
      <4> QED BY <4>1
    <3>4. ~Starts(body, part, n)
      <4> HIDE DEF k, s
      <4> QED BY <1>0, <2>3, <3>3 DEF top
    <3>5. \A j \in 1..c : R[n][j] = R[n][i + j - 1]
      BY <3>1
    <3> HIDE DEF k
    <3>6. n \in 1..n
      BY <2>1
    <3> QED BY <3>2, <3>4, <3>5, <3>6
  <2>5. CASE i # 1
    <3> DEFINE h == i - 1
               b == n - step
    <3>1. h \in Nat \ {0} /\ h + c <= Len(s) + 1
          /\ \A j \in 1..c : h + j - 1 \in 1..Len(s) /\ (h + j - 1) + 1 = i + j - 1
      BY <2>5, <2>3, <2>2
    <3>2. \A j \in 1..c : R[n][i + j - 1] = s[h + j - 1]
      <4> HIDE DEF h, s
      <4> QED BY <3>1, <2>3
    <3>3. \A j \in 1..c : R[b][h + j - 1] \notin Nat
      BY <3>2
    <3>4. Good(b)
      <4> HIDE DEF Good, step
      <4> QED BY <1>2, <2>2
    <3>5. Somewhere(b, h, c)
      <4> HIDE DEF Somewhere, h, b, step
      <4>1. h + c <= Len(R[b]) + 1
        BY <3>1 DEF b
      <4> QED BY <3>1, <3>3, <3>4, <4>1
    <3>6. 1..b \subseteq 1..n
      <4> HIDE DEF step
      <4> QED BY <2>2
    <3> HIDE DEF b, h, k
    <3>7. \A j \in 1..c : R[b][h + j - 1] = R[n][i + j - 1]
      BY <3>2 DEF b
    <3> QED BY <3>5, <3>6, <3>7
  <2> QED BY <2>4, <2>5
<1>3. G \in SUBSET (0..k)
  OBVIOUS
<1>4. 0..k \subseteq G
  <2> HIDE DEF G
  <2> QED BY <1>0, <1>2, <1>3, Upwards
<1> QED BY <1>4 DEF TextRemains, RemainsAt

\* Replacing makes no text occur that did not, and of what is replaced nothing is left.
LEMMA ReplacedIsGone ==
  ASSUME NEW body, NEW part, NEW pointer, Replaceable(body, part, pointer),
         NEW q \in Seq(Texts), Len(q) > 0, Occurs(q, Replace(body, part, pointer))
  PROVE  Occurs(q, body) /\ q # part
<1>0. PICK R : R = ReplaceOf(body, part, pointer)
  OBVIOUS
<1> DEFINE k == Len(body)
           r == Replace(body, part, pointer)
           c == Len(q)
<1>1. k \in Nat /\ k \in 0..k /\ body \in Seq(Parts) /\ part \in Seq(Parts) /\ q \in Seq(Parts)
      /\ c \in Nat \ {0}
  <2>1. \A s \in Seq(Texts) : s \in Seq(Parts)
    BY DEF Parts
  <2> QED BY <2>1, ReplaceableFacts, LenProperties DEF Replaceable
<1>2. r = R[k] /\ r \in Seq(Parts) /\ Len(r) \in Nat
  <2>1. r = R[k] /\ \A n \in 0..k : R[n] \in Seq(Parts)
    <3>1. Recurs(body, part, pointer, R) /\ r = R[k]
      BY <1>0, ReplaceRecurs
    <3> QED BY <3>1 DEF Recurs
  <2> HIDE DEF r
  <2> QED BY <1>1, <2>1, LenProperties
<1> HIDE DEF r
<1>3. PICK n \in 1..Len(r) : c <= n /\ \A j \in 1..c : r[Len(r) - n + j] = q[j]
  <2>1. PICK n \in 1..Len(r) : Starts(r, q, n)
    BY DEF Occurs, r
  <2>2. Starts(r, q, n) <=> c <= n /\ \A j \in 1..c : r[Len(r) - n + j] = q[j]
    BY <1>1, <1>2, StartsIs
  <2> QED BY <2>1, <2>2
<1> DEFINE i == Len(r) - n + 1
<1>4. i \in Nat \ {0} /\ i + c <= Len(r) + 1 /\ \A j \in 1..c : i + j - 1 = Len(r) - n + j
  BY <1>1, <1>2, <1>3
<1>5. \A j \in 1..c : q[j] \notin Nat
  BY TextsAreNoPointers, ElementOfSeq
<1>6. \A j \in 1..c : r[i + j - 1] = q[j]
  BY <1>3, <1>4
<1> HIDE DEF i
<1>7. PICK m \in 1..k : c <= m /\ ~Starts(body, part, m) /\ \A j \in 1..c : body[k - m + j] = r[i + j - 1]
  <2>1. \A j \in 1..c : R[k][i + j - 1] \notin Nat
    BY <1>2, <1>5, <1>6
  <2>2. i + c <= Len(R[k]) + 1
    BY <1>2, <1>4
  <2>3. TextRemains(body, part, R)
    BY <1>0, TextIsKept
  <2> HIDE DEF c
  <2>4. RemainsAt(body, part, R, k, i, c)
    BY <1>1, <1>4, <2>3 DEF TextRemains
  <2> QED BY <1>2, <2>1, <2>2, <2>4 DEF RemainsAt
<1>8. Starts(body, q, m)
  BY <1>1, <1>6, <1>7, StartsIs
<1> QED BY <1>7, <1>8 DEF Occurs

\* One step of replacing: what the last n parts become, from what fewer become.
Spent(body, part, n) == IF Starts(body, part, n) THEN Len(part) ELSE 1
Put(body, part, pointer, n) ==
  IF Starts(body, part, n) THEN pointer ELSE body[Len(body) - n + 1]
StepTo(body, part, pointer, R, n) ==
  LET s == R[n - Spent(body, part, n)]
      top == Put(body, part, pointer, n)
  IN /\ Spent(body, part, n) \in 1..n /\ top \in Parts
     /\ R[n] = <<top>> \o s /\ Len(R[n]) = Len(s) + 1
     /\ R[n][1] = top /\ \A i \in 1..Len(s) : R[n][i + 1] = s[i]
Stepwise(body, part, pointer, R) ==
  /\ R[0] = <<>>
  /\ \A n \in 0..Len(body) : R[n] \in Seq(Parts) /\ Len(R[n]) \in Nat
  /\ \A n \in 1..Len(body) : StepTo(body, part, pointer, R, n)

LEMMA ReplaceSteps ==
  ASSUME NEW body, NEW part, NEW pointer, Replaceable(body, part, pointer), NEW R,
         R = ReplaceOf(body, part, pointer)
  PROVE  Stepwise(body, part, pointer, R) /\ Replace(body, part, pointer) = R[Len(body)]
<1> DEFINE k == Len(body)
<1>0. /\ k \in Nat /\ pointer \in Parts /\ pointer \in Nat
      /\ \A i \in 1..k : body[i] \in Parts
      /\ Len(part) \in Nat \ {0}
  BY ReplaceableFacts DEF Replaceable, Parts
<1>r. Recurs(body, part, pointer, R) /\ Replace(body, part, pointer) = R[k]
  BY ReplaceRecurs
<1>1. /\ R[0] = <<>> /\ \A n \in 0..k : R[n] \in Seq(Parts)
      /\ \A n \in 1..k :
           R[n] = IF Starts(body, part, n) THEN <<pointer>> \o R[n - Len(part)]
                  ELSE <<body[k - n + 1]>> \o R[n - 1]
  BY <1>r DEF Recurs
<1>2. \A n \in 0..k : Len(R[n]) \in Nat
  BY <1>1, LenProperties
<1>3. ASSUME NEW n \in 1..k PROVE StepTo(body, part, pointer, R, n)
  <2> DEFINE step == Spent(body, part, n)
             top == Put(body, part, pointer, n)
             s == R[n - step]
  <2>1. step \in 1..n /\ k - n + 1 \in 1..k
    BY <1>0 DEF Starts, Spent
  <2>2. n - step \in 0..k
    BY <1>0, <2>1
  <2>3. R[n] = <<top>> \o s
    BY <1>1 DEF Spent, Put
  <2>4. top \in Parts /\ s \in Seq(Parts)
    BY <1>0, <1>1, <2>1, <2>2 DEF Put
  <2> HIDE DEF k, top, s
  <2>5. Len(R[n]) = Len(s) + 1 /\ R[n][1] = top /\ \A i \in 1..Len(s) : R[n][i + 1] = s[i]
    BY <2>3, <2>4, Prefixed
  <2> QED BY <2>1, <2>3, <2>4, <2>5 DEF StepTo, top, s
<1> QED BY <1>1, <1>2, <1>3, <1>r DEF Stepwise

LEMMA NothingReplaced ==
  ASSUME NEW body, NEW part, NEW pointer, Replaceable(body, part, pointer), ~Occurs(part, body)
  PROVE  Replace(body, part, pointer) = body
<1>0. PICK R : R = ReplaceOf(body, part, pointer)
  OBVIOUS
<1> DEFINE k == Len(body)
           G == {n \in 0..k : Len(R[n]) = n /\ \A i \in 1..n : R[n][i] = body[k - n + i]}
<1>1. Stepwise(body, part, pointer, R) /\ Replace(body, part, pointer) = R[k]
  BY <1>0, ReplaceSteps
<1>2. k \in Nat /\ body \in Seq(Parts)
  BY ReplaceableFacts DEF Replaceable
<1>3. 0 \in G
  BY <1>1, <1>2 DEF Stepwise, StepTo
<1>4. ASSUME NEW n \in 1..k, n - 1 \in G PROVE n \in G
  <2>1. Spent(body, part, n) = 1 /\ Put(body, part, pointer, n) = body[k - n + 1]
    BY DEF Occurs, Spent, Put
  <2> DEFINE s == R[n - 1]
  <2>2. /\ Len(R[n]) = Len(s) + 1 /\ R[n][1] = body[k - n + 1]
        /\ \A i \in 1..Len(s) : R[n][i + 1] = s[i]
    BY <1>1, <2>1 DEF Stepwise, StepTo
  <2>3. Len(s) = n - 1 /\ \A i \in 1..(n - 1) : s[i] = body[k - (n - 1) + i]
    BY <1>4
  <2> HIDE DEF s, k
  <2>4. ASSUME NEW i \in 1..n PROVE R[n][i] = body[k - n + i]
    <3>1. CASE i = 1
      BY <2>2, <3>1
    <3>2. CASE i # 1
      <4>1. i - 1 \in 1..(n - 1) /\ (i - 1) + 1 = i /\ k - (n - 1) + (i - 1) = k - n + i
        BY <1>2, <3>2
      <4>2. R[n][i] = s[i - 1] /\ s[i - 1] = body[k - (n - 1) + (i - 1)]
        BY <2>2, <2>3, <4>1
      <4> QED BY <4>1, <4>2
    <3> QED BY <3>1, <3>2
  <2>5. Len(R[n]) = n
    BY <1>2, <2>2, <2>3
  <2> QED BY <1>2, <2>4, <2>5
<1>5. \A n \in 0..k : n \in G
  <2> HIDE DEF G
  <2> QED BY <1>2, <1>3, <1>4, OneByOne
<1>6. k \in 0..k /\ R[k] \in Seq(Parts)
  BY <1>1, <1>2 DEF Stepwise, StepTo
<1>7. Len(R[k]) = k /\ \A i \in 1..k : R[k][i] = body[i]
  <2>1. \A i \in 1..k : k - k + i = i
    BY <1>2
  <2> QED BY <1>5, <1>6, <2>1
<1>8. R[k] = body
  <2> DEFINE r == R[k]
  <2> HIDE DEF r
  <2>1. r \in Seq(Parts) /\ Len(r) = Len(body) /\ \A i \in 1..Len(body) : r[i] = body[i]
    BY <1>6, <1>7 DEF r
  <2> QED BY <1>2, <2>1, SeqEqual DEF r
<1> QED BY <1>1, <1>8

LEMMA WhatReplacingLeaves ==
  ASSUME NEW body, NEW part, NEW pointer, Replaceable(body, part, pointer)
  PROVE  /\ Replace(body, part, pointer) \in Seq(Parts)
         /\ \A x \in ToSet(Replace(body, part, pointer)) :
              x \in ToSet(body) \/ (x = pointer /\ Occurs(part, body))
<1>0. PICK R : R = ReplaceOf(body, part, pointer)
  OBVIOUS
<1> DEFINE k == Len(body)
           Remains == ToSet(body) \cup {x \in {pointer} : Occurs(part, body)}
           G == {n \in 0..k : \A i \in 1..Len(R[n]) : R[n][i] \in Remains}
<1>1. Stepwise(body, part, pointer, R) /\ Replace(body, part, pointer) = R[k]
  BY <1>0, ReplaceSteps
<1>2. k \in Nat /\ body \in Seq(Parts) /\ DOMAIN body = 1..k
  BY ReplaceableFacts, LenProperties DEF Replaceable
<1>3. ASSUME NEW n \in 0..k, 0..(n - 1) \subseteq G PROVE n \in G
  <2>1. CASE n = 0
    BY <1>1, <1>2, <2>1 DEF Stepwise, StepTo
  <2>2. CASE n # 0
    <3> DEFINE m == n - Spent(body, part, n)
               top == Put(body, part, pointer, n)
    <3>1. /\ Spent(body, part, n) \in 1..n /\ n \in 1..k
          /\ Len(R[n]) = Len(R[m]) + 1 /\ Len(R[m]) \in Nat
          /\ R[n][1] = top /\ \A i \in 1..Len(R[m]) : R[n][i + 1] = R[m][i]
      <4>1. n \in 1..k
        BY <1>2, <2>2
      <4>2. Spent(body, part, n) \in 1..n
        BY <1>1, <4>1 DEF Stepwise, StepTo
      <4>3. m \in 0..k
        BY <1>2, <4>1, <4>2
      <4> QED BY <1>1, <4>1, <4>2, <4>3 DEF Stepwise, StepTo
    <3>2. m \in 0..(n - 1)
      BY <3>1
    <3>3. \A i \in 1..Len(R[m]) : R[m][i] \in Remains
      <4>1. m \in G
        <5> HIDE DEF G, m
        <5> QED BY <1>3, <3>2
      <4> QED BY <4>1
    <3>4. top \in Remains
      <4>1. k - n + 1 \in 1..k
        BY <1>2, <3>1
      <4>2. body[k - n + 1] \in ToSet(body)
        BY <1>2, <4>1 DEF ToSet
      <4> QED BY <3>1, <4>2 DEF Put, Occurs
    <3> HIDE DEF m, Remains, top
    <3>5. ASSUME NEW i \in 1..Len(R[n]) PROVE R[n][i] \in Remains
      <4>1. i = 1 \/ (i - 1 \in 1..Len(R[m]) /\ (i - 1) + 1 = i)
        BY <3>1
      <4> QED BY <3>1, <3>3, <3>4, <4>1
    <3> QED BY <3>5
  <2> QED BY <2>1, <2>2
<1>4. G \in SUBSET (0..k)
  OBVIOUS
<1>5. k \in G
  <2> HIDE DEF G
  <2>1. 0..k \subseteq G
    BY <1>2, <1>3, <1>4, Upwards
  <2> QED BY <1>2, <2>1
<1>6. R[k] \in Seq(Parts) /\ DOMAIN R[k] = 1..Len(R[k])
  <2>1. R[k] \in Seq(Parts)
    BY <1>1, <1>2 DEF Stepwise, StepTo
  <2> QED BY <2>1, LenProperties
<1> QED BY <1>1, <1>5, <1>6 DEF ToSet

-----------------------------------------------------------------------------
(* Unfolding.                                                              *)

Piece(part) == IF part \in Nat THEN Body(part) ELSE <<part>>
UnfoldedOf(body) ==
  CHOOSE f : f = [n \in 0..Len(body) |->
    IF n = 0 THEN <<>>
    ELSE (IF body[Len(body) - n + 1] \in Nat THEN Body(body[Len(body) - n + 1])
          ELSE <<body[Len(body) - n + 1]>>) \o f[n - 1]]
UnfoldsStepwise(body, U) ==
  /\ U[0] = <<>>
  /\ \A n \in 0..Len(body) : U[n] \in Seq(Texts)
  /\ \A n \in 1..Len(body) : U[n] = Piece(body[Len(body) - n + 1]) \o U[n - 1]

LEMMA BodyIsText ==
  ASSUME Logged, NEW n \in DOMAIN log
  PROVE  Body(n) \in Seq(Texts) /\ Body(n) \in Seq(Parts) /\ Len(Body(n)) \in Nat \ {0}
<1>1. log[n].body \in Seq(Texts) /\ log[n].body # <<>>
  <2>1. log[n] \in Drafts
    BY EventsAreNumbers, ElementOfSeq DEF Logged
  <2> QED BY <2>1, BodiesHaveText
<1>2. Body(n) \in Seq(Texts) /\ Len(Body(n)) \in Nat \ {0}
  <2> DEFINE b == log[n].body
             h == Head(b)
  <2>1. b \in Seq(Texts) /\ Len(b) \in Nat \ {0} /\ h \in Texts
    <3> HIDE DEF b
    <3> QED BY <1>1, HeadTailProperties, EmptySeq, LenProperties DEF b
  <2> HIDE DEF b, h
  <2>2. <<h>> \in Seq(Texts) /\ Len(<<h>>) = 1
    BY <2>1
  <2>3. Body(n) = <<h>> \/ Body(n) = b
    BY DEF Body, b, h
  <2>4. CASE Body(n) = <<h>>
    <3>1. 1 \in Nat \ {0}
      OBVIOUS
    <3> QED BY <2>2, <2>4, <3>1, Zenon
  <2>5. CASE Body(n) = b
    BY <2>1, <2>5, Zenon
  <2> QED BY <2>3, <2>4, <2>5
<1>3. \A s \in Seq(Texts) : s \in Seq(Parts)
  BY DEF Parts
<1> QED BY <1>2, <1>3

LEMMA PieceIsText ==
  ASSUME Logged, NEW part \in Parts
  PROVE  Piece(part) \in Seq(Texts)
<1>1. CASE part \in Texts
  BY <1>1, TextsAreNoPointers DEF Piece
<1>2. CASE part \in DOMAIN log
  BY <1>2, BodyIsText, EventsAreNumbers DEF Piece
<1> QED BY <1>1, <1>2 DEF Parts

LEMMA UnfoldSteps ==
  ASSUME Logged, NEW body \in Seq(Parts), NEW U, U = UnfoldedOf(body)
  PROVE  UnfoldsStepwise(body, U) /\ Unfolded(body) = U[Len(body)]
<1> DEFINE k == Len(body)
           T == Seq(Texts)
           Step(f, n) == IF n = 0 THEN <<>> ELSE Piece(body[k - n + 1]) \o f[n - 1]
           F == [f \in [0..k -> T] |-> [n \in 0..k |-> Step(f, n)]]
<1>1. k \in Nat /\ \A n \in 1..k : k - n + 1 \in 1..k /\ Piece(body[k - n + 1]) \in T
  <2>1. k \in Nat /\ \A i \in 1..k : body[i] \in Parts
    BY LenProperties, ElementOfSeq
  <2>2. \A n \in 1..k : k - n + 1 \in 1..k
    BY <2>1
  <2> QED BY <2>1, <2>2, PieceIsText
<1>2. Unfolded(body) = UnfoldedOf(body)[k]
  BY Zenon DEF Unfolded, UnfoldedOf
<1>3. ASSUME NEW f, NEW n \in 0..k, n # 0 => f[n - 1] \in T PROVE Step(f, n) \in T
  <2>1. n # 0 => n \in 1..k
    OBVIOUS
  <2>2. \A s, t \in T : s \o t \in T
    BY ConcatProperties
  <2>3. <<>> \in T
    OBVIOUS
  <2> HIDE DEF T, k
  <2> QED BY <1>1, <1>3, <2>1, <2>2, <2>3
<1> HIDE DEF T, k
<1>4. Causal(F, k, T)
  <2>1. ASSUME NEW f \in [0..k -> T], NEW n \in 0..k PROVE F[f][n] = Step(f, n) /\ Step(f, n) \in T
    <3>1. n # 0 => n - 1 \in 0..k
      BY <1>1
    <3> HIDE DEF Step
    <3> QED BY <1>3, <3>1
  <2>2. ASSUME NEW f, NEW g, NEW n \in 0..k, \A m \in 0..(n - 1) : f[m] = g[m]
        PROVE  Step(f, n) = Step(g, n)
    <3>1. n # 0 => n - 1 \in 0..(n - 1)
      BY <1>1
    <3> QED BY <2>2, <3>1
  <2> HIDE DEF Step
  <2>3. F \in [[0..k -> T] -> [0..k -> T]]
    BY <2>1
  <2> HIDE DEF F
  <2> QED BY <2>1, <2>2, <2>3 DEF Causal
<1> HIDE DEF Step
<1>5. \E f : f = [n \in 0..k |-> Step(f, n)]
  <2>1. <<>> \in T
    BY DEF T
  <2>2. PICK f : FixedPoint(f, F, k, T)
    <3> HIDE DEF F
    <3> QED BY <1>1, <1>4, <2>1, FixedPointExists
  <2> QED BY <2>2 DEF FixedPoint
<1>6. U = [n \in 0..k |-> Step(U, n)]
  <2>1. UnfoldedOf(body) = CHOOSE f : f = [n \in 0..k |-> Step(f, n)]
    BY DEF UnfoldedOf, Step, Piece, k
  <2> DEFINE r == UnfoldedOf(body)
  <2>2. r = [n \in 0..k |-> Step(r, n)]
    BY <1>5, <2>1, Zenon
  <2> HIDE DEF r
  <2>3. U = r
    BY DEF r
  <2> QED BY <2>2, <2>3
<1>7. \A n \in 0..k : U[n] = Step(U, n)
  BY <1>6
<1>8. \A n \in 0..k : U[n] \in T
  <2> DEFINE G == {n \in 0..k : U[n] \in T}
  <2>1. 0 \in G
    BY <1>1, <1>3, <1>7
  <2>2. ASSUME NEW n \in 1..k, n - 1 \in G PROVE n \in G
    BY <1>1, <1>3, <1>7, <2>2
  <2>3. \A n \in 0..k : n \in G
    <3> HIDE DEF G
    <3> QED BY <1>1, <2>1, <2>2, OneByOne
  <2> QED BY <2>3
<1>9. 0 \in 0..k /\ \A n \in 1..k : n \in 0..k /\ n # 0
  BY <1>1
<1>10. UnfoldsStepwise(body, U)
  BY <1>7, <1>8, <1>9 DEF UnfoldsStepwise, Step, T, k
<1> QED BY <1>2, <1>10 DEF k

LEMMA UnfoldedIsText ==
  ASSUME Logged, NEW body \in Seq(Parts)
  PROVE  Unfolded(body) \in Seq(Texts) /\ Unfolded(<<>>) = <<>>
<1>1. PICK U : U = UnfoldedOf(body)
  OBVIOUS
<1>2. Unfolded(body) \in Seq(Texts)
  <2>1. UnfoldsStepwise(body, U) /\ Unfolded(body) = U[Len(body)]
    BY <1>1, UnfoldSteps
  <2>2. Len(body) \in 0..Len(body)
    BY LenProperties
  <2> QED BY <2>1, <2>2 DEF UnfoldsStepwise
<1>3. Unfolded(<<>>) = <<>>
  <2> DEFINE o == <<>>
  <2>1. o \in Seq(Parts) /\ Len(o) = 0
    OBVIOUS
  <2> HIDE DEF o
  <2>2. Unfolded(o) = UnfoldedOf(o)[0] /\ UnfoldedOf(o)[0] = <<>>
    BY <2>1, UnfoldSteps DEF UnfoldsStepwise
  <2> QED BY <2>2 DEF o
<1> QED BY <1>2, <1>3

LEMMA UnfoldPrefixed ==
  ASSUME Logged, NEW x \in Parts, NEW s \in Seq(Parts)
  PROVE  Unfolded(<<x>> \o s) = Piece(x) \o Unfolded(s)
<1> DEFINE b == <<x>> \o s
           k == Len(s)
<1>1. /\ b \in Seq(Parts) /\ k \in Nat /\ Len(b) = k + 1 /\ b[1] = x
      /\ \A i \in 1..k : b[i + 1] = s[i]
  BY Prefixed, LenProperties
<1> HIDE DEF b
<1>2. PICK U : U = UnfoldedOf(b)
  OBVIOUS
<1>3. PICK V : V = UnfoldedOf(s)
  OBVIOUS
<1>4. UnfoldsStepwise(b, U) /\ Unfolded(b) = U[k + 1]
  BY <1>1, <1>2, UnfoldSteps
<1>5. UnfoldsStepwise(s, V) /\ Unfolded(s) = V[k]
  BY <1>3, UnfoldSteps
<1> DEFINE G == {n \in 0..k : U[n] = V[n]}
<1>6. 0 \in G
  BY <1>1, <1>4, <1>5 DEF UnfoldsStepwise
<1>7. ASSUME NEW n \in 1..k, n - 1 \in G PROVE n \in G
  <2>1. n \in 0..k /\ n \in 1..(k + 1) /\ k - n + 1 \in 1..k /\ (k + 1) - n + 1 = (k - n + 1) + 1
    BY <1>1
  <2>2. b[(k + 1) - n + 1] = s[k - n + 1]
    BY <1>1, <2>1
  <2>3. U[n] = Piece(b[(k + 1) - n + 1]) \o U[n - 1]
    <3> HIDE DEF k
    <3> QED BY <1>1, <1>4, <2>1 DEF UnfoldsStepwise
  <2>4. V[n] = Piece(s[k - n + 1]) \o V[n - 1]
    BY <1>5 DEF UnfoldsStepwise
  <2> HIDE DEF k
  <2> QED BY <1>7, <2>1, <2>2, <2>3, <2>4
<1>8. U[k] = V[k]
  <2>1. \A n \in 0..k : n \in G
    <3> HIDE DEF G
    <3> QED BY <1>1, <1>6, <1>7, OneByOne
  <2> QED BY <1>1, <2>1
<1>9. U[k + 1] = Piece(x) \o U[k]
  <2>1. k + 1 \in 1..(k + 1) /\ (k + 1) - (k + 1) + 1 = 1 /\ (k + 1) - 1 = k
    BY <1>1
  <2>2. \A n \in 1..(k + 1) : U[n] = Piece(b[(k + 1) - n + 1]) \o U[n - 1]
    <3> HIDE DEF k
    <3> QED BY <1>1, <1>4 DEF UnfoldsStepwise
  <2>3. U[k + 1] = Piece(b[(k + 1) - (k + 1) + 1]) \o U[(k + 1) - 1]
    BY <2>1, <2>2
  <2> QED BY <1>1, <2>1, <2>3
<1> QED BY <1>4, <1>5, <1>8, <1>9 DEF b

\* The last n parts.
Suffix(body, n) == SubSeq(body, Len(body) - n + 1, Len(body))

LEMMA SuffixFacts ==
  ASSUME NEW S, NEW body \in Seq(S)
  PROVE  /\ Suffix(body, 0) = <<>> /\ Suffix(body, Len(body)) = body
         /\ \A n \in 0..Len(body) : Suffix(body, n) \in Seq(S)
         /\ \A n \in 1..Len(body) :
              Suffix(body, n) = <<body[Len(body) - n + 1]>> \o Suffix(body, n - 1)
<1> DEFINE k == Len(body)
<1>1. k \in Nat
  BY LenProperties
<1>2. Suffix(body, 0) = <<>>
  BY <1>1, SubSeqEmpty DEF Suffix
<1>3. Suffix(body, k) = body
  <2>1. k - k + 1 = 1
    BY <1>1
  <2> QED BY <2>1, SubSeqFull DEF Suffix
<1>4. ASSUME NEW n \in 0..k PROVE Suffix(body, n) \in Seq(S)
  <2>1. k - n + 1 \in Int /\ k \in Int /\ \A i \in (k - n + 1)..k : body[i] \in S
    <3>1. \A i \in (k - n + 1)..k : i \in 1..k
      BY <1>1
    <3> QED BY <1>1, <3>1, ElementOfSeq
  <2> QED BY <2>1, SubSeqProperties DEF Suffix
<1>5. ASSUME NEW n \in 1..k
      PROVE  Suffix(body, n) = <<body[k - n + 1]>> \o Suffix(body, n - 1)
  <2>1. k - n + 1 \in 1..k /\ k \in (k - n + 1)..k /\ k - (n - 1) + 1 = (k - n + 1) + 1
    BY <1>1
  <2> DEFINE m == k - n + 1
  <2>2. SubSeq(body, m, k) = <<body[m]>> \o SubSeq(body, m + 1, k)
    <3> HIDE DEF m
    <3> QED BY <2>1, SubSeqRecursiveFirst DEF m
  <2> QED BY <2>1, <2>2 DEF Suffix
<1>6. \A n \in 0..k : Suffix(body, n) \in Seq(S)
  BY <1>4
<1>7. \A n \in 1..k : Suffix(body, n) = <<body[k - n + 1]>> \o Suffix(body, n - 1)
  BY <1>5
<1> QED BY <1>2, <1>3, <1>6, <1>7

LEMMA SuffixCut ==
  ASSUME NEW S, NEW body \in Seq(S), NEW n \in 0..Len(body), NEW c \in 0..n
  PROVE  Suffix(body, n) =
           SubSeq(body, Len(body) - n + 1, Len(body) - n + 1 + c - 1) \o Suffix(body, n - c)
<1> DEFINE k == Len(body)
           m == k - n + 1
           h == k - n + c
<1>1. m \in 1..(k + 1) /\ h \in (m - 1)..k /\ k \in h..k /\ k - (n - c) + 1 = h + 1
      /\ k - n + 1 + c - 1 = h
  BY LenProperties
<1>2. SubSeq(body, m, h) \o SubSeq(body, h + 1, k) = SubSeq(body, m, k)
  <2> HIDE DEF m, h
  <2> QED BY <1>1, ConcatAdjacentSubSeq
<1> QED BY <1>1, <1>2 DEF Suffix

\* Text unfolds to itself.
LEMMA UnfoldText ==
  ASSUME Logged, NEW t \in Seq(Texts), NEW s \in Seq(Parts)
  PROVE  Unfolded(t \o s) = t \o Unfolded(s)
<1> DEFINE k == Len(t)
           u == Unfolded(s)
           G == {n \in 0..k : Unfolded(Suffix(t, n) \o s) = Suffix(t, n) \o u}
<1>1. k \in Nat /\ u \in Seq(Texts) /\ \A i \in 1..k : t[i] \in Texts /\ t[i] \in Parts /\ t[i] \notin Nat
  <2>1. \A i \in 1..k : t[i] \in Texts
    BY ElementOfSeq
  <2>2. u \in Seq(Texts)
    BY UnfoldedIsText
  <2> QED BY <2>1, <2>2, LenProperties, TextsAreNoPointers DEF Parts
<1>2. /\ Suffix(t, 0) = <<>> /\ Suffix(t, k) = t
      /\ \A n \in 0..k : Suffix(t, n) \in Seq(Texts)
      /\ \A n \in 1..k : Suffix(t, n) = <<t[k - n + 1]>> \o Suffix(t, n - 1)
  BY SuffixFacts
<1> HIDE DEF u
<1>3. 0 \in G
  <2>1. <<>> \o s = s /\ <<>> \o u = u
    BY <1>1, ConcatEmptySeq
  <2>2. Unfolded(Suffix(t, 0) \o s) = u /\ Suffix(t, 0) \o u = u
    BY <1>2, <2>1 DEF u
  <2> QED BY <1>1, <2>2
<1>4. ASSUME NEW n \in 1..k, n - 1 \in G PROVE n \in G
  <2> DEFINE x == t[k - n + 1]
             r == Suffix(t, n - 1)
  <2>1. /\ n \in 0..k /\ x \in Texts /\ x \in Parts /\ x \notin Nat
        /\ r \in Seq(Texts) /\ Suffix(t, n) = <<x>> \o r
    <3>1. n - 1 \in 0..k /\ k - n + 1 \in 1..k
      BY <1>1
    <3> QED BY SMTT(30), <1>1, <1>2, <3>1
  <2>2. Unfolded(r \o s) = r \o u
    BY <1>4
  <2> HIDE DEF x, r
  <2>3. r \in Seq(Parts) /\ <<x>> \in Seq(Parts) /\ <<x>> \in Seq(Texts) /\ r \o s \in Seq(Parts)
    <3>1. r \in Seq(Parts) /\ <<x>> \in Seq(Parts) /\ <<x>> \in Seq(Texts)
      BY <2>1 DEF Parts
    <3> QED BY <3>1, ConcatProperties
  <2>4. (<<x>> \o r) \o s = <<x>> \o (r \o s)
    BY <2>3, ConcatAssociative
  <2>5. (<<x>> \o r) \o u = <<x>> \o (r \o u)
    BY <1>1, <2>1, <2>3, ConcatAssociative
  <2>6. Unfolded(<<x>> \o (r \o s)) = <<x>> \o Unfolded(r \o s)
    BY <2>1, <2>3, UnfoldPrefixed DEF Piece
  <2> QED BY <2>1, <2>2, <2>4, <2>5, <2>6
<1>5. \A n \in 0..k : n \in G
  <2> HIDE DEF G
  <2> QED BY <1>1, <1>3, <1>4, OneByOne
<1>6. Unfolded(Suffix(t, k) \o s) = Suffix(t, k) \o u
  <2>1. k \in 0..k
    BY <1>1
  <2> QED BY <1>5, <2>1
<1> QED BY <1>2, <1>6 DEF u

LEMMA TextIsUnfolded ==
  ASSUME Logged, NEW t \in Seq(Texts)
  PROVE  Unfolded(t) = t
<1> DEFINE o == <<>>
<1>1. o \in Seq(Parts) /\ Unfolded(o) = o /\ t \o o = t
  <2>1. o \in Seq(Parts)
    OBVIOUS
  <2> QED BY <2>1, UnfoldedIsText, ConcatEmptySeq
<1> HIDE DEF o
<1> QED BY <1>1, UnfoldText

\* What is folded unfolds to what was there.
LEMMA UnfoldReplaced ==
  ASSUME NEW body, NEW part, NEW pointer, Replaceable(body, part, pointer), part = Body(pointer)
  PROVE  Unfolded(Replace(body, part, pointer)) = Unfolded(body)
<1>0. PICK R : R = ReplaceOf(body, part, pointer)
  OBVIOUS
<1> DEFINE k == Len(body)
           G == {n \in 0..k : Unfolded(R[n]) = Unfolded(Suffix(body, n))}
<1>1. Stepwise(body, part, pointer, R) /\ Replace(body, part, pointer) = R[k]
  BY <1>0, ReplaceSteps
<1>2. /\ k \in Nat /\ body \in Seq(Parts) /\ part \in Seq(Texts) /\ Logged
      /\ Len(part) \in Nat \ {0} /\ pointer \in Parts /\ pointer \in Nat
      /\ \A i \in 1..k : body[i] \in Parts
  BY ReplaceableFacts DEF Replaceable
<1>3. /\ Suffix(body, 0) = <<>> /\ Suffix(body, k) = body
      /\ \A n \in 0..k : Suffix(body, n) \in Seq(Parts)
      /\ \A n \in 1..k : Suffix(body, n) = <<body[k - n + 1]>> \o Suffix(body, n - 1)
  BY <1>2, SuffixFacts
<1>4. ASSUME NEW n \in 0..k, 0..(n - 1) \subseteq G PROVE n \in G
  <2>1. CASE n = 0
    BY <1>1, <1>3, <2>1 DEF Stepwise, StepTo
  <2>2. CASE n # 0
    <3> DEFINE m == n - Spent(body, part, n)
               r == R[m]
               z == Suffix(body, m)
    <3>1. /\ n \in 1..k /\ Spent(body, part, n) \in 1..n
          /\ R[n] = <<Put(body, part, pointer, n)>> \o r /\ Put(body, part, pointer, n) \in Parts
      <4>1. n \in 1..k
        BY <1>2, <2>2
      <4> QED BY <1>1, <4>1 DEF Stepwise, StepTo
    <3>2. m \in 0..(n - 1) /\ m \in 0..k
      BY <3>1
    <3>3. r \in Seq(Parts) /\ z \in Seq(Parts) /\ Unfolded(r) = Unfolded(z)
      <4>1. m \in G
        <5> HIDE DEF G, m
        <5> QED BY <1>4, <3>2
      <4>2. r \in Seq(Parts)
        BY <1>1, <3>2 DEF Stepwise, StepTo
      <4> QED BY <1>3, <3>2, <4>1, <4>2
    <3>4. CASE Starts(body, part, n)
      <4>1. Len(part) \in 0..n /\ m = n - Len(part) /\ Put(body, part, pointer, n) = pointer
        BY <1>2, <3>1, <3>4 DEF Spent, Put
      <4>2. Suffix(body, n) = part \o z
        BY <1>2, <3>4, <4>1, SuffixCut DEF Starts
      <4> HIDE DEF r, z
      <4>3. Unfolded(R[n]) = part \o Unfolded(r)
        BY <1>2, <3>1, <3>3, <4>1, UnfoldPrefixed DEF Piece
      <4>4. Unfolded(part \o z) = part \o Unfolded(z)
        BY <1>2, <3>3, UnfoldText
      <4> QED BY <3>3, <4>2, <4>3, <4>4
    <3>5. CASE ~Starts(body, part, n)
      <4>1. m = n - 1 /\ Put(body, part, pointer, n) = body[k - n + 1]
        BY <3>5 DEF Spent, Put
      <4>2. Suffix(body, n) = <<body[k - n + 1]>> \o z
        BY <1>3, <3>1, <4>1
      <4> DEFINE x == body[k - n + 1]
      <4>3. x \in Parts /\ R[n] = <<x>> \o r
        BY <3>1, <4>1
      <4> HIDE DEF r, z, x
      <4>4. Unfolded(<<x>> \o r) = Piece(x) \o Unfolded(r) /\ Unfolded(<<x>> \o z) = Piece(x) \o Unfolded(z)
        BY <1>2, <3>3, <4>3, UnfoldPrefixed
      <4> QED BY <3>3, <4>2, <4>3, <4>4 DEF x
    <3> QED BY <3>4, <3>5
  <2> QED BY <2>1, <2>2
<1>5. G \in SUBSET (0..k)
  OBVIOUS
<1>6. k \in G
  <2> HIDE DEF G
  <2>1. 0..k \subseteq G
    BY <1>2, <1>4, <1>5, Upwards
  <2> QED BY <1>2, <2>1
<1> QED BY <1>1, <1>3, <1>6

-----------------------------------------------------------------------------
(* Folding.                                                                *)

Folds(k, shown) == k \in shown /\ Bytes(Body(k)) >= FoldMin
FoldedOf(n, shown) ==
  CHOOSE f : f = [k \in 0..(n - 1) |->
    IF k = 0 THEN Body(n)
    ELSE IF Folds(k, shown) THEN Replace(f[k - 1], Body(k), k) ELSE f[k - 1]]
FoldsStepwise(n, shown, f) ==
  /\ f[0] = Body(n)
  /\ \A k \in 0..(n - 1) : f[k] \in Seq(Parts)
  /\ \A k \in 1..(n - 1) :
       f[k] = IF Folds(k, shown) THEN Replace(f[k - 1], Body(k), k) ELSE f[k - 1]

LEMMA BodiesAreReplaceable ==
  ASSUME Logged, NEW k \in DOMAIN log, NEW body \in Seq(Parts)
  PROVE  Replaceable(body, Body(k), k)
BY BodyIsText DEF Replaceable

LEMMA FoldSteps ==
  ASSUME Logged, NEW n \in DOMAIN log, NEW shown, NEW f, f = FoldedOf(n, shown)
  PROVE  FoldsStepwise(n, shown, f) /\ Folded(n, shown) = f[n - 1]
<1> DEFINE K == 0..(n - 1)
           P == Seq(Parts)
           Step(g, k) == IF k = 0 THEN Body(n)
                         ELSE IF Folds(k, shown) THEN Replace(g[k - 1], Body(k), k) ELSE g[k - 1]
           F == [g \in [K -> P] |-> [k \in K |-> Step(g, k)]]
<1>1. n - 1 \in Nat /\ \A k \in 1..(n - 1) : k \in DOMAIN log /\ k \in K /\ k - 1 \in K
  BY EventsAreNumbers
<1>2. Folded(n, shown) = FoldedOf(n, shown)[n - 1]
  BY Zenon DEF Folded, FoldedOf, Folds
<1>3. ASSUME NEW g, NEW k \in K, k # 0 => g[k - 1] \in P PROVE Step(g, k) \in P
  <2>1. k # 0 => k \in 1..(n - 1)
    BY <1>1
  <2>2. CASE k # 0
    <3>1. Replaceable(g[k - 1], Body(k), k)
      BY <1>1, <1>3, <2>1, <2>2, BodiesAreReplaceable
    <3>2. Replace(g[k - 1], Body(k), k) \in P
      BY <3>1, WhatReplacingLeaves
    <3> QED BY <1>3, <2>2, <3>2
  <2>3. CASE k = 0
    BY <2>3, BodyIsText
  <2> QED BY <2>2, <2>3
<1>4. ASSUME NEW g, NEW h, NEW k \in K, \A m \in 0..(k - 1) : g[m] = h[m]
      PROVE  Step(g, k) = Step(h, k)
  <2>1. k # 0 => k - 1 \in 0..(k - 1)
    BY <1>1
  <2> QED BY <1>4, <2>1
<1> HIDE DEF P, Step
<1>5. Causal(F, n - 1, P)
  <2>1. ASSUME NEW g \in [K -> P], NEW k \in K PROVE F[g][k] = Step(g, k) /\ Step(g, k) \in P
    <3>1. k # 0 => k - 1 \in K
      BY <1>1
    <3> QED BY <1>3, <3>1
  <2>2. F \in [[K -> P] -> [K -> P]]
    BY <2>1
  <2> HIDE DEF F
  <2> QED BY <1>4, <2>1, <2>2 DEF Causal
<1>6. \E g : g = [k \in K |-> Step(g, k)]
  <2>1. <<>> \in P
    BY DEF P
  <2>2. PICK g : FixedPoint(g, F, n - 1, P)
    <3> HIDE DEF F
    <3> QED BY <1>1, <1>5, <2>1, FixedPointExists
  <2> QED BY <2>2 DEF FixedPoint
<1>7. f = [k \in K |-> Step(f, k)]
  <2>1. FoldedOf(n, shown) = CHOOSE g : g = [k \in K |-> Step(g, k)]
    BY DEF FoldedOf, Step
  <2> DEFINE r == FoldedOf(n, shown)
  <2>2. r = [k \in K |-> Step(r, k)]
    BY <1>6, <2>1, Zenon
  <2> HIDE DEF r
  <2>3. f = r
    BY DEF r
  <2> QED BY <2>2, <2>3
<1>8. \A k \in K : f[k] = Step(f, k)
  BY <1>7
<1>9. \A k \in 0..(n - 1) : f[k] \in P
  <2> DEFINE G == {k \in K : f[k] \in P}
  <2>1. 0 \in G
    BY <1>1, <1>3, <1>8
  <2>2. ASSUME NEW k \in 1..(n - 1), k - 1 \in G PROVE k \in G
    BY <1>1, <1>3, <1>8, <2>2
  <2>3. \A k \in 0..(n - 1) : k \in G
    <3> HIDE DEF G
    <3> QED BY <1>1, <2>1, <2>2, OneByOne
  <2> QED BY <2>3
<1>10. 0 \in K /\ \A k \in 1..(n - 1) : k \in K /\ k # 0
  BY <1>1
<1> QED BY <1>2, <1>8, <1>9, <1>10 DEF FoldsStepwise, Step, P

LEMMA OccursWithin ==
  ASSUME NEW p \in Seq(Parts), NEW q \in Seq(Parts), NEW b \in Seq(Parts), Len(p) > 0,
         Occurs(p, q), Occurs(q, b)
  PROVE  Occurs(p, b)
<1>1. Len(p) \in Nat /\ Len(q) \in Nat /\ Len(b) \in Nat
  BY LenProperties
<1>2. PICK m \in 1..Len(q) : Len(p) <= m /\ \A j \in 1..Len(p) : q[Len(q) - m + j] = p[j]
  BY StartsIs DEF Occurs
<1>3. PICK n \in 1..Len(b) : Len(q) <= n /\ \A j \in 1..Len(q) : b[Len(b) - n + j] = q[j]
  BY StartsIs DEF Occurs
<1> DEFINE h == n - Len(q) + m
<1>4. h \in 1..Len(b) /\ Len(p) <= h
  BY <1>1, <1>2, <1>3
<1>5. ASSUME NEW j \in 1..Len(p) PROVE b[Len(b) - h + j] = p[j]
  <2> DEFINE i == Len(q) - m + j
  <2>1. i \in 1..Len(q) /\ Len(b) - h + j = Len(b) - n + i
    BY <1>1, <1>2, <1>3
  <2>2. q[i] = p[j]
    BY <1>2
  <2> HIDE DEF i, h
  <2> QED BY <1>3, <2>1, <2>2
<1> HIDE DEF h
<1> QED BY <1>4, <1>5, StartsIs DEF Occurs

\* What the first k events leave of a body: it unfolds to the body, points to events of
\* which it held the body, and holds no body that could still be folded.
FoldSound(n, shown, f, k) ==
  /\ Unfolded(f[k]) = Body(n)
  /\ \A x \in ToSet(f[k]) \cap Nat :
       x \in 1..k /\ Folds(x, shown) /\ Occurs(Body(x), f[x - 1])
  /\ \A m \in 1..k : Folds(m, shown) => ~Occurs(Body(m), f[k])

LEMMA FoldingIsSound ==
  ASSUME Logged, NEW n \in DOMAIN log, NEW shown, NEW f, f = FoldedOf(n, shown)
  PROVE  \A k \in 0..(n - 1) : FoldSound(n, shown, f, k)
<1> DEFINE G == {k \in 0..(n - 1) : FoldSound(n, shown, f, k)}
<1>1. FoldsStepwise(n, shown, f)
  BY FoldSteps
<1>2. n - 1 \in Nat /\ \A k \in 1..(n - 1) : k \in DOMAIN log /\ k \in 0..(n - 1) /\ k - 1 \in 0..(n - 1)
  BY EventsAreNumbers
<1>3. 0 \in G
  <2>1. f[0] = Body(n) /\ 1..0 = {} /\ 0 \in 0..(n - 1)
    BY <1>1, <1>2 DEF FoldsStepwise
  <2>2. Body(n) \in Seq(Texts)
    BY BodyIsText
  <2>3. Unfolded(Body(n)) = Body(n)
    BY <2>2, TextIsUnfolded
  <2>4. ToSet(Body(n)) \cap Nat = {}
    <3>1. \A i \in DOMAIN Body(n) : Body(n)[i] \in Texts
      BY <2>2, ElementOfSeq, LenProperties
    <3> QED BY <3>1, TextsAreNoPointers DEF ToSet
  <2> QED BY <2>1, <2>3, <2>4 DEF FoldSound
<1>4. ASSUME NEW k \in 1..(n - 1), k - 1 \in G PROVE k \in G
  <2> DEFINE b == f[k - 1]
  <2>1. /\ b \in Seq(Parts) /\ f[k] \in Seq(Parts) /\ k \in DOMAIN log /\ k \in 1..k
        /\ k - 1 \in 0..(n - 1) /\ k \in 0..(n - 1) /\ k \in Nat /\ 1..(k - 1) \subseteq 1..k
        /\ \A m \in 1..k : m \in DOMAIN log /\ (m = k \/ m \in 1..(k - 1))
    <3>1. \A m \in 1..k : m \in 1..(n - 1)
      BY <1>2
    <3> QED BY <1>1, <1>2, <3>1 DEF FoldsStepwise
  <2>2. /\ Unfolded(b) = Body(n)
        /\ \A x \in ToSet(b) \cap Nat :
             x \in 1..(k - 1) /\ Folds(x, shown) /\ Occurs(Body(x), f[x - 1])
        /\ \A m \in 1..(k - 1) : Folds(m, shown) => ~Occurs(Body(m), b)
    BY <1>4 DEF FoldSound
  <2>3. CASE ~Folds(k, shown)
    <3>1. f[k] = b
      BY <1>1, <2>3 DEF FoldsStepwise
    <3> HIDE DEF b
    <3>2. FoldSound(n, shown, f, k)
      BY <2>1, <2>2, <2>3, <3>1 DEF FoldSound
    <3> QED BY <2>1, <3>2
  <2>4. CASE Folds(k, shown)
    <3>1. f[k] = Replace(b, Body(k), k)
      BY <1>1, <2>4 DEF FoldsStepwise
    <3>2. Replaceable(b, Body(k), k)
      BY <2>1, BodiesAreReplaceable
    <3>3. Unfolded(f[k]) = Body(n)
      BY <2>2, <3>1, <3>2, UnfoldReplaced
    <3> HIDE DEF b
    <3>4. \A x \in ToSet(f[k]) : x \in ToSet(b) \/ (x = k /\ Occurs(Body(k), b))
      BY <3>1, <3>2, WhatReplacingLeaves
    <3>5. \A x \in ToSet(f[k]) \cap Nat :
            x \in 1..k /\ Folds(x, shown) /\ Occurs(Body(x), f[x - 1])
      BY <2>1, <2>2, <2>4, <3>4 DEF b
    <3>6. ASSUME NEW m \in 1..k, Folds(m, shown), Occurs(Body(m), f[k]) PROVE FALSE
      <4>1. Body(m) \in Seq(Texts) /\ Len(Body(m)) > 0
        BY <2>1, BodyIsText
      <4>2. Occurs(Body(m), b) /\ Body(m) # Body(k)
        BY <3>1, <3>2, <3>6, <4>1, ReplacedIsGone
      <4> QED BY <2>1, <2>2, <3>6, <4>2
    <3>7. FoldSound(n, shown, f, k)
      BY <3>3, <3>5, <3>6 DEF FoldSound
    <3> QED BY <2>1, <3>7
  <2> QED BY <2>3, <2>4
<1>5. \A k \in 0..(n - 1) : k \in G
  <2> HIDE DEF G
  <2> QED BY <1>2, <1>3, <1>4, OneByOne
<1> QED BY <1>5

LEMMA PointersResolve ==
  ASSUME Logged, NEW n \in DOMAIN log, NEW shown
  PROVE  /\ \A k \in ToSet(Folded(n, shown)) \cap Nat :
              k \in shown /\ k < n /\ Folded(k, shown) = Body(k)
         /\ Unfolded(Folded(n, shown)) = Body(n)
<1>1. PICK f : f = FoldedOf(n, shown)
  OBVIOUS
<1>2. n - 1 \in 0..(n - 1) /\ n \in Nat
  BY EventsAreNumbers
<1>3. /\ Folded(n, shown) = f[n - 1] /\ FoldsStepwise(n, shown, f)
      /\ \A k \in 0..(n - 1) : FoldSound(n, shown, f, k)
  BY <1>1, FoldSteps, FoldingIsSound
<1>4. ASSUME NEW k \in ToSet(f[n - 1]) \cap Nat
      PROVE  k \in shown /\ k < n /\ Folded(k, shown) = Body(k)
  <2>1. k \in 1..(n - 1) /\ Folds(k, shown) /\ Occurs(Body(k), f[k - 1])
    BY <1>2, <1>3 DEF FoldSound
  <2>2. /\ k - 1 \in 0..(n - 1) /\ k \in DOMAIN log /\ k < n /\ k - 1 \in Nat
        /\ \A i \in 1..(k - 1) : i \in DOMAIN log
    BY <2>1, EventsAreNumbers
  <2>3. f[k - 1] \in Seq(Parts)
    BY <1>3, <2>2 DEF FoldsStepwise
  <2>4. ASSUME NEW i \in 1..(k - 1), Folds(i, shown) PROVE ~Occurs(Body(i), Body(k))
    <3>1. ~Occurs(Body(i), f[k - 1])
      BY <1>3, <2>2, <2>4 DEF FoldSound
    <3>2. Body(i) \in Seq(Parts) /\ Len(Body(i)) > 0 /\ Body(k) \in Seq(Parts)
      BY <2>2, BodyIsText
    <3> QED BY <2>1, <2>3, <3>1, <3>2, OccursWithin
  <2>5. PICK g : g = FoldedOf(k, shown)
    OBVIOUS
  <2>6. FoldsStepwise(k, shown, g) /\ Folded(k, shown) = g[k - 1]
    BY <2>2, <2>5, FoldSteps
  <2> DEFINE G == {i \in 0..(k - 1) : g[i] = Body(k)}
  <2>7. 0 \in G
    BY <2>2, <2>6 DEF FoldsStepwise
  <2>8. ASSUME NEW i \in 1..(k - 1), i - 1 \in G PROVE i \in G
    <3>1. i \in 0..(k - 1) /\ g[i - 1] = Body(k) /\ i \in DOMAIN log
      BY <2>2, <2>8
    <3>2. g[i] = IF Folds(i, shown) THEN Replace(Body(k), Body(i), i) ELSE Body(k)
      BY <2>6, <3>1 DEF FoldsStepwise
    <3>3. Replaceable(Body(k), Body(i), i)
      BY <2>2, <3>1, BodyIsText, BodiesAreReplaceable
    <3>4. Folds(i, shown) => Replace(Body(k), Body(i), i) = Body(k)
      BY <2>4, <3>3, NothingReplaced
    <3> QED BY <3>1, <3>2, <3>4
  <2>9. \A i \in 0..(k - 1) : i \in G
    <3> HIDE DEF G
    <3> QED BY <2>2, <2>7, <2>8, OneByOne
  <2> QED BY <2>1, <2>2, <2>6, <2>9 DEF Folds
<1> QED BY <1>2, <1>3, <1>4 DEF FoldSound
-----------------------------------------------------------------------------
(* Pairing.                                                                *)

PairingOf ==
  CHOOSE f : f = [n \in 0..Len(log) |->
    IF n = 0 THEN <<>>
    ELSE Append(f[n - 1], IF Is(n, "tool_output") THEN PairWith(n, ToSet(f[n - 1])) ELSE 0)]

\* What the first n events are paired with: each output with a call that no earlier one has.
PairedSoFar(p, n) ==
  /\ p \in Seq(Nat) /\ Len(p) = n
  /\ \A i \in 1..n :
       p[i] = IF Is(i, "tool_output") THEN PairWith(i, {p[m] : m \in 1..(i - 1)}) ELSE 0

LEMMA MaxIs ==
  ASSUME NEW k \in Nat, NEW T \in SUBSET (0..k), T # {}
  PROVE  Max(T) \in T /\ \A y \in T : y <= Max(T)
<1>1. \E x \in T : \A y \in T : x >= y
  <2>1. PICK x \in T : \A y \in T : y <= x
    BY MaxExists
  <2>2. \A y \in T : x >= y
    BY <2>1
  <2> QED BY <2>2
<1>2. Max(T) \in T /\ \A y \in T : Max(T) >= y
  BY <1>1, Zenon DEF Max
<1> QED BY <1>2

FreeCalls(n, taken) == {k \in 1..(n - 1) : Is(k, "tool_call")} \ taken
OwnCalls(n, taken) ==
  {k \in FreeCalls(n, taken) : log[n].call # None /\ log[k].call = log[n].call}

\* The free call that an output is paired with, if there is one, and its own if it is free
\* and the only one of its id.
LEMMA PairWithIs ==
  ASSUME Logged, NEW n \in DOMAIN log, NEW taken
  PROVE  /\ PairWith(n, taken) \in {0} \cup FreeCalls(n, taken)
         /\ \A k : OwnCalls(n, taken) = {k} => PairWith(n, taken) = k
<1> DEFINE free == FreeCalls(n, taken)
           own == OwnCalls(n, taken)
           T == {0} \cup (IF own = {} THEN free ELSE own)
<1>1. n \in Nat /\ n >= 1
  BY EventsAreNumbers
<1>2. PairWith(n, taken) = Max(T)
  BY Zenon DEF PairWith, FreeCalls, OwnCalls
<1>3. own \subseteq free /\ free \subseteq 1..(n - 1)
  BY DEF FreeCalls, OwnCalls
<1> HIDE DEF free, own
<1>4. T \in SUBSET (0..n) /\ T # {} /\ T \subseteq {0} \cup free
  BY <1>1, <1>3
<1>5. ASSUME NEW k, own = {k} PROVE T = {0, k} /\ k \in 1..(n - 1)
  BY <1>3, <1>5
<1> HIDE DEF T
<1>6. Max(T) \in T /\ \A y \in T : y <= Max(T)
  BY <1>1, <1>4, MaxIs
<1>7. ASSUME NEW k, own = {k} PROVE Max(T) = k
  BY <1>5, <1>6, <1>7
<1>8. PairWith(n, taken) \in {0} \cup free /\ \A k : own = {k} => PairWith(n, taken) = k
  BY <1>2, <1>4, <1>6, <1>7
<1> QED BY <1>8 DEF free, own

LEMMA PairWithIsNumber ==
  ASSUME Logged, NEW n \in DOMAIN log, NEW taken
  PROVE  PairWith(n, taken) \in Nat
<1>1. n \in Nat /\ n >= 1
  BY EventsAreNumbers
<1> QED BY <1>1, PairWithIs DEF FreeCalls

LEMMA PairingIs ==
  ASSUME Logged
  PROVE  PairedSoFar(Pairing, Len(log))
<1> DEFINE k == Len(log)
           P == Seq(Nat)
           Mate(f, n) == IF Is(n, "tool_output") THEN PairWith(n, ToSet(f[n - 1])) ELSE 0
           Step(f, n) == IF n = 0 THEN <<>> ELSE Append(f[n - 1], Mate(f, n))
           F == [f \in [0..k -> P] |-> [n \in 0..k |-> Step(f, n)]]
           e == PairingOf
<1>1. k \in Nat /\ DOMAIN log = 1..k
  BY EventsAreNumbers
<1>2. Pairing = e[k]
  BY Zenon DEF Pairing, PairingOf
<1>3. ASSUME NEW f, NEW n \in 1..k PROVE Mate(f, n) \in Nat
  BY <1>1, <1>3, PairWithIsNumber
<1>4. \E f : f = [n \in 0..k |-> Step(f, n)]
  <2> HIDE DEF Mate, k
  <2>1. ASSUME NEW f \in [0..k -> P], NEW n \in 0..k PROVE F[f][n] = Step(f, n) /\ Step(f, n) \in P
    <3>1. n # 0 => n \in 1..k /\ n - 1 \in 0..k
      BY <1>1
    <3>2. n # 0 => Append(f[n - 1], Mate(f, n)) \in P
      BY <1>3, <3>1, AppendProperties
    <3> QED BY <3>2
  <2>2. F \in [[0..k -> P] -> [0..k -> P]]
    BY <2>1
  <2>3. ASSUME NEW f, NEW g, NEW n \in 0..k, \A m \in 0..(n - 1) : f[m] = g[m]
        PROVE  Step(f, n) = Step(g, n)
    <3>1. n # 0 => n - 1 \in 0..(n - 1)
      BY <1>1
    <3> QED BY <2>3, <3>1 DEF Mate
  <2>4. Causal(F, k, P)
    <3> HIDE DEF F, P, Step
    <3> QED BY <2>1, <2>2, <2>3 DEF Causal
  <2>5. <<>> \in P
    OBVIOUS
  <2>6. PICK f : FixedPoint(f, F, k, P)
    <3> HIDE DEF F, P
    <3> QED BY <1>1, <2>4, <2>5, FixedPointExists
  <2> QED BY <2>6 DEF FixedPoint
<1>5. e = [n \in 0..k |-> Step(e, n)]
  <2>1. e = CHOOSE f : f = [n \in 0..k |-> Step(f, n)]
    BY DEF PairingOf
  <2> HIDE DEF e, Step
  <2> QED BY <1>4, <2>1, Zenon
<1> HIDE DEF e, k
<1> DEFINE G == {n \in 0..k : PairedSoFar(e[n], n)}
<1>6. 0 \in G
  <2>1. 0 \in 0..k /\ e[0] = <<>>
    BY <1>1, <1>5
  <2>2. PairedSoFar(<<>>, 0)
    BY DEF PairedSoFar
  <2> QED BY <2>1, <2>2
<1>7. ASSUME NEW n \in 1..k, n - 1 \in G PROVE n \in G
  <2> DEFINE p == e[n - 1]
             v == Mate(e, n)
  <2>1. n \in 0..k /\ n # 0 /\ n \in Nat
    BY <1>1
  <2>2. e[n] = Append(p, v)
    BY <1>5, <2>1
  <2>3. PairedSoFar(p, n - 1) /\ v \in Nat
    BY <1>3, <1>7
  <2>4. v = IF Is(n, "tool_output") THEN PairWith(n, ToSet(p)) ELSE 0
    OBVIOUS
  <2> HIDE DEF p, v
  <2>5. /\ p \in Seq(Nat) /\ Len(p) = n - 1 /\ DOMAIN p = 1..(n - 1)
        /\ \A i \in 1..(n - 1) :
             p[i] = IF Is(i, "tool_output") THEN PairWith(i, {p[m] : m \in 1..(i - 1)}) ELSE 0
    <3>1. p \in Seq(Nat) /\ Len(p) = n - 1
      BY <2>3 DEF PairedSoFar
    <3>2. DOMAIN p = 1..(n - 1)
      BY <3>1, LenProperties
    <3> QED BY <2>3, <3>1, <3>2 DEF PairedSoFar
  <2> DEFINE q == Append(p, v)
  <2>6. /\ q \in Seq(Nat) /\ Len(q) = n /\ q[n] = v
        /\ \A i \in 1..(n - 1) : q[i] = p[i]
    BY <2>1, <2>3, <2>5, AppendProperties
  <2>7. ToSet(p) = {p[m] : m \in 1..(n - 1)}
    BY <2>5 DEF ToSet
  <2> HIDE DEF q
  <2>8. ASSUME NEW i \in 1..n PROVE {q[m] : m \in 1..(i - 1)} = {p[m] : m \in 1..(i - 1)}
    <3>1. 1..(i - 1) \subseteq 1..(n - 1)
      BY <2>1
    <3>2. \A m \in 1..(i - 1) : q[m] = p[m]
      BY <2>6, <3>1
    <3> QED BY <3>2
  <2>9. ASSUME NEW i \in 1..n
        PROVE  q[i] = IF Is(i, "tool_output") THEN PairWith(i, {q[m] : m \in 1..(i - 1)}) ELSE 0
    <3>1. CASE i = n
      BY <2>4, <2>6, <2>7, <2>8, <3>1
    <3>2. CASE i # n
      <4>1. i \in 1..(n - 1)
        BY <2>1, <3>2
      <4>2. q[i] = IF Is(i, "tool_output") THEN PairWith(i, {p[m] : m \in 1..(i - 1)}) ELSE 0
        BY <2>5, <2>6, <4>1
      <4> QED BY <2>8, <4>2
    <3> QED BY <3>1, <3>2
  <2>10. PairedSoFar(q, n)
    BY <2>6, <2>9 DEF PairedSoFar
  <2> QED BY <2>1, <2>2, <2>10 DEF q
<1>8. \A n \in 0..k : n \in G
  <2> HIDE DEF G
  <2> QED BY <1>1, <1>6, <1>7, OneByOne
<1> QED BY <1>1, <1>2, <1>8 DEF k

\* An output is paired with an earlier call, and no two with the same one.
LEMMA PairsAreApart ==
  ASSUME Logged, NEW p, PairedSoFar(p, Len(log))
  PROVE  /\ \A n \in DOMAIN log : p[n] # 0 =>
              /\ Is(n, "tool_output") /\ Is(p[n], "tool_call")
              /\ p[n] \in DOMAIN log /\ p[n] \in 1..(n - 1)
         /\ \A m, n \in DOMAIN log : p[m] = p[n] /\ p[m] # 0 => m = n
<1>1. DOMAIN log = 1..Len(log) /\ DOMAIN log \subseteq Nat /\ Len(log) \in Nat
  BY EventsAreNumbers
<1>2. ASSUME NEW n \in DOMAIN log, p[n] # 0
      PROVE  /\ Is(n, "tool_output") /\ p[n] \in 1..(n - 1) /\ Is(p[n], "tool_call")
             /\ p[n] \notin {p[m] : m \in 1..(n - 1)}
  <2>1. Is(n, "tool_output") /\ p[n] = PairWith(n, {p[m] : m \in 1..(n - 1)})
    BY <1>1, <1>2 DEF PairedSoFar
  <2> QED BY <1>2, <2>1, PairWithIs DEF FreeCalls
<1>3. ASSUME NEW m \in DOMAIN log, NEW n \in DOMAIN log, p[m] = p[n], p[m] # 0 PROVE m = n
  <2>1. ~(m \in 1..(n - 1))
    BY <1>2, <1>3
  <2>2. ~(n \in 1..(m - 1))
    BY <1>2, <1>3
  <2> QED BY <1>1, <2>1, <2>2
<1>4. ASSUME NEW n \in DOMAIN log, p[n] # 0 PROVE p[n] \in DOMAIN log
  <2>1. p[n] \in 1..(n - 1)
    BY <1>2, <1>4
  <2> QED BY <1>1, <2>1
<1> QED BY <1>2, <1>3, <1>4

-----------------------------------------------------------------------------
(* Groups, and what is cut between them.                                   *)

GroupOf(p, k) == {k} \cup {n \in DOMAIN log : p[n] = k}
Openers == {n \in DOMAIN log : Is(n, "message") \/ Is(n, "tool_call")}

LEMMA GroupsAre == Groups = {GroupOf(Pairing, k) : k \in Openers}
BY Zenon DEF Groups, GroupOf, Openers

LEMMA GroupsAreEvents ==
  ASSUME Logged, NEW S \in SUBSET (Groups \cup Singles)
  PROVE  UNION S \subseteq DOMAIN log
<1>1. \A g \in Groups : g \subseteq DOMAIN log
  BY GroupsAre DEF GroupOf, Openers
<1>2. \A g \in Singles : g \subseteq DOMAIN log
  BY DEF Singles
<1> QED BY <1>1, <1>2

\* An output that is shown comes with the call that it is paired with, and the two are in
\* no other group.
LEMMA OutputsHaveCalls ==
  ASSUME Logged, NEW p, p = Pairing, NEW g \in Groups \cup Singles, NEW n \in g
  PROVE  /\ Is(n, "tool_output") => g = GroupOf(p, p[n]) /\ p[n] # 0 /\ n \in DOMAIN log
         /\ Is(n, "tool_call") => g = GroupOf(p, n) /\ n \in DOMAIN log
<1> USE DEF Is
<1>1. PairedSoFar(p, Len(log))
  BY PairingIs
<1>2. /\ DOMAIN log \subseteq Nat \ {0}
      /\ \A m \in DOMAIN log : p[m] # 0 => Is(m, "tool_output")
  <2>1. DOMAIN log \subseteq Nat \ {0}
    BY EventsAreNumbers
  <2> QED BY <1>1, <2>1, PairsAreApart
<1>3. CASE g \in Singles
  BY <1>3 DEF Singles, TranscriptKinds
<1>4. CASE g \in Groups
  <2>1. PICK k \in Openers : g = GroupOf(p, k)
    BY <1>4, GroupsAre
  <2>2. k \in DOMAIN log /\ (Is(k, "message") \/ Is(k, "tool_call"))
    BY <2>1 DEF Openers
  <2>3. n = k \/ (n \in DOMAIN log /\ p[n] = k)
    BY <2>1 DEF GroupOf
  <2> QED BY <1>2, <2>1, <2>2, <2>3
<1> QED BY <1>3, <1>4

\* However groups are chosen, no more outputs are shown than calls up to any event.
LEMMA CutsBalance ==
  ASSUME Logged, NEW S \in SUBSET (Groups \cup Singles)
  PROVE  Balanced(UNION S)
<1> SUFFICES ASSUME NEW n \in UNION S
             PROVE  Cardinality({k \in UNION S : k <= n /\ Is(k, "tool_output")})
                      <= Cardinality({k \in UNION S : k <= n /\ Is(k, "tool_call")})
  BY DEF Balanced
<1> DEFINE A == {k \in UNION S : k <= n /\ Is(k, "tool_output")}
           B == {k \in UNION S : k <= n /\ Is(k, "tool_call")}
<1>1. PICK p : p = Pairing
  OBVIOUS
<1>2. PairedSoFar(p, Len(log))
  BY <1>1, PairingIs
<1>3. UNION S \subseteq DOMAIN log /\ DOMAIN log = 1..Len(log) /\ Len(log) \in Nat /\ DOMAIN log \subseteq Nat
  BY GroupsAreEvents, EventsAreNumbers
<1> DEFINE f == [k \in A |-> p[k]]
<1>4. ASSUME NEW k \in A PROVE f[k] \in B /\ f[k] # 0 /\ k \in DOMAIN log
  <2>1. PICK g \in S : k \in g
    OBVIOUS
  <2>2. g = GroupOf(p, p[k]) /\ p[k] # 0 /\ k \in DOMAIN log
    BY <1>1, <2>1, OutputsHaveCalls
  <2>3. Is(p[k], "tool_call") /\ p[k] \in 1..(k - 1)
    BY <1>2, <2>2, PairsAreApart
  <2>4. p[k] \in UNION S
    BY <2>1, <2>2 DEF GroupOf
  <2>5. k \in Nat /\ n \in Nat
    BY <1>3, <2>2
  <2>6. k <= n
    OBVIOUS
  <2>7. p[k] <= n
    BY <2>3, <2>5, <2>6
  <2> QED BY <2>2, <2>3, <2>4, <2>7
<1>5. f \in Injection(A, B)
  <2>1. f \in [A -> B]
    BY <1>4
  <2>2. ASSUME NEW k \in A, NEW m \in A, f[k] = f[m] PROVE k = m
    <3>1. p[k] = p[m] /\ p[k] # 0 /\ k \in DOMAIN log /\ m \in DOMAIN log
      BY <1>4, <2>2
    <3> QED BY <1>2, <3>1, PairsAreApart
  <2> HIDE DEF f, A, B
  <2> QED BY <2>1, <2>2 DEF Injection, IsInjective
<1>6. IsFiniteSet(B)
  <2>1. IsFiniteSet(1..Len(log))
    BY <1>3, FS_Interval
  <2>2. B \in SUBSET (1..Len(log))
    BY <1>3
  <2> HIDE DEF B
  <2> QED BY <2>1, <2>2, FS_Subset
<1> HIDE DEF f, A, B
<1>7. IsFiniteSet(A) /\ Cardinality(A) <= Cardinality(B)
  BY <1>5, <1>6, FS_Injection
<1> QED BY <1>7 DEF A, B

\* What Latest and Window choose from.
LEMMA CutsAreOfGroups ==
  /\ \A j : \E S \in SUBSET Visible : Latest(Visible, j) = UNION S
  /\ \A sources, before, after :
       \E S \in SUBSET (Groups \cup Singles) : Window(sources, before, after) = UNION S
<1>1. ASSUME NEW j PROVE \E S \in SUBSET Visible : Latest(Visible, j) = UNION S
  <2> DEFINE S == {g \in Visible : Cardinality({h \in Visible : Min(h) > Min(g)}) < j}
  <2>1. S \in SUBSET Visible /\ Latest(Visible, j) = UNION S
    BY DEF Latest
  <2> QED BY <2>1
<1>2. ASSUME NEW sources, NEW before, NEW after
      PROVE  \E S \in SUBSET (Groups \cup Singles) : Window(sources, before, after) = UNION S
  <2> DEFINE all == Groups \cup Singles
             place == [g \in all |-> Cardinality({h \in all : Min(h) < Min(g)})]
             S == {g \in all : \E h \in all :
                     h \cap sources # {} /\ place[g] \in (place[h] - before)..(place[h] + after)}
  <2>1. Window(sources, before, after) = UNION S
    BY Zenon DEF Window
  <2>2. S \in SUBSET (Groups \cup Singles)
    BY Zenon
  <2> QED BY <2>1, <2>2
<1> QED BY <1>1, <1>2

LEMMA LatestIsACut ==
  ASSUME Logged, NEW j
  PROVE  /\ \E S \in SUBSET (Groups \cup Singles) : Latest(Visible, j) = UNION S
         /\ Latest(Visible, j) \subseteq DOMAIN log
<1>1. \E S \in SUBSET (Groups \cup Singles) : Latest(Visible, j) = UNION S
  BY CutsAreOfGroups DEF Visible
<1> QED BY <1>1, GroupsAreEvents

LEMMA CallsComeFirst == Logged => OutputsFollowCalls
<1> SUFFICES ASSUME Logged PROVE OutputsFollowCalls
  OBVIOUS
<1>1. \A j : Balanced(Latest(Visible, j))
  <2> SUFFICES ASSUME NEW j PROVE Balanced(Latest(Visible, j))
    OBVIOUS
  <2>1. PICK S \in SUBSET (Groups \cup Singles) : Latest(Visible, j) = UNION S
    BY LatestIsACut
  <2> QED BY <2>1, CutsBalance
<1>2. \A sources, before, after : Balanced(Window(sources, before, after))
  <2> SUFFICES ASSUME NEW sources, NEW before, NEW after PROVE Balanced(Window(sources, before, after))
    OBVIOUS
  <2>1. PICK S \in SUBSET (Groups \cup Singles) : Window(sources, before, after) = UNION S
    BY CutsAreOfGroups
  <2> QED BY <2>1, CutsBalance
<1> QED BY <1>1, <1>2 DEF OutputsFollowCalls

\* Where every output answers a call of its own id, it is paired with that call.
LEMMA AnswersArePaired ==
  ASSUME Logged, Matched, NEW p, PairedSoFar(p, Len(log)), NEW n \in DOMAIN log,
         NEW k \in DOMAIN log, Answers(n, k)
  PROVE  p[n] = k
<1> USE DEF Is
<1> DEFINE K == Len(log)
           G == {m \in 0..K : \A c \in DOMAIN log : m # 0 /\ Answers(m, c) => p[m] = c}
<1>1. K \in Nat /\ DOMAIN log = 1..K
  BY EventsAreNumbers
<1>2. ASSUME NEW m \in 0..K, 0..(m - 1) \subseteq G PROVE m \in G
  <2> SUFFICES ASSUME NEW c \in DOMAIN log, m # 0, Answers(m, c) PROVE p[m] = c
    OBVIOUS
  <2> DEFINE taken == {p[i] : i \in 1..(m - 1)}
             own == OwnCalls(m, taken)
  <2>1. m \in DOMAIN log /\ c \in 1..(m - 1) /\ Is(m, "tool_output") /\ Is(c, "tool_call")
        /\ log[m].call = log[c].call /\ log[m].call # None /\ 1..(m - 1) \subseteq DOMAIN log
    BY <1>1 DEF Answers, Matched
  <2>2. ASSUME NEW i \in 1..(m - 1), p[i] = c PROVE FALSE
    <3>1. i \in DOMAIN log /\ i # m /\ c # 0 /\ i # 0 /\ i \in G
      <4>1. i \in 0..(m - 1)
        OBVIOUS
      <4> HIDE DEF G
      <4> QED BY <1>1, <1>2, <2>1, <4>1
    <3>2. Is(i, "tool_output")
      BY <2>2, <3>1, PairsAreApart
    <3>3. PICK d \in DOMAIN log : Answers(i, d)
      BY <3>1, <3>2 DEF Matched
    <3>4. d = c
      BY <2>2, <3>1, <3>3
    <3>5. log[i].call = log[m].call
      BY <2>1, <3>3, <3>4 DEF Answers
    <3> QED BY <2>1, <3>1, <3>2, <3>5 DEF Matched
  <2>3. c \in own
    BY <2>1, <2>2 DEF OwnCalls, FreeCalls
  <2>4. ASSUME NEW i \in own PROVE i = c
    <3>1. i \in DOMAIN log /\ Is(i, "tool_call") /\ log[i].call = log[c].call
      BY <2>1 DEF OwnCalls, FreeCalls
    <3> QED BY <2>1, <3>1 DEF Matched
  <2>5. own = {c}
    <3> HIDE DEF own
    <3> QED BY <2>3, <2>4
  <2>6. p[m] = PairWith(m, taken)
    BY <1>1, <2>1 DEF PairedSoFar
  <2> HIDE DEF taken
  <2> QED BY <2>1, <2>5, <2>6, PairWithIs
<1>3. G \in SUBSET (0..K)
  OBVIOUS
<1>4. 0..K \subseteq G
  <2> HIDE DEF G, K
  <2> QED BY <1>1, <1>2, <1>3, Upwards
<1>5. n \in G /\ n # 0
  <2> HIDE DEF G
  <2> QED BY <1>1, <1>4
<1> QED BY <1>5

\* So one group has both of them, and no other has one.
LEMMA AnswersAreTogether == Logged => AnswersStayTogether
<1> SUFFICES ASSUME Logged, Matched, NEW n \in DOMAIN log, NEW k \in DOMAIN log, Answers(n, k)
             PROVE  /\ \A j \in 1..Offered : n \in Latest(Visible, j) <=> k \in Latest(Visible, j)
                    /\ \A m \in DOMAIN log : n \in Window({m}, 0, 1) <=> k \in Window({m}, 0, 1)
  BY DEF AnswersStayTogether
<1>1. PICK p : p = Pairing
  OBVIOUS
<1>2. p[n] = k
  BY <1>1, PairingIs, AnswersArePaired
<1>3. n \in GroupOf(p, k) /\ k \in GroupOf(p, k)
  BY <1>2 DEF GroupOf
<1>4. ASSUME NEW g \in Groups \cup Singles PROVE n \in g <=> k \in g
  <2>1. n \in g => g = GroupOf(p, k)
    BY <1>1, <1>2, OutputsHaveCalls DEF Answers
  <2>2. k \in g => g = GroupOf(p, k)
    BY <1>1, OutputsHaveCalls DEF Answers
  <2> QED BY <1>3, <2>1, <2>2
<1>5. \A S \in SUBSET (Groups \cup Singles) : n \in UNION S <=> k \in UNION S
  BY <1>4
<1>6. \A j : n \in Latest(Visible, j) <=> k \in Latest(Visible, j)
  BY <1>5, LatestIsACut
<1>7. \A m : n \in Window({m}, 0, 1) <=> k \in Window({m}, 0, 1)
  BY <1>5, CutsAreOfGroups
<1> QED BY <1>6, <1>7

LEMMA EveryFoldResolves == Logged => FoldsResolve
<1> SUFFICES ASSUME Logged, NEW j PROVE
      LET shown == Latest(Visible, j)
      IN \A n \in shown :
         /\ \A k \in ToSet(Folded(n, shown)) \cap Nat :
              k \in shown /\ k < n /\ Folded(k, shown) = Body(k)
         /\ Unfolded(Folded(n, shown)) = Body(n)
  BY DEF FoldsResolve
<1> DEFINE shown == Latest(Visible, j)
<1>1. shown \subseteq DOMAIN log
  BY LatestIsACut
<1> HIDE DEF shown
<1>2. \A n \in shown :
         /\ \A k \in ToSet(Folded(n, shown)) \cap Nat :
              k \in shown /\ k < n /\ Folded(k, shown) = Body(k)
         /\ Unfolded(Folded(n, shown)) = Body(n)
  BY <1>1, PointersResolve
<1> QED BY <1>2 DEF shown

LEMMA StaysLogged == Init /\ [][Next]_log => []Logged
<1>1. Init => Logged
  BY DEF Init, Logged
<1>2. Logged /\ [Next]_log => Logged'
  <2> SUFFICES ASSUME Logged, [Next]_log PROVE Logged'
    OBVIOUS
  <2>1. CASE Next
    <3>1. PICK draft \in Drafts : log' = Append(log, draft)
      BY <2>1 DEF Next, Record
    <3> QED BY <3>1, AppendProperties DEF Logged
  <2>2. CASE UNCHANGED log
    BY <2>2 DEF Logged
  <2> QED BY <2>1, <2>2
<1> QED BY <1>1, <1>2, PTL

\* No cut of the transcript misrepresents the conversation, for any events, any choice of
\* a packet and any window: no output without its call, no pointer that leads nowhere.
THEOREM TranscriptsAreSound == Spec => []TranscriptSound
<1>1. Logged => TranscriptSound
  BY CallsComeFirst, AnswersAreTogether, EveryFoldResolves DEF TranscriptSound
<1> QED BY <1>1, StaysLogged, PTL DEF Spec

-----------------------------------------------------------------------------
(* The shapes of a log.                                                    *)

SectionOf(shown) ==
  CHOOSE f : f = [n \in 0..Len(log) |->
    IF n = 0 THEN SectionHead
    ELSE IF n \in shown THEN f[n - 1] + 2 + FrameBytes + Bytes(Folded(n, shown)) ELSE f[n - 1]]

LEMMA FoldedIsSized ==
  ASSUME Logged, NEW n \in DOMAIN log, NEW shown
  PROVE  Bytes(Folded(n, shown)) \in Nat
<1>1. PICK f : f = FoldedOf(n, shown)
  OBVIOUS
<1>2. FoldsStepwise(n, shown, f) /\ Folded(n, shown) = f[n - 1]
  BY <1>1, FoldSteps
<1>3. n - 1 \in 0..(n - 1)
  BY EventsAreNumbers
<1>4. Folded(n, shown) \in Seq(Parts)
  BY <1>2, <1>3 DEF FoldsStepwise
<1> QED BY <1>4, BytesIsNumber

LEMMA SectionIsNumber ==
  ASSUME Logged, NEW shown
  PROVE  SectionBytes(shown) \in Nat
<1> DEFINE k == Len(log)
           add(n) == 2 + FrameBytes + Bytes(Folded(n, shown))
           Step(f, n) == IF n = 0 THEN SectionHead
                         ELSE IF n \in shown THEN f[n - 1] + 2 + FrameBytes + Bytes(Folded(n, shown))
                         ELSE f[n - 1]
           F == [f \in [0..k -> Nat] |-> [n \in 0..k |-> Step(f, n)]]
           e == SectionOf(shown)
<1>1. k \in Nat /\ DOMAIN log = 1..k /\ FrameBytes \in Nat /\ SectionHead \in Nat
  BY EventsAreNumbers, Sizes, SizesOfParts
<1>2. SectionBytes(shown) = e[k]
  BY Zenon DEF SectionBytes, SectionOf
<1>3. \A n \in 1..k : Bytes(Folded(n, shown)) \in Nat
  BY <1>1, FoldedIsSized
<1>4. ASSUME NEW f, NEW n \in 0..k, n # 0 => f[n - 1] \in Nat PROVE Step(f, n) \in Nat
  <2>1. n # 0 => n \in 1..k
    OBVIOUS
  <2> HIDE DEF k
  <2> QED BY <1>1, <1>3, <1>4, <2>1
<1>5. ASSUME NEW f, NEW g, NEW n \in 0..k, \A m \in 0..(n - 1) : f[m] = g[m]
      PROVE  Step(f, n) = Step(g, n)
  <2>1. n # 0 => n - 1 \in 0..(n - 1)
    BY <1>1
  <2> QED BY <1>5, <2>1
<1> HIDE DEF k
<1>6. \E f : f = [n \in 0..k |-> Step(f, n)]
  <2> HIDE DEF Step
  <2>1. ASSUME NEW f \in [0..k -> Nat], NEW n \in 0..k PROVE F[f][n] = Step(f, n) /\ Step(f, n) \in Nat
    <3>1. n # 0 => n - 1 \in 0..k
      BY <1>1
    <3> QED BY <1>4, <3>1
  <2>2. F \in [[0..k -> Nat] -> [0..k -> Nat]]
    BY <2>1
  <2>3. Causal(F, k, Nat)
    <3> HIDE DEF F
    <3> QED BY <1>5, <2>1, <2>2 DEF Causal
  <2>4. PICK f : FixedPoint(f, F, k, Nat)
    <3> HIDE DEF F
    <3> QED BY <1>1, <2>3, FixedPointExists
  <2> QED BY <2>4 DEF FixedPoint
<1>7. e = [n \in 0..k |-> Step(e, n)]
  <2>1. e = CHOOSE f : f = [n \in 0..k |-> Step(f, n)]
    BY DEF SectionOf, k
  <2> HIDE DEF e, Step
  <2> QED BY <1>6, <2>1, Zenon
<1> HIDE DEF e, Step
<1> DEFINE G == {n \in 0..k : e[n] \in Nat}
<1>8. 0 \in G
  <2>1. 0 \in 0..k
    BY <1>1
  <2> QED BY <1>4, <1>7, <2>1
<1>9. ASSUME NEW n \in 1..k, n - 1 \in G PROVE n \in G
  <2>1. n \in 0..k /\ e[n] = Step(e, n)
    BY <1>1, <1>7
  <2> QED BY <1>4, <1>9, <2>1
<1>10. \A n \in 0..k : n \in G
  <2> HIDE DEF G
  <2> QED BY <1>1, <1>8, <1>9, OneByOne
<1> QED BY <1>1, <1>2, <1>10

LEMMA CountsOfLog ==
  ASSUME Logged
  PROVE  /\ Offered \in Nat
         /\ Cardinality(Eligible) \in Nat /\ (Eligible # {} => Cardinality(Eligible) > 0)
         /\ \A shown : Cardinality(DOMAIN log \ shown) \in Nat
<1>1. IsFiniteSet(DOMAIN log)
  BY EventsAreNumbers, FS_Interval
<1>2. Groups \subseteq SUBSET DOMAIN log
  BY GroupsAre DEF GroupOf, Openers
<1>3. IsFiniteSet(SUBSET DOMAIN log)
  BY <1>1, FS_SUBSET
<1>4. Offered \in Nat
  <2> DEFINE O == {g \in Visible : g \subseteq Latest(Visible, RecentCount)}
  <2>1. O \in SUBSET (SUBSET DOMAIN log)
    BY <1>2 DEF Visible
  <2>2. Offered = Cardinality(O)
    BY DEF Offered
  <2> HIDE DEF O
  <2> QED BY <1>3, <2>1, <2>2, FS_Subset, FS_CardinalityType
<1>5. Eligible \in SUBSET DOMAIN log
  BY DEF Eligible
<1>6. IsFiniteSet(Eligible)
  BY <1>1, <1>5, FS_Subset
<1>7. Cardinality(Eligible) \in Nat /\ (Cardinality(Eligible) = 0 <=> Eligible = {})
  BY <1>6, FS_CardinalityType, FS_EmptySet
<1>8. ASSUME NEW shown PROVE Cardinality(DOMAIN log \ shown) \in Nat
  <2>1. IsFiniteSet(DOMAIN log \ shown)
    BY <1>1, FS_Difference
  <2> QED BY <2>1, FS_CardinalityType
<1> QED BY <1>4, <1>7, <1>8

LEMMA ShapesAreShapes ==
  ASSUME Logged, NEW s \in Shapes
  PROVE  /\ IsShape(s)
         /\ Len(s.entries) = Cardinality(Eligible)
         /\ \A budget, query : s.hides[ChosenGroups(s, budget, query)] \in Nat
<1>1. PICK blocks \in BlockSizes : s = Shape(blocks)
  BY DEF Shapes
<1> DEFINE m == Cardinality(Eligible)
           entries == [j \in 1..m |-> SectionHead + j * (2 + EntryBytes)]
           section == [j \in 1..Offered |-> SectionBytes(Latest(Visible, j))]
           hides == [j \in 0..Offered |-> Cardinality(DOMAIN log \ (Hidden \cup Latest(Visible, j)))]
<1>2. /\ Offered \in Nat /\ m \in Nat /\ blocks \in Nat /\ SectionHead \in Nat /\ EntryBytes \in Nat
  BY CountsOfLog, Sizes
<1>3. s.blocks = blocks /\ s.section = section /\ s.hides = hides /\ s.entries = entries
  BY <1>1, Zenon DEF Shape
<1>4. entries \in Seq(Nat) /\ Len(entries) = m
  <2>1. \A j \in 1..m : j * (2 + EntryBytes) \in Nat
    BY <1>2
  <2> HIDE DEF m
  <2>2. \A j \in 1..m : SectionHead + j * (2 + EntryBytes) \in Nat
    BY <1>2, <2>1
  <2>3. entries \in [1..m -> Nat]
    BY <2>2
  <2> HIDE DEF entries
  <2> QED BY <1>2, <2>3
<1>5. section \in Seq(Nat) /\ Len(section) = Offered
  <2>1. section \in [1..Offered -> Nat]
    BY SectionIsNumber
  <2> HIDE DEF section
  <2> QED BY <1>2, <2>1
<1>6. \A j \in 0..Offered : hides[j] \in Nat
  BY CountsOfLog
<1>7. IsShape(s)
  <2> HIDE DEF section, entries, m
  <2> QED BY <1>2, <1>3, <1>4, <1>5 DEF IsShape
<1>8. ASSUME NEW budget, NEW query PROVE ChosenGroups(s, budget, query) \in 0..Offered
  <2>1. Len(s.section) = Offered
    BY <1>3, <1>5
  <2> QED BY <1>2, <2>1, LongestFits DEF ChosenGroups, Fitting
<1> HIDE DEF hides, entries
<1> QED BY <1>3, <1>4, <1>6, <1>7, <1>8

\* Whatever the log, no packet that is not refused is over its budget, and with a query
\* the transcript leaves room for a memory.
LEMMA EveryPacketIsSound == Logged => PacketSound
<1> SUFFICES ASSUME Logged PROVE PacketSound
  OBVIOUS
<1>1. Budgets \subseteq Nat
  BY SizesOfParts
<1>2. ASSUME NEW s \in Shapes, NEW budget \in Budgets, NEW query \in BOOLEAN, ~Refused(s, budget)
      PROVE  Tokens(PacketBytes(s, budget, query, s.hides[ChosenGroups(s, budget, query)])) <= budget
  BY <1>1, <1>2, ShapesAreShapes, WithinBudget
<1>3. ASSUME Eligible # {}, NEW s \in Shapes, NEW budget \in Budgets, ~Refused(s, budget),
             Tokens(2 + s.entries[1]) <= Reserve(s, budget, TRUE)
      PROVE  ChosenEntries(s, budget, TRUE) > 0
  <2>1. IsShape(s) /\ Len(s.entries) > 0
    BY <1>3, ShapesAreShapes, CountsOfLog
  <2> QED BY <1>1, <1>3, <2>1, RetrievalHasRoom
<1> QED BY <1>2, <1>3 DEF PacketSound, PacketFits, RoomForMemories

\* No packet of any log is over its budget, or crowds out every memory.
THEOREM PacketsAreSound == Spec => []PacketSound
BY EveryPacketIsSound, StaysLogged, PTL DEF Spec
-----------------------------------------------------------------------------
(* Removals.  What a removal has ticked off is gone, unless it noticed that  *)
(* it could not be sure: so it may forget when nothing is left to do.        *)

IsSetup ==
  /\ run = [kind |-> "setup", project |-> run.project, hosts |-> run.hosts,
            surfaces |-> run.surfaces, todo |-> run.todo, stage |-> run.stage]
  /\ run.project \in Projects /\ run.hosts \in SUBSET Hosts /\ run.surfaces \in SurfaceChoices

IsRemoval ==
  /\ run = [kind |-> "removal", project |-> run.project, hosts |-> run.hosts,
            surfaces |-> run.surfaces, todo |-> run.todo, delete |-> run.delete,
            incomplete |-> run.incomplete, stage |-> run.stage]
  /\ run.project \in Projects /\ run.incomplete \in BOOLEAN

SetupTypes ==
  /\ DOMAIN hooks = Projects /\ hooks = [p \in Projects |-> hooks[p]]
  /\ DOMAIN config = Projects /\ config = [p \in Projects |-> config[p]]
  /\ registered \subseteq Projects \X Hosts
  /\ run # Nothing => IsSetup \/ IsRemoval

Gone ==
  Running("removal") =>
    /\ run.stage = "data" => run.todo = {}
    /\ \A h \in run.hosts :
         /\ "hook" \in run.surfaces /\ <<"hook", h>> \notin run.todo => h \notin hooks[run.project]
         /\ "mcp" \in run.surfaces /\ <<"mcp", h>> \notin run.todo /\ ~run.incomplete =>
              <<run.project, h>> \notin registered

SetupInv == SetupTypes /\ Gone

SafeStep ==
  \A p \in Projects :
    /\ CleanedUp(p)
    /\ Running("removal") /\ run.project # p => Untouched(p)

\* The fields that a step of a removal leaves alone.
LEMMA RemovalGoesOn ==
  ASSUME IsRemoval, NEW todo, NEW incomplete \in BOOLEAN, NEW stage,
         \/ run' = [run EXCEPT !.todo = todo] /\ incomplete = run.incomplete /\ stage = run.stage
         \/ /\ run' = [run EXCEPT !.todo = todo, !.incomplete = incomplete] /\ stage = run.stage
         \/ run' = [run EXCEPT !.stage = stage] /\ incomplete = run.incomplete /\ todo = run.todo
  PROVE  /\ IsRemoval' /\ run'.kind = "removal" /\ run'.project = run.project
         /\ run'.hosts = run.hosts /\ run'.surfaces = run.surfaces /\ run'.todo = todo
         /\ run'.incomplete = incomplete /\ run'.stage = stage
<1> DEFINE old == [kind |-> "removal", project |-> run.project, hosts |-> run.hosts,
                   surfaces |-> run.surfaces, todo |-> run.todo, delete |-> run.delete,
                   incomplete |-> run.incomplete, stage |-> run.stage]
           new == [kind |-> "removal", project |-> run.project, hosts |-> run.hosts,
                   surfaces |-> run.surfaces, todo |-> todo, delete |-> run.delete,
                   incomplete |-> incomplete, stage |-> stage]
<1>1. run = old
  BY DEF IsRemoval
<1>2. run' = new
  <2>1. CASE run' = [old EXCEPT !.todo = todo] /\ incomplete = old.incomplete /\ stage = old.stage
    BY <2>1
  <2>2. CASE run' = [old EXCEPT !.todo = todo, !.incomplete = incomplete] /\ stage = old.stage
    BY <2>2
  <2>3. CASE run' = [old EXCEPT !.stage = stage] /\ incomplete = old.incomplete /\ todo = old.todo
    BY <2>3
  <2> HIDE DEF old, new
  <2> QED BY <1>1, <2>1, <2>2, <2>3
<1> QED BY <1>2 DEF IsRemoval

LEMMA SetupGoesOn ==
  ASSUME IsSetup, NEW x, NEW stage,
         run' = [run EXCEPT !.todo = x] \/ run' = [run EXCEPT !.stage = stage]
  PROVE  IsSetup' /\ run'.kind = "setup"
<1> DEFINE old == [kind |-> "setup", project |-> run.project, hosts |-> run.hosts,
                   surfaces |-> run.surfaces, todo |-> run.todo, stage |-> run.stage]
           new(todo, at) == [kind |-> "setup", project |-> run.project, hosts |-> run.hosts,
                             surfaces |-> run.surfaces, todo |-> todo, stage |-> at]
<1>1. run = old
  BY DEF IsSetup
<1>2. run' = new(x, run.stage) \/ run' = new(run.todo, stage)
  <2>1. [old EXCEPT !.todo = x] = new(x, run.stage) /\ [old EXCEPT !.stage = stage] = new(run.todo, stage)
    OBVIOUS
  <2> HIDE DEF old, new
  <2> QED BY <1>1, <2>1
<1>3. run.project \in Projects /\ run.hosts \in SUBSET Hosts /\ run.surfaces \in SurfaceChoices
  BY DEF IsSetup
<1>4. CASE run' = new(x, run.stage)
  BY <1>3, <1>4 DEF IsSetup
<1>5. CASE run' = new(run.todo, stage)
  BY <1>3, <1>5 DEF IsSetup
<1> QED BY <1>2, <1>4, <1>5

LEMMA KindsDiffer ==
  ASSUME SetupTypes
  PROVE  /\ Running("setup") => IsSetup /\ ~Running("removal")
         /\ Running("removal") => IsRemoval /\ ~Running("setup")
  BY DEF SetupTypes, Running, IsSetup, IsRemoval

LEMMA SetupStep ==
  SetupInv /\ [NextSetup]_setupVars => SetupInv' /\ (UNCHANGED setupVars \/ SafeStep)
<1> SUFFICES ASSUME SetupInv, [NextSetup]_setupVars
             PROVE  SetupInv' /\ (UNCHANGED setupVars \/ SafeStep)
  OBVIOUS
<1> DEFINE Goal == SetupInv' /\ (UNCHANGED setupVars \/ SafeStep)
<1>0. SetupTypes /\ Gone
  BY DEF SetupInv
\* Steps that are of no removal, and forget and delete nothing.
<1>a. ASSUME ~Running("removal"), ~Running("removal")', SetupTypes',
             \A p \in Projects : config'[p] = config[p] \/ config'[p] # Nothing,
             database \subseteq database'
      PROVE  Goal
  BY <1>a DEF SetupInv, Gone, SafeStep, CleanedUp
<1>1. CASE UNCHANGED setupVars
  BY <1>0, <1>1 DEF setupVars, SetupInv, SetupTypes, Gone, Running, IsRemoval, IsSetup
<1>2. ASSUME NEW p \in Projects, NEW hosts \in SUBSET Hosts, NEW surfaces \in SurfaceChoices,
             StartSetup(p, hosts, surfaces)
      PROVE  Goal
  <2>1. /\ IsSetup' /\ run'.kind = "setup" /\ run = Nothing
        /\ UNCHANGED <<hooks, registered, config, database>>
    BY <1>2 DEF StartSetup, IsSetup
  <2> QED BY <1>0, <1>a, <2>1 DEF SetupTypes, Running
<1>3. ASSUME NEW h \in Hosts, InstallHook(h) PROVE Goal
  <2>1. IsSetup' /\ run'.kind = "setup" /\ ~Running("removal")
    BY <1>0, <1>3, SetupGoesOn, KindsDiffer DEF InstallHook
  <2>2. SetupTypes'
    BY <1>0, <1>3, <2>1 DEF InstallHook, SetupTypes
  <2> QED BY <1>3, <1>a, <2>1, <2>2 DEF InstallHook, Running
<1>4. ASSUME NEW h \in Hosts, NEW found \in BOOLEAN, Register(h, found) PROVE Goal
  <2>1. IsSetup' /\ run'.kind = "setup" /\ ~Running("removal") /\ run.project \in Projects
    BY <1>0, <1>4, SetupGoesOn, KindsDiffer DEF Register, IsSetup
  <2>2. SetupTypes'
    BY <1>0, <1>4, <2>1 DEF Register, SetupTypes, Taken
  <2> QED BY <1>4, <1>a, <2>1, <2>2 DEF Register, Running
<1>5. CASE WriteConfig
  <2>1. IsSetup' /\ run'.kind = "setup" /\ ~Running("removal") /\ IsSetup
    BY <1>0, <1>5, SetupGoesOn, KindsDiffer DEF WriteConfig
  <2>2. Config(run.hosts, run.surfaces) # Nothing
    BY <2>1, NothingIsNoConfig DEF IsSetup
  <2>3. SetupTypes'
    BY <1>0, <1>5, <2>1 DEF WriteConfig, SetupTypes
  <2>4. \A p \in Projects : config'[p] = config[p] \/ config'[p] # Nothing
    BY <1>0, <1>5, <2>2 DEF WriteConfig, SetupTypes
  <2> QED BY <1>5, <1>a, <2>1, <2>3, <2>4 DEF WriteConfig, Running
<1>6. CASE OpenDatabase
  <2>1. ~Running("removal") /\ SetupTypes'
    BY <1>0, <1>6, KindsDiffer DEF OpenDatabase, SetupTypes
  <2> QED BY <1>6, <1>a, <2>1 DEF OpenDatabase, Running
<1>7. ASSUME NEW p \in Projects, NEW named \in SUBSET Hosts, NEW delete \in BOOLEAN,
             StartRemoval(p, named, delete)
      PROVE  Goal
  <2>1. /\ IsRemoval' /\ run = Nothing /\ run'.todo = run'.surfaces \X run'.hosts
        /\ run'.stage = "surfaces"
        /\ UNCHANGED <<hooks, registered, config, database>>
    BY <1>7 DEF StartRemoval, IsRemoval
  <2>2. SetupTypes' /\ SafeStep
    BY <1>0, <2>1 DEF SetupTypes, SafeStep, CleanedUp, Running
  <2>3. Gone'
    BY <2>1 DEF Gone
  <2> QED BY <2>2, <2>3 DEF SetupInv
<1>8. ASSUME NEW h \in Hosts, RemoveHook(h) PROVE Goal
  <2> DEFINE rest == run.todo \ {<<"hook", h>>}
  <2>1. /\ IsRemoval /\ Running("removal") /\ run.project \in Projects
        /\ run' = [run EXCEPT !.todo = rest] /\ run.incomplete \in BOOLEAN
        /\ <<"hook", h>> \in run.todo
        /\ hooks' = [hooks EXCEPT ![run.project] = @ \ {h}]
        /\ UNCHANGED <<registered, config, database>>
    BY <1>0, <1>8, KindsDiffer DEF RemoveHook, IsRemoval, Pending
  <2> HIDE DEF rest
  <2>2. /\ IsRemoval' /\ run'.project = run.project /\ run'.hosts = run.hosts
        /\ run'.surfaces = run.surfaces /\ run'.todo = rest
        /\ run'.incomplete = run.incomplete /\ run'.stage = run.stage
    BY <2>1, RemovalGoesOn
  <2>3. SetupTypes'
    BY <1>0, <2>1, <2>2 DEF SetupTypes
  <2>4. /\ hooks'[run.project] = hooks[run.project] \ {h}
        /\ \A q \in Projects : q # run.project => hooks'[q] = hooks[q]
    BY <1>0, <2>1 DEF SetupTypes
  <2>5. Gone'
    BY <1>0, <2>1, <2>2, <2>4 DEF Gone, rest
  <2>6. SafeStep
    BY <2>1, <2>4 DEF SafeStep, CleanedUp, Untouched
  <2> QED BY <2>3, <2>5, <2>6 DEF SetupInv
<1>9. ASSUME NEW h \in Hosts, NEW found \in BOOLEAN, Unregister(h, found) PROVE Goal
  <2> DEFINE rest == run.todo \ {<<"mcp", h>>}
             p == run.project
             certain == Verified(run.project, h, found)
             incomplete == run.incomplete \/ ~certain
  <2>1. /\ IsRemoval /\ Running("removal") /\ p \in Projects
        /\ run' = [run EXCEPT !.todo = rest, !.incomplete = incomplete]
        /\ incomplete \in BOOLEAN /\ <<"mcp", h>> \in run.todo
        /\ registered' = IF found /\ certain THEN registered \ Removable(p, h) ELSE registered
        /\ UNCHANGED <<hooks, config, database>>
    BY <1>0, <1>9, KindsDiffer DEF Unregister, IsRemoval, Pending, Verified
  <2>2. certain =>
          /\ found
          /\ h \in Inspected => \A r \in registered : r[2] = h => r[1] = p \/ <<p, r[1]>> \in EndsIn
    BY DEF Verified
  <2> HIDE DEF rest, certain
  <2>3. /\ IsRemoval' /\ run'.project = run.project /\ run'.hosts = run.hosts
        /\ run'.surfaces = run.surfaces /\ run'.todo = rest
        /\ run'.incomplete = incomplete /\ run'.stage = run.stage
    BY <2>1, RemovalGoesOn
  <2>4. SetupTypes'
    BY <1>0, <2>1, <2>3 DEF SetupTypes
  <2>5. registered' \subseteq registered /\ (certain => <<p, h>> \notin registered')
    BY <2>1, <2>2 DEF Removable
  <2>6. Gone'
    BY <1>0, <2>1, <2>3, <2>5 DEF Gone, rest
  <2>7. ASSUME NEW q \in Projects, q # p, NEW k \in Hosts, <<q, k>> \in registered \ registered'
        PROVE  k \in Shared /\ (k \in Inspected => <<p, q>> \in EndsIn)
    <3>1. certain /\ <<q, k>> \in Removable(p, h)
      BY <2>1, <2>7
    <3>2. k = h /\ (h \notin Shared => q = p)
      BY <3>1 DEF Removable
    <3> QED BY <2>2, <2>7, <3>1, <3>2
  <2>8. SafeStep
    BY <2>1, <2>7 DEF SafeStep, CleanedUp, Untouched
  <2> QED BY <2>4, <2>6, <2>8 DEF SetupInv
<1>10. CASE Forget
  <2>1. /\ IsRemoval /\ Running("removal") /\ run.project \in Projects
        /\ run' = [run EXCEPT !.stage = "data"] /\ run.incomplete \in BOOLEAN
        /\ run.todo = {}
        /\ config' = IF run.incomplete THEN config ELSE [config EXCEPT ![run.project] = Nothing]
        /\ UNCHANGED <<hooks, registered, database>>
    BY <1>0, <1>10, KindsDiffer DEF Forget, IsRemoval
  <2>2. /\ IsRemoval' /\ run'.project = run.project /\ run'.hosts = run.hosts
        /\ run'.surfaces = run.surfaces /\ run'.todo = run.todo
        /\ run'.incomplete = run.incomplete /\ run'.stage = "data"
    BY <2>1, RemovalGoesOn
  <2>3. SetupTypes'
    BY <1>0, <2>1, <2>2 DEF SetupTypes
  <2>4. Gone'
    BY <1>0, <2>1, <2>2 DEF Gone
  <2>5. \A q \in Projects : config'[q] = config[q] \/ (q = run.project /\ ~run.incomplete)
    BY <1>0, <2>1 DEF SetupTypes
  <2>6. SafeStep
    BY <1>0, <2>1, <2>5 DEF Gone, SafeStep, CleanedUp, Untouched
  <2> QED BY <2>3, <2>4, <2>6 DEF SetupInv
<1>11. CASE DeleteData
  <2>1. /\ Running("removal") /\ run.stage = "data" /\ run' = Nothing
        /\ database' = IF run.delete /\ ~run.incomplete THEN database \ {run.project} ELSE database
        /\ UNCHANGED <<hooks, registered, config>>
    BY <1>11 DEF DeleteData
  <2>2. SetupInv'
    BY <1>0, <2>1 DEF SetupInv, SetupTypes, Gone, Running
  <2>3. SafeStep
    BY <1>0, <2>1 DEF Gone, SafeStep, CleanedUp, Untouched
  <2> QED BY <2>2, <2>3
<1>12. CASE Abort
  BY <1>0, <1>12 DEF Abort, SetupInv, SetupTypes, Gone, Running, SafeStep, CleanedUp, Untouched
<1> QED
  BY <1>1, <1>2, <1>3, <1>4, <1>5, <1>6, <1>7, <1>8, <1>9, <1>10, <1>11, <1>12 DEF NextSetup

(* A removal forgets a project's configuration, or deletes its data, only    *)
(* when every surface it had to take down is gone, and takes from another    *)
(* project at most a shared registration, of a host that is not inspected or *)
(* of a path that ends in its own, for any projects, hosts and tools,        *)
(* whatever earlier runs left half done (run_uninstall,                      *)
(* _codex_registration_matches_project).                                     *)
THEOREM RemovalIsSafe == InitSetup /\ [][NextSetup]_setupVars => RemovalSafe
<1>1. InitSetup => SetupInv
  BY DEF InitSetup, SetupInv, SetupTypes, Gone, Running
<1>2. SetupInv /\ [NextSetup]_setupVars =>
        [\A p \in Projects :
           /\ CleanedUp(p)
           /\ Running("removal") /\ run.project # p => Untouched(p)]_setupVars
  BY SetupStep DEF SafeStep
<1> QED BY <1>1, <1>2, SetupStep, PTL DEF RemovalSafe

-----------------------------------------------------------------------------
(* What is left of groups without some handlers.                           *)

\* The function that Kept defines: what is left of the first i groups.
KeptOf(groups, handlers) ==
    CHOOSE f : f = [i \in 0..Len(groups) |->
        IF i = 0 THEN <<>>
        ELSE IF groups[i] \subseteq handlers THEN f[i - 1]
        ELSE Append(f[i - 1], groups[i] \ handlers)]

LEMMA KeptIs ==
    ASSUME NEW g, NEW H
    PROVE  Kept(g, H) = KeptOf(g, H)[Len(g)]
BY Zenon DEF Kept, KeptOf

LEMMA KeptRecurs ==
    ASSUME NEW g, NEW H, Len(g) \in Nat
    PROVE  \A i \in 0..Len(g) :
             KeptOf(g, H)[i] = IF i = 0 THEN <<>>
                               ELSE IF g[i] \subseteq H THEN KeptOf(g, H)[i - 1]
                               ELSE Append(KeptOf(g, H)[i - 1], g[i] \ H)
<1> DEFINE Step(f, i) == IF i = 0 THEN <<>>
                         ELSE IF g[i] \subseteq H THEN f[i - 1]
                         ELSE Append(f[i - 1], g[i] \ H)
           G == {n \in 0..Len(g) : \E f : \A i \in 0..n : f[i] = Step(f, i)}
<1>1. ASSUME NEW n \in 0..Len(g), 0..(n - 1) \subseteq G PROVE n \in G
  <2>1. \E f : \A i \in 0..(n - 1) : f[i] = Step(f, i)
    <3>1. CASE n = 0
      BY <3>1, 0..(0 - 1) = {}
    <3>2. CASE n # 0
      <4>1. n - 1 \in 0..(n - 1)
        BY <3>2
      <4>2. n - 1 \in G
        <5> HIDE DEF G
        <5> QED BY <1>1, <4>1
      <4> QED BY <4>2
    <3> QED BY <3>1, <3>2
  <2>2. PICK f : \A i \in 0..(n - 1) : f[i] = Step(f, i)
    BY <2>1
  <2> DEFINE h == [i \in 0..n |-> IF i = n THEN Step(f, n) ELSE f[i]]
  <2>3. ASSUME NEW i \in 0..n PROVE h[i] = Step(h, i)
    <3>1. i # 0 => h[i - 1] = f[i - 1]
      <4>1. i # 0 => i - 1 \in 0..n /\ i - 1 # n
        BY <2>3
      <4> HIDE DEF Step
      <4> QED BY <4>1
    <3>2. Step(h, i) = Step(f, i)
      BY <3>1
    <3>3. h[i] = Step(f, i)
      <4>1. i # n => i \in 0..(n - 1)
        BY <2>3
      <4> HIDE DEF Step
      <4> QED BY <2>2, <2>3, <4>1
    <3> QED BY <3>2, <3>3
  <2> HIDE DEF h, Step
  <2> QED BY <2>3
<1>2. Len(g) \in G
  <2> HIDE DEF G
  <2>1. G \in SUBSET (0..Len(g))
    BY DEF G
  <2>2. 0..Len(g) \subseteq G
    BY <1>1, <2>1, Upwards
  <2> QED BY <2>2
<1>3. PICK f : \A i \in 0..Len(g) : f[i] = Step(f, i)
  BY <1>2
<1> DEFINE h == [i \in 0..Len(g) |-> f[i]]
<1>4. h = [i \in 0..Len(g) |-> Step(h, i)]
  <2>1. ASSUME NEW i \in 0..Len(g) PROVE h[i] = Step(h, i)
    <3>1. i # 0 => h[i - 1] = f[i - 1]
      <4>1. i # 0 => i - 1 \in 0..Len(g)
        BY <2>1
      <4> QED BY <4>1
    <3> QED BY <1>3, <2>1, <3>1
  <2> HIDE DEF Step
  <2> QED BY <2>1
<1>5. \E e : e = [i \in 0..Len(g) |-> Step(e, i)]
  <2> HIDE DEF h, Step
  <2> QED BY <1>4
<1>6. KeptOf(g, H) = [i \in 0..Len(g) |-> Step(KeptOf(g, H), i)]
  BY <1>5, Zenon DEF KeptOf
<1> HIDE DEF Step
<1>7. \A i \in 0..Len(g) : KeptOf(g, H)[i] = Step(KeptOf(g, H), i)
  <2> DEFINE e == KeptOf(g, H)
  <2> HIDE DEF e
  <2>1. e = [i \in 0..Len(g) |-> Step(e, i)]
    BY <1>6 DEF e
  <2>2. \A i \in 0..Len(g) : e[i] = Step(e, i)
    BY <2>1
  <2> QED BY <2>2 DEF e
<1> QED BY <1>7 DEF Step

LEMMA LengthOfGroups ==
    ASSUME NEW g \in HandlerGroups
    PROVE  Len(g) \in Nat /\ DOMAIN g = 1..Len(g) /\ \A i \in 1..Len(g) : g[i] \in SUBSET Handlers
BY LenProperties, ElementOfSeq DEF HandlerGroups

\* What is left are groups of the same kind, none empty and none with these handlers.
Free(g, H) == \A i \in 1..Len(g) : g[i] \cap H = {}

LEMMA KeptOfTypes ==
    ASSUME NEW g \in HandlerGroups, NEW H, NEW m \in 0..Len(g)
    PROVE  KeptOf(g, H)[m] \in HandlerGroups /\ Free(KeptOf(g, H)[m], H)
<1> DEFINE f == KeptOf(g, H)
           G == {n \in 0..Len(g) : f[n] \in HandlerGroups /\ Free(f[n], H)}
<1>0. Len(g) \in Nat
  BY LengthOfGroups
<1>1. ASSUME NEW n \in 0..Len(g), 0..(n - 1) \subseteq G PROVE n \in G
  <2>1. CASE n = 0
    <3>1. f[n] = <<>>
      BY <1>0, <2>1, KeptRecurs
    <3>2. <<>> \in HandlerGroups /\ Free(<<>>, H)
      BY EmptySeq DEF Free, HandlerGroups
    <3> QED BY <3>1, <3>2
  <2>2. CASE n # 0
    <3>1. n - 1 \in 0..(n - 1) /\ n \in 1..Len(g)
      BY <1>0, <2>2
    <3>2. f[n - 1] \in HandlerGroups /\ Free(f[n - 1], H)
      BY <1>1, <3>1
    <3>3. f[n] = IF g[n] \subseteq H THEN f[n - 1] ELSE Append(f[n - 1], g[n] \ H)
      BY <1>0, <2>2, KeptRecurs
    <3> HIDE DEF f
    <3>4. g[n] \ H \in SUBSET Handlers /\ (g[n] \ H) \cap H = {}
      BY <3>1, LengthOfGroups
    <3>5. /\ Append(f[n - 1], g[n] \ H) \in HandlerGroups
          /\ Free(Append(f[n - 1], g[n] \ H), H)
      <4> DEFINE s == f[n - 1]
                 x == g[n] \ H
      <4>1. s \in Seq(SUBSET Handlers) /\ x \in SUBSET Handlers
        BY <3>2, <3>4 DEF HandlerGroups
      <4> HIDE DEF s, x
      <4>2. /\ Append(s, x) \in Seq(SUBSET Handlers) /\ Len(Append(s, x)) = Len(s) + 1
            /\ \A i \in 1..Len(s) : Append(s, x)[i] = s[i]
            /\ Append(s, x)[Len(s) + 1] = x /\ Len(s) \in Nat
        BY <4>1, AppendProperties, LenProperties
      <4>3. \A i \in 1..(Len(s) + 1) : i \in 1..Len(s) \/ i = Len(s) + 1
        BY <4>2
      <4>4. Free(s, H) /\ x \cap H = {}
        BY <3>2, <3>4 DEF s, x
      <4>5. Free(Append(s, x), H)
        BY <4>2, <4>3, <4>4 DEF Free
      <4> QED BY <4>2, <4>5 DEF s, x, HandlerGroups
    <3> QED BY <3>2, <3>3, <3>5
  <2> QED BY <2>1, <2>2
<1>2. G \in SUBSET (0..Len(g))
  OBVIOUS
<1>3. 0..Len(g) \subseteq G
  <2> HIDE DEF G
  <2> QED BY <1>0, <1>1, <1>2, Upwards
<1> QED BY <1>3

LEMMA KeptTypes ==
    ASSUME NEW g \in HandlerGroups, NEW H
    PROVE  Kept(g, H) \in HandlerGroups /\ Free(Kept(g, H), H)
BY LengthOfGroups, KeptOfTypes, KeptIs

\* One group more.
LEMMA KeptOfAppend ==
    ASSUME NEW g \in HandlerGroups, NEW x \in SUBSET Handlers, NEW H
    PROVE  Kept(Append(g, x), H) =
             IF x \subseteq H THEN Kept(g, H) ELSE Append(Kept(g, H), x \ H)
<1> DEFINE s == Append(g, x)
           G == {n \in 0..Len(g) : KeptOf(s, H)[n] = KeptOf(g, H)[n]}
<1>1. /\ s \in HandlerGroups /\ Len(s) = Len(g) + 1 /\ Len(g) \in Nat
      /\ \A i \in 1..Len(g) : s[i] = g[i]
      /\ s[Len(g) + 1] = x
  BY AppendProperties, LenProperties DEF HandlerGroups
<1> HIDE DEF s
<1>2. ASSUME NEW n \in 0..Len(g), 0..(n - 1) \subseteq G PROVE n \in G
  <2>1. n \in 0..Len(s) /\ Len(s) \in Nat
    BY <1>1
  <2>2. n # 0 => n - 1 \in G /\ n \in 1..Len(g)
    <3>1. n # 0 => n - 1 \in 0..(n - 1) /\ n \in 1..Len(g)
      BY <1>1
    <3> HIDE DEF G
    <3> QED BY <1>2, <3>1
  <2>3. KeptOf(s, H)[n] = IF n = 0 THEN <<>>
                          ELSE IF s[n] \subseteq H THEN KeptOf(s, H)[n - 1]
                          ELSE Append(KeptOf(s, H)[n - 1], s[n] \ H)
    BY <2>1, KeptRecurs
  <2>4. KeptOf(g, H)[n] = IF n = 0 THEN <<>>
                          ELSE IF g[n] \subseteq H THEN KeptOf(g, H)[n - 1]
                          ELSE Append(KeptOf(g, H)[n - 1], g[n] \ H)
    <3>1. Len(g) \in Nat /\ n \in 0..Len(g)
      BY <1>1
    <3> QED BY <3>1, KeptRecurs
  <2>5. n # 0 => KeptOf(s, H)[n - 1] = KeptOf(g, H)[n - 1] /\ s[n] = g[n]
    BY <1>1, <2>2
  <2>6. KeptOf(s, H)[n] = KeptOf(g, H)[n]
    BY <2>3, <2>4, <2>5
  <2> QED BY <2>6
<1>3. G \in SUBSET (0..Len(g))
  OBVIOUS
<1>4. 0..Len(g) \subseteq G
  <2> HIDE DEF G
  <2> QED BY <1>1, <1>2, <1>3, Upwards
<1>5. KeptOf(s, H)[Len(g)] = KeptOf(g, H)[Len(g)]
  BY <1>1, <1>4
<1>6. KeptOf(s, H)[Len(s)] = IF x \subseteq H THEN KeptOf(s, H)[Len(g)]
                             ELSE Append(KeptOf(s, H)[Len(g)], x \ H)
  <2>1. Len(s) \in 0..Len(s) /\ Len(s) \in Nat /\ Len(s) # 0 /\ Len(s) - 1 = Len(g)
        /\ s[Len(s)] = x
    BY <1>1
  <2>2. KeptOf(s, H)[Len(s)] = IF Len(s) = 0 THEN <<>>
                               ELSE IF s[Len(s)] \subseteq H THEN KeptOf(s, H)[Len(s) - 1]
                               ELSE Append(KeptOf(s, H)[Len(s) - 1], s[Len(s)] \ H)
    <3> HIDE DEF s
    <3>1. \A i \in 0..Len(s) :
            KeptOf(s, H)[i] = IF i = 0 THEN <<>>
                              ELSE IF s[i] \subseteq H THEN KeptOf(s, H)[i - 1]
                              ELSE Append(KeptOf(s, H)[i - 1], s[i] \ H)
      BY <2>1, KeptRecurs
    <3> QED BY <2>1, <3>1
  <2> QED BY <2>1, <2>2
<1> QED BY <1>5, <1>6, KeptIs DEF s

\* Taking some handlers out first leaves the same without all of them.
LEMMA KeptTwice ==
    ASSUME NEW g \in HandlerGroups, NEW A, NEW H \in SUBSET A
    PROVE  Kept(Kept(g, H), A) = Kept(g, A)
<1> DEFINE f == KeptOf(g, H)
           G == {n \in 0..Len(g) : Kept(f[n], A) = KeptOf(g, A)[n]}
<1>0. Len(g) \in Nat
  BY LengthOfGroups
<1>1. ASSUME NEW n \in 0..Len(g), 0..(n - 1) \subseteq G PROVE n \in G
  <2>0. KeptOf(g, A)[n] = IF n = 0 THEN <<>>
                          ELSE IF g[n] \subseteq A THEN KeptOf(g, A)[n - 1]
                          ELSE Append(KeptOf(g, A)[n - 1], g[n] \ A)
    BY <1>0, KeptRecurs
  <2>1. CASE n = 0
    <3>1. f[n] = <<>>
      BY <1>0, <2>1, KeptRecurs
    <3>2. PICK e : e = <<>>
      OBVIOUS
    <3>3. Kept(<<>>, A) = <<>>
      <4>1. Len(e) \in Nat /\ 0 \in 0..Len(e) /\ Len(e) = 0
        BY <3>2
      <4>2. KeptOf(e, A)[0] = <<>>
        BY <4>1, KeptRecurs
      <4> QED BY <3>2, <4>1, <4>2, KeptIs
    <3> QED BY <2>0, <2>1, <3>1, <3>3
  <2>2. CASE n # 0
    <3>1. n - 1 \in 0..(n - 1) /\ n \in 1..Len(g) /\ n - 1 \in 0..Len(g)
      BY <1>0, <2>2
    <3>2. Kept(f[n - 1], A) = KeptOf(g, A)[n - 1]
      BY <1>1, <3>1
    <3>3. f[n] = IF g[n] \subseteq H THEN f[n - 1] ELSE Append(f[n - 1], g[n] \ H)
      BY <1>0, <2>2, KeptRecurs
    <3>4. f[n - 1] \in HandlerGroups
      BY <3>1, KeptOfTypes
    <3> HIDE DEF f
    <3>5. g[n] \in SUBSET Handlers
      BY <3>1, LengthOfGroups
    <3>6. Kept(Append(f[n - 1], g[n] \ H), A) =
            IF g[n] \ H \subseteq A THEN Kept(f[n - 1], A)
            ELSE Append(Kept(f[n - 1], A), (g[n] \ H) \ A)
      <4> DEFINE y == g[n] \ H
      <4>1. y \in SUBSET Handlers
        BY <3>5
      <4> HIDE DEF y
      <4>2. Kept(Append(f[n - 1], y), A) =
              IF y \subseteq A THEN Kept(f[n - 1], A) ELSE Append(Kept(f[n - 1], A), y \ A)
        BY <3>4, <4>1, KeptOfAppend
      <4> QED BY <4>2 DEF y
    <3>7. (g[n] \ H \subseteq A <=> g[n] \subseteq A) /\ (g[n] \ H) \ A = g[n] \ A
          /\ (g[n] \subseteq H => g[n] \subseteq A)
      OBVIOUS
    <3>8. Kept(f[n], A) = KeptOf(g, A)[n]
      BY <2>0, <2>2, <3>2, <3>3, <3>6, <3>7
    <3> QED BY <3>8
  <2> QED BY <2>1, <2>2
<1>2. G \in SUBSET (0..Len(g))
  OBVIOUS
<1>3. 0..Len(g) \subseteq G
  <2> HIDE DEF G
  <2> QED BY <1>0, <1>1, <1>2, Upwards
<1>4. Kept(f[Len(g)], A) = KeptOf(g, A)[Len(g)]
  BY <1>0, <1>3
<1> QED BY <1>4, KeptIs

-----------------------------------------------------------------------------
(* What reconciling does to one configuration.                             *)

Ours == {Own, Stale, Legacy}

LEMMA WithoutSome ==
    ASSUME NEW g \in {Malformed} \cup HandlerGroups, NEW H \in SUBSET Ours
    PROVE  /\ Without(g, H) \in {Malformed} \cup HandlerGroups
           /\ Without(g, H) = Malformed <=> g = Malformed
           /\ g # Malformed => Free(Without(g, H), H) /\ Kept(Without(g, H), Ours) = Kept(g, Ours)
<1>1. CASE g = Malformed
  BY <1>1 DEF Without
<1>2. CASE g # Malformed
  <2>1. g \in HandlerGroups
    BY <1>2
  <2>2. Kept(g, H) \in HandlerGroups /\ Free(Kept(g, H), H)
    BY <2>1, KeptTypes
  <2>3. Kept(Kept(g, H), Ours) = Kept(g, Ours)
    BY <2>1, KeptTwice
  <2>4. CASE \A i \in DOMAIN g : g[i] \cap H = {}
    <3>1. Without(g, H) = g
      BY <2>4 DEF Without
    <3>2. Free(g, H)
      BY <2>1, <2>4, LengthOfGroups DEF Free
    <3> QED BY <2>1, <3>1, <3>2, <1>2
  <2>5. CASE ~ \A i \in DOMAIN g : g[i] \cap H = {}
    <3>1. Without(g, H) = Kept(g, H)
      BY <1>2, <2>5 DEF Without
    <3> QED BY <1>2, <2>2, <2>3, <3>1, ContentsDiffer
  <2> QED BY <2>4, <2>5
<1> QED BY <1>1, <1>2

\* What Reconciled asks of the file, asked of a plan.
Sorted(content, o) ==
    \A e \in {k \in Events : content[k] # Malformed} :
      IF o = "uninstall" THEN \A i \in DOMAIN content[e] : content[e][i] \cap {Own, Stale} = {}
      ELSE IF e \in Desired
           THEN Mine(content[e]) = {Len(content[e])} /\ Last(content[e]) = {Own}
           ELSE Mine(content[e]) = {}

LEMMA OthersOf ==
    ASSUME NEW c \in Configurations, NEW d \in Configurations,
           \A e \in Events : /\ c[e] = Malformed <=> d[e] = Malformed
                             /\ c[e] # Malformed => Kept(c[e], Ours) = Kept(d[e], Ours)
    PROVE  Others(c) = Others(d)
BY DEF Others, Ours

LEMMA StrippedIs ==
    ASSUME NEW c \in Configurations, NEW e \in Events
    PROVE  /\ Stripped(c)[e] = Without(c[e], Ours) /\ Removed(c)[e] = Without(c[e], {Own, Stale})
           /\ c[e] \in {Malformed} \cup HandlerGroups
BY DEF Stripped, Removed, Configurations, Ours

LEMMA RemovedFits ==
    ASSUME NEW c \in Configurations
    PROVE  /\ Removed(c) \in Configurations
           /\ Others(Removed(c)) = Others(c)
           /\ Sorted(Removed(c), "uninstall")
<1>0. {Own, Stale} \in SUBSET Ours
  BY DEF Ours
<1>1. ASSUME NEW e \in Events
      PROVE  /\ Removed(c)[e] \in {Malformed} \cup HandlerGroups
             /\ Removed(c)[e] = Malformed <=> c[e] = Malformed
             /\ c[e] # Malformed => /\ Free(Removed(c)[e], {Own, Stale})
                                    /\ Kept(Removed(c)[e], Ours) = Kept(c[e], Ours)
  BY <1>0, StrippedIs, WithoutSome
<1>2. Removed(c) \in Configurations
  BY <1>1 DEF Removed, Configurations
<1>3. Others(Removed(c)) = Others(c)
  BY <1>1, <1>2, OthersOf
<1>4. Sorted(Removed(c), "uninstall")
  <2> SUFFICES ASSUME NEW e \in Events, Removed(c)[e] # Malformed
               PROVE  \A i \in DOMAIN Removed(c)[e] : Removed(c)[e][i] \cap {Own, Stale} = {}
    BY DEF Sorted
  <2>1. Removed(c)[e] \in HandlerGroups /\ Free(Removed(c)[e], {Own, Stale})
    BY <1>1
  <2> QED BY <2>1, LengthOfGroups DEF Free
<1> QED BY <1>2, <1>3, <1>4

LEMMA MergedFits ==
    ASSUME NEW c \in Configurations, Mergeable(c)
    PROVE  /\ Merged(c) \in Configurations
           /\ Others(Merged(c)) = Others(c)
           /\ Sorted(Merged(c), "install")
<1>0. {Own} \in SUBSET Handlers /\ {Own} \subseteq Ours /\ Ours \in SUBSET Ours
  BY HandlersAreKnown DEF Ours
<1>1. ASSUME NEW e \in Events
      PROVE  /\ Stripped(c)[e] \in {Malformed} \cup HandlerGroups
             /\ Stripped(c)[e] = Malformed <=> c[e] = Malformed
             /\ c[e] # Malformed => /\ Free(Stripped(c)[e], Ours)
                                    /\ Kept(Stripped(c)[e], Ours) = Kept(c[e], Ours)
  BY <1>0, StrippedIs, WithoutSome
<1>2. ASSUME NEW e \in Events, e \notin Desired
      PROVE  Merged(c)[e] = Stripped(c)[e]
  BY <1>2 DEF Merged
<1>3. ASSUME NEW e \in Events, e \in Desired
      PROVE  /\ c[e] # Malformed /\ Stripped(c)[e] \in HandlerGroups
             /\ Merged(c)[e] = Append(Stripped(c)[e], {Own})
             /\ Merged(c)[e] \in HandlerGroups
             /\ Kept(Merged(c)[e], Ours) = Kept(c[e], Ours)
             /\ Mine(Merged(c)[e]) = {Len(Merged(c)[e])} /\ Last(Merged(c)[e]) = {Own}
  <2>1. c[e] # Malformed /\ Merged(c)[e] = Append(Stripped(c)[e], {Own})
    BY <1>3 DEF Mergeable, Merged
  <2> DEFINE s == Stripped(c)[e]
             t == Append(s, {Own})
  <2>2. s \in HandlerGroups /\ Free(s, Ours) /\ Kept(s, Ours) = Kept(c[e], Ours)
    BY <1>1, <2>1
  <2> HIDE DEF s
  <2>3. /\ t \in HandlerGroups /\ Len(t) = Len(s) + 1 /\ Len(s) \in Nat
        /\ \A i \in 1..Len(s) : t[i] = s[i]
        /\ t[Len(s) + 1] = {Own}
    BY <1>0, <2>2, AppendProperties, LenProperties DEF HandlerGroups
  <2>4. Kept(t, Ours) = Kept(s, Ours)
    BY <1>0, <2>2, KeptOfAppend
  <2> HIDE DEF t
  <2>5. DOMAIN t = 1..Len(t)
    BY <2>3, LengthOfGroups
  <2>6. Mine(t) = {Len(t)}
    <3>1. Mine(t) = {i \in 1..Len(t) : t[i] \cap Ours # {}}
      BY <2>5 DEF Mine, Ours
    <3>2. \A i \in 1..Len(s) : t[i] \cap Ours = {}
      BY <2>2, <2>3 DEF Free
    <3>3. t[Len(t)] \cap Ours # {}
      BY <1>0, <2>3
    <3>4. \A i \in 1..Len(t) : i \in 1..Len(s) \/ i = Len(t)
      BY <2>3
    <3>5. Len(t) \in 1..Len(t)
      BY <2>3
    <3> QED BY <3>1, <3>2, <3>3, <3>4, <3>5
  <2>7. Last(t) = {Own}
    BY <2>3 DEF Last
  <2> QED BY <2>1, <2>2, <2>3, <2>4, <2>6, <2>7 DEF s, t
<1>4. Merged(c) \in Configurations
  <2>1. \A e \in Events : Merged(c)[e] \in {Malformed} \cup HandlerGroups
    BY <1>1, <1>2, <1>3
  <2> QED BY <2>1 DEF Merged, Configurations
<1>5. Others(Merged(c)) = Others(c)
  <2>1. \A e \in Events : /\ Merged(c)[e] = Malformed <=> c[e] = Malformed
                          /\ c[e] # Malformed => Kept(Merged(c)[e], Ours) = Kept(c[e], Ours)
    BY <1>1, <1>2, <1>3, ContentsDiffer
  <2> QED BY <1>4, <2>1, OthersOf
<1>6. Sorted(Merged(c), "install")
  <2> SUFFICES ASSUME NEW e \in Events, Merged(c)[e] # Malformed, e \notin Desired
               PROVE  Mine(Merged(c)[e]) = {}
    BY <1>3 DEF Sorted
  <2>1. Merged(c)[e] \in HandlerGroups /\ Free(Merged(c)[e], Ours)
    BY <1>1, <1>2
  <2> QED BY <2>1, LengthOfGroups DEF Mine, Free, Ours
<1> QED BY <1>4, <1>5, <1>6

-----------------------------------------------------------------------------
(* Writing a hook file.  From the moment the file may be touched, what was   *)
(* found in it is in the backup, and until then it is in the file.           *)

KeptAside ==
  /\ pc \in {"idle", "planned"} => original = NoFile
  /\ pc \in {"saving", "savingInPlace"} => file = original /\ original # NoFile
  /\ pc = "saved" => file = original
  /\ pc \in {"saved", "writingInPlace", "written", "done", "restoring", "restoringInPlace", "broken"}
       /\ original # NoFile => backup = original
  /\ pc \in {"restoringInPlace", "broken"} => original # NoFile
  /\ pc = "failed" /\ original # NoFile => file = original

LEMMA KeptAsideStep == KeptAside /\ [NextFile]_fileVars => KeptAside'
<1> SUFFICES ASSUME KeptAside, [NextFile]_fileVars PROVE KeptAside'
  OBVIOUS
<1> USE DEF KeptAside
<1>1. CASE UNCHANGED fileVars
  BY <1>1 DEF fileVars
<1>2. CASE \E c \in Configs : Edit(c)
  BY <1>2 DEF Edit
<1>3. CASE PutBack
  BY <1>3 DEF PutBack
<1>4. CASE \E o \in Ops, refused \in BOOLEAN : Start(o, refused)
  BY <1>4 DEF Start
<1>5. CASE ReadOriginal
  BY <1>5 DEF ReadOriginal
<1>6. CASE Save
  BY <1>6 DEF Save, SaveBackup
<1>7. CASE Write
  BY <1>7 DEF Write
<1>8. CASE Fail
  BY <1>8 DEF Fail
<1>9. CASE Restore
  BY <1>9 DEF Restore, RestoreFile
<1>10. CASE Exit
  BY <1>10 DEF Exit
<1> QED BY <1>1, <1>2, <1>3, <1>4, <1>5, <1>6, <1>7, <1>8, <1>9, <1>10 DEF NextFile

-----------------------------------------------------------------------------
(* What belongs to others.  A file that is not torn has it, one that is torn *)
(* has it in the backup; a plan has it in its order, and so has whatever was *)
(* found and may be written back.                                           *)

FileTypes ==
  /\ file \in Configurations \cup {NoFile, Torn}
  /\ backup \in Configurations \cup {NoFile, Torn}
  /\ original \in Configurations \cup {NoFile}

Planning == {"planned", "saving", "savingInPlace", "saved", "writingInPlace", "written", "done"}
Found == {"saving", "savingInPlace", "saved", "writingInPlace", "written", "done", "restoring",
          "restoringInPlace", "broken"}

OthersKept ==
  /\ IF file = Torn THEN Holds(backup) \/ (backup = NoFile /\ others = Others(Empty))
     ELSE Others(Contents(file)) = others
  /\ file = NoFile => backup = NoFile
  /\ pc = "planned" => file # Torn
  /\ pc \in Found => /\ Others(Contents(original)) = others
                     /\ original = NoFile => backup = NoFile
  /\ pc \in Planning => plan \in Configurations /\ Others(plan) = others /\ Sorted(plan, op)
  /\ pc \in {"written", "done"} => file = plan

FileInv == KeptAside /\ FileTypes /\ OthersKept

LEMMA FileInitially == InitFile => FileInv
<1> SUFFICES ASSUME InitFile PROVE FileInv
  OBVIOUS
<1>1. KeptAside
  BY DEF InitFile, KeptAside
<1>2. FileTypes
  BY DEF InitFile, FileTypes
<1>3. OthersKept
  BY ContentsDiffer DEF InitFile, OthersKept, Contents, Planning, Found
<1> QED BY <1>1, <1>2, <1>3 DEF FileInv

LEMMA ReadableIs ==
  ASSUME NEW c \in Configurations \cup {NoFile, Torn}
  PROVE  Readable(c) <=> c \in Configurations
BY ContentsDiffer DEF Readable

LEMMA EmptyIs == Empty \in Configurations
BY EmptySeq DEF Empty, Configurations, HandlerGroups

LEMMA ContentsIs ==
  ASSUME NEW c \in Configurations
  PROVE  Contents(c) = c /\ Contents(NoFile) = Empty
BY ContentsDiffer DEF Contents

LEMMA FileStep ==
  ASSUME FileInv, KeptAside', [NextFile]_fileVars
  PROVE  FileInv'
<1> USE ContentsDiffer
<1> SUFFICES FileTypes' /\ OthersKept'
  BY DEF FileInv
<1>0. KeptAside /\ FileTypes /\ OthersKept
  BY DEF FileInv
<1>1. CASE UNCHANGED fileVars
  BY <1>0, <1>1 DEF fileVars, FileTypes, OthersKept, Holds
<1>2. ASSUME NEW c \in Configs, Edit(c) PROVE FileTypes' /\ OthersKept'
  <2>1. c \in Configurations /\ c # Torn /\ c # NoFile
    OBVIOUS
  <2>2. pc = "idle" /\ pc' = "idle" /\ file' = c /\ others' = Others(c)
        /\ UNCHANGED <<backup, plan, original, op>>
    BY <1>2 DEF Edit
  <2>3. FileTypes'
    BY <1>0, <2>1, <2>2 DEF FileTypes
  <2>4. OthersKept'
    BY <2>1, <2>2, ContentsIs DEF OthersKept, Planning, Found
  <2> QED BY <2>3, <2>4
<1>3. CASE PutBack
  <2>1. backup \in Configurations
    BY <1>0, <1>3, ReadableIs DEF PutBack, FileTypes
  <2>2. Others(backup) = others
    BY <1>0, <1>3 DEF PutBack, OthersKept, Holds, Readable
  <2>3. FileTypes'
    BY <1>0, <1>3 DEF PutBack, FileTypes
  <2>4. OthersKept'
    BY <1>3, <2>1, <2>2, ContentsIs DEF PutBack, OthersKept, Planning, Found
  <2> QED BY <2>3, <2>4
<1>4. ASSUME NEW o \in Ops, NEW refused \in BOOLEAN, Start(o, refused)
      PROVE  FileTypes' /\ OthersKept'
  <2>1. FileTypes'
    BY <1>0, <1>4 DEF Start, FileTypes
  <2>2. Contents(file) \in Configurations /\ Others(Contents(file)) = others
    BY <1>0, <1>4, EmptyIs, ContentsIs DEF Start, FileTypes, OthersKept
  <2>3. plan' \in Configurations /\ Others(plan') = others /\ Sorted(plan', o)
    <3>1. CASE o = "install"
      BY <1>4, <2>2, <3>1, MergedFits DEF Start
    <3>2. CASE o = "uninstall"
      <4>1. file \in Configurations /\ file = Contents(file)
        BY <1>0, <1>4, <3>2, ContentsIs DEF Start, FileTypes
      <4> QED BY <1>4, <2>2, <3>2, <4>1, RemovedFits DEF Start
    <3> QED BY <3>1, <3>2 DEF Ops
  <2>4. pc' = "planned" /\ op' = o /\ file # Torn /\ UNCHANGED <<file, backup, original, others>>
    BY <1>4 DEF Start
  <2>5. OthersKept'
    BY <1>0, <2>3, <2>4 DEF OthersKept, Planning, Found
  <2> QED BY <2>1, <2>5
<1>5. CASE ReadOriginal
  <2>1. FileTypes'
    BY <1>0, <1>5 DEF ReadOriginal, FileTypes, OthersKept
  <2>2. OthersKept'
    BY <1>0, <1>5 DEF ReadOriginal, OthersKept, Planning, Found
  <2> QED BY <2>1, <2>2
<1>6. CASE Save
  <2>1. pc \in {"saving", "savingInPlace"} /\ file = original /\ original # NoFile
    BY <1>0, <1>6 DEF Save, SaveBackup, KeptAside
  <2>2. file # Torn /\ file # NoFile
    BY <1>0, <2>1 DEF FileTypes
  <2>3. FileTypes'
    BY <1>0, <1>6 DEF Save, SaveBackup, FileTypes
  <2>4. OthersKept'
    BY <1>0, <1>6, <2>1, <2>2 DEF Save, SaveBackup, OthersKept, Planning, Found
  <2> QED BY <2>3, <2>4
<1>7. CASE Write
  <2>1. plan \in Configurations /\ Others(plan) = others
    BY <1>0, <1>7 DEF Write, OthersKept, Planning
  <2>2. FileTypes'
    BY <1>0, <1>7, <2>1 DEF Write, FileTypes
  <2>3. CASE file' = plan
    <3>1. plan # Torn /\ plan # NoFile /\ Contents(plan) = plan
      BY <2>1, ContentsIs
    <3>2. /\ pc \in {"saved", "writingInPlace", "written"} /\ pc' \in {"written", "done"}
          /\ UNCHANGED <<backup, op, plan, original, others>>
      BY <1>7, <2>3, <3>1 DEF Write
    <3>3. /\ Others(Contents(original)) = others /\ (original = NoFile => backup = NoFile)
          /\ Sorted(plan, op)
      BY <1>0, <3>2 DEF OthersKept, Planning, Found
    <3>4. OthersKept'
      BY <2>1, <2>3, <3>1, <3>2, <3>3 DEF OthersKept, Planning, Found
    <3> QED BY <2>2, <3>4
  <2>4. CASE file' = Torn /\ pc = "saved"
    <3>1. original # NoFile => Holds(backup)
      BY <1>0, <2>4, ReadableIs, ContentsIs DEF KeptAside, FileTypes, OthersKept, Found, Holds
    <3>2. original = NoFile => backup = NoFile /\ others = Others(Empty)
      BY <1>0, <2>4 DEF OthersKept, Found, Contents
    <3>3. pc' = "writingInPlace" /\ UNCHANGED <<backup, op, plan, original, others>>
      BY <1>7, <2>1, <2>4 DEF Write
    <3> QED BY <1>0, <2>2, <2>4, <3>1, <3>2, <3>3 DEF OthersKept, Planning, Found, Holds
  <2>5. CASE pc = "written" /\ pc' = "done" /\ UNCHANGED file
    BY <1>0, <1>7, <2>1, <2>2, <2>5 DEF Write, OthersKept, Planning, Found, Holds
  <2> QED BY <1>7, <2>3, <2>4, <2>5 DEF Write
<1>8. CASE Fail
  BY <1>0, <1>8 DEF Fail, FileTypes, OthersKept, Planning, Found, Holds
<1>9. CASE Restore
  <2>1. pc \in {"restoring", "restoringInPlace"}
    BY <1>9 DEF Restore, RestoreFile
  <2>2. FileTypes'
    BY <1>0, <1>9 DEF Restore, RestoreFile, FileTypes
  <2>3. original # NoFile => Holds(backup)
    BY <1>0, <2>1, ReadableIs, ContentsIs DEF KeptAside, FileTypes, OthersKept, Found, Holds
  <2>4. Others(Contents(original)) = others /\ (original = NoFile => backup = NoFile)
    BY <1>0, <2>1 DEF OthersKept, Found
  <2>5. original # Torn
    BY <1>0 DEF FileTypes
  <2>6. pc = "restoringInPlace" => original # NoFile
    BY <1>0 DEF KeptAside
  <2>7. OthersKept'
    BY <1>0, <1>9, <2>3, <2>4, <2>5, <2>6
       DEF Restore, RestoreFile, OthersKept, Planning, Found, Holds, Contents
  <2> QED BY <2>2, <2>7
<1>10. CASE Exit
  BY <1>0, <1>10 DEF Exit, FileTypes, OthersKept, Planning, Found, Holds
<1> QED BY <1>1, <1>2, <1>3, <1>4, <1>5, <1>6, <1>7, <1>8, <1>9, <1>10 DEF NextFile

THEOREM FileIsKept == InitFile /\ [][NextFile]_fileVars => []FileInv
<1>1. FileInv /\ [NextFile]_fileVars => FileInv'
  BY KeptAsideStep, FileStep DEF FileInv
<1> QED BY <1>1, FileInitially, PTL

\* Whatever fails and wherever the installer dies, others lose none of their groups,
\* and a failed operation changes nothing.  (_write_json.)
THEOREM FileStaysSafe == InitFile /\ [][NextFile]_fileVars => []FileSafe
<1>1. FileInv => NothingLost
  <2> SUFFICES ASSUME FileInv, others # Others(Empty) PROVE Holds(file) \/ Holds(backup)
    BY DEF NothingLost
  <2>1. file # Torn => Holds(file)
    BY ContentsDiffer, EmptyIs, ContentsIs, ReadableIs
       DEF FileInv, FileTypes, OthersKept, Holds, Contents
  <2>2. file = Torn => Holds(backup)
    BY DEF FileInv, OthersKept
  <2> QED BY <2>1, <2>2
<1>2. FileInv => FailureRestores
  BY DEF FileInv, KeptAside, FailureRestores
<1> QED BY <1>1, <1>2, FileIsKept, PTL DEF FileSafe

\* What an installation or a removal leaves is what it is for, and the groups of
\* others as they were, in their order.
\* (_strip_own_handlers, _merge_command_hooks, _remove_command_hooks.)
THEOREM ReconcilesExactly == InitFile /\ [][NextFile]_fileVars => []Reconciled
<1>1. FileInv => Reconciled
  BY DEF FileInv, OthersKept, Planning, Reconciled, Sorted
<1> QED BY <1>1, FileIsKept, PTL
=============================================================================
