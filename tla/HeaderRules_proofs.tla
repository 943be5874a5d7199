------------------------- MODULE HeaderRules_proofs -------------------------
(***************************************************************************)
(* The timestamps of a branch, for any span of the median, any time limits *)
(* and any difficulty parameters: no header after the ASERT anchor is      *)
(* older than the anchor, and what the miner works on is never too old.    *)
(* Then the arithmetic, up to: the difficulty follows the schedule and the *)
(* required target is always one that nBits and proof of work can take.    *)
(***************************************************************************)
EXTENDS HeaderRules, FiniteSetTheorems, WellFoundedInduction, TLAPS

\* The window reaches back to genesis at most.
WindowInv == Len(times) <= height + 1

\* The anchor is known once the branch has reached it.
AnchorInv == anchor = NoTime <=> height < nASERTAnchorHeight

\* The template's time is past the median of the tip it was made for.
TemplateInv == template # NoTime => template > GetMedianTimePast(times)

\* The inductive invariant.
RulesInv == TypeOK /\ WindowInv /\ AnchorInv /\ TemplateInv /\ TimeDiffExact

-----------------------------------------------------------------------------
(* The median *)

\* A nonempty set of naturals has a least element.
LEMMA LeastNumber ==
  ASSUME NEW T \in SUBSET Nat, T # {}
  PROVE  \E x \in T : \A y \in T : x <= y
<1>1. IsWellFoundedOn(OpToRel(<, Nat), Nat)
  BY NatLessThanWellFounded
<1>2. PICK x \in T : \A y \in T : ~(<<y, x>> \in OpToRel(<, Nat))
  BY <1>1, WFMin
<1>3. ASSUME NEW y \in T
      PROVE  x <= y
  <2>1. x \in Nat /\ y \in Nat
    OBVIOUS
  <2>2. ~(y < x)
    BY <1>2, <2>1 DEF OpToRel
  <2> QED
    BY <2>1, <2>2
<1> QED
  BY <1>3

\* A nonempty sequence of numbers has a greatest element.
LEMMA GreatestTime ==
  ASSUME NEW s \in Seq(Nat), s # <<>>
  PROVE  \E j \in 1..Len(s) : \A i \in 1..Len(s) : s[i] <= s[j]
<1> DEFINE n == Len(s)
           Tops(k) == \E j \in 1..n : \A i \in 1..k : s[i] <= s[j]
           T == {k \in 0..n : ~Tops(k)}
<1>1. n \in Nat /\ n >= 1 /\ \A i \in 1..n : s[i] \in Nat
  OBVIOUS
<1>2. SUFFICES ASSUME ~Tops(n)
               PROVE  FALSE
  OBVIOUS
<1>3. T \in SUBSET Nat /\ n \in T
  BY <1>1, <1>2
<1>4. PICK k \in T : \A m \in T : k <= m
  <2> HIDE DEF T
  <2> QED
    BY <1>3, LeastNumber
<1>5. Tops(0)
  BY <1>1
<1>6. k \in 1..n /\ k - 1 \in 0..n /\ ~Tops(k)
  <2> HIDE DEF Tops
  <2> QED
    BY <1>4, <1>5, <1>1
<1>7. Tops(k - 1)
  <2> HIDE DEF Tops
  <2>1. k - 1 \notin T
    BY <1>4, <1>6
  <2> QED
    BY <2>1, <1>6
<1>8. PICK j \in 1..n : \A i \in 1..(k - 1) : s[i] <= s[j]
  BY <1>7
<1>9. Tops(k)
  <2>1. \A i \in 1..k : i = k \/ i \in 1..(k - 1)
    BY <1>6
  <2>2. CASE s[k] <= s[j]
    <3>1. \A i \in 1..k : s[i] <= s[j]
      BY <1>8, <2>1, <2>2
    <3> QED
      BY <3>1
  <2>3. CASE s[j] < s[k]
    <3>1. ASSUME NEW i \in 1..k
          PROVE  s[i] <= s[k]
      <4>1. s[i] \in Nat /\ s[j] \in Nat /\ s[k] \in Nat
        BY <1>1, <1>6, <1>8
      <4>2. i = k \/ s[i] <= s[j]
        BY <1>8, <2>1
      <4> QED
        BY <4>1, <4>2, <2>3
    <3> QED
      BY <3>1, <1>6
  <2> QED
    BY <2>2, <2>3, <1>1, <1>6
<1> QED
  BY <1>6, <1>9

\* The median is one of the timestamps, and more than half of them come up to it.
LEMMA MedianFacts ==
  ASSUME NEW s \in Seq(Nat), s # <<>>
  PROVE  /\ GetMedianTimePast(s) \in Nat
         /\ Cardinality(UpTo(s, GetMedianTimePast(s))) > Len(s) \div 2
<1> DEFINE M == {t \in Range(s) : Cardinality(UpTo(s, t)) > Len(s) \div 2}
<1>1. PICK j \in 1..Len(s) : \A i \in 1..Len(s) : s[i] <= s[j]
  BY GreatestTime
<1>2. UpTo(s, s[j]) = 1..Len(s)
  BY <1>1 DEF UpTo
<1>3. Len(s) \in Nat /\ Len(s) >= 1
  OBVIOUS
<1>4. Cardinality(1..Len(s)) = Len(s)
  BY <1>3, FS_Interval
<1>5. s[j] \in M
  <2>1. Len(s) > Len(s) \div 2
    BY <1>3
  <2>2. s[j] \in Range(s)
    BY <1>1 DEF Range
  <2> QED
    BY <1>2, <1>4, <2>1, <2>2
<1>6. M \in SUBSET Nat
  BY DEF Range
<1> HIDE DEF M
<1>7. PICK x \in M : \A y \in M : x <= y
  BY <1>5, <1>6, LeastNumber
<1>8. Min(M) \in M
  BY <1>7 DEF Min
<1>9. GetMedianTimePast(s) = Min(M)
  BY DEF GetMedianTimePast, M
<1> QED
  BY <1>6, <1>8, <1>9 DEF M

\* With at most the first of two or more timestamps below it, no timestamp
\* below a is the median.
LEMMA MedianFrom ==
  ASSUME NEW s \in Seq(Nat), NEW a \in Nat, s # <<>>,
         \A i \in 1..Len(s) : s[i] >= a \/ (i = 1 /\ Len(s) >= 2)
  PROVE  GetMedianTimePast(s) >= a
<1> DEFINE m == GetMedianTimePast(s)
<1>1. m \in Nat /\ Cardinality(UpTo(s, m)) > Len(s) \div 2
  BY MedianFacts
<1>2. SUFFICES ASSUME m < a
               PROVE  FALSE
  BY <1>1
<1>3. UpTo(s, m) \subseteq {1} /\ (UpTo(s, m) # {} => Len(s) >= 2)
  <2>1. ASSUME NEW i \in UpTo(s, m)
        PROVE  i = 1 /\ Len(s) >= 2
    <3>1. i \in 1..Len(s) /\ s[i] <= m
      BY DEF UpTo
    <3>2. s[i] \in Nat
      BY <3>1
    <3> HIDE DEF m
    <3>3. ~(s[i] >= a)
      BY <3>1, <3>2, <1>1, <1>2
    <3> QED
      BY <3>1, <3>3
  <2> QED
    BY <2>1
<1>4. IsFiniteSet({1}) /\ Cardinality({1}) = 1
  BY FS_Singleton
<1>5. Cardinality(UpTo(s, m)) <= 1
  BY <1>3, <1>4, FS_Subset
<1>6. UpTo(s, m) # {}
  <2>1. Len(s) \div 2 \in Nat
    <3>1. \A k \in Nat : k \div 2 \in Nat
      OBVIOUS
    <3> QED
      BY <3>1
  <2>2. Cardinality({}) = 0
    BY FS_EmptySet
  <2>3. Cardinality(UpTo(s, m)) # 0
    BY <1>1, <2>1
  <2> QED
    BY <2>2, <2>3
<1>7. Len(s) \in Nat /\ Len(s) >= 2
  BY <1>3, <1>6
<1>8. \A k \in Nat : k >= 2 => k \div 2 >= 1
  OBVIOUS
<1>9. IsFiniteSet(UpTo(s, m))
  BY <1>3, <1>4, FS_Subset
<1>10. Cardinality(UpTo(s, m)) \in Nat /\ Len(s) \div 2 \in Nat
  BY <1>7, <1>9, FS_CardinalityType
<1> QED
  BY <1>1, <1>5, <1>7, <1>8, <1>10

-----------------------------------------------------------------------------
(* The branch *)

\* MEDIAN_TIME_SPAN is odd, so at least one timestamp is looked at.
LEMMA SpanPositive == MEDIAN_TIME_SPAN \in Nat /\ MEDIAN_TIME_SPAN >= 1
<1>1. MEDIAN_TIME_SPAN \in Nat /\ MEDIAN_TIME_SPAN % 2 = 1
  BY RulesAssumption
<1>2. 0 % 2 = 0
  OBVIOUS
<1> QED
  BY <1>1, <1>2

\* Headers up to the anchor leave at most one timestamp below it in the window,
\* and never alone: the median is at or after the anchor.
LEMMA MedianSinceAnchor ==
  ASSUME RulesInv, anchor # NoTime
  PROVE  GetMedianTimePast(times) >= anchor
<1>1. /\ times \in Seq(Nat) /\ Len(times) \in Nat /\ Len(times) >= 1
      /\ Len(times) <= height + 1 /\ height \in Nat /\ anchor \in Nat
      /\ height >= nASERTAnchorHeight
  BY RulesAssumption DEF RulesInv, TypeOK, WindowInv, AnchorInv
<1>2. nASERTAnchorHeight \in {0, 1}
  BY RulesAssumption
<1>3. ASSUME NEW i \in 1..Len(times)
      PROVE  times[i] >= anchor \/ (i = 1 /\ Len(times) >= 2)
  <2>1. CASE Len(times) - i <= height - nASERTAnchorHeight
    BY <1>1, <2>1 DEF RulesInv, TimeDiffExact
  <2>2. CASE ~(Len(times) - i <= height - nASERTAnchorHeight)
    BY <1>1, <1>2, <2>2
  <2> QED
    BY <2>1, <2>2
<1>4. times # <<>>
  BY <1>1
<1> QED
  BY <1>1, <1>3, <1>4, MedianFrom

\* What the window is after the tip has moved.
LEMMA WindowMoves ==
  ASSUME RulesInv, NEW t \in Nat, Extend(t)
  PROVE  /\ times' \in Seq(Nat) /\ Len(times') \in 1..MEDIAN_TIME_SPAN
         /\ Len(times') \in {Len(times), Len(times) + 1}
         /\ times'[Len(times')] = t
         /\ \A i \in 1..(Len(times') - 1) :
               /\ i + Len(times) + 1 - Len(times') \in 1..Len(times)
               /\ times'[i] = times[i + Len(times) + 1 - Len(times')]
<1>1. /\ times \in Seq(Nat) /\ Len(times) \in Nat /\ Len(times) >= 1
      /\ Len(times) <= MEDIAN_TIME_SPAN /\ MEDIAN_TIME_SPAN \in Nat
  BY SpanPositive DEF RulesInv, TypeOK
<1>2. CASE Len(times) < MEDIAN_TIME_SPAN
  <2>1. times' = Append(times, t)
    BY <1>2 DEF Extend
  <2> QED
    BY <1>1, <1>2, <2>1
<1>3. CASE ~(Len(times) < MEDIAN_TIME_SPAN)
  <2>1. times' = Append(Tail(times), t)
    BY <1>3 DEF Extend
  <2>2. /\ Tail(times) \in Seq(Nat) /\ Len(Tail(times)) = Len(times) - 1
        /\ \A i \in 1..(Len(times) - 1) : Tail(times)[i] = times[i + 1]
    BY <1>1
  <2> QED
    BY <1>1, <1>3, <2>1, <2>2
<1> QED
  BY <1>2, <1>3

\* A header past the median keeps the invariant.
LEMMA ExtendKeeps ==
  ASSUME RulesInv, NEW t \in Nat, t > GetMedianTimePast(times), Extend(t)
  PROVE  RulesInv'
<1> DEFINE A == nASERTAnchorHeight
           shift == Len(times) + 1 - Len(times')
<1>1. /\ times \in Seq(Nat) /\ Len(times) \in Nat /\ Len(times) >= 1
      /\ Len(times) <= height + 1 /\ height \in Nat
      /\ anchor \in Nat \cup {NoTime} /\ (anchor = NoTime <=> height < A)
  BY DEF RulesInv, TypeOK, WindowInv, AnchorInv
<1>2. A \in {0, 1}
  BY RulesAssumption
<1>3. /\ times' \in Seq(Nat) /\ Len(times') \in 1..MEDIAN_TIME_SPAN
      /\ Len(times') \in {Len(times), Len(times) + 1}
      /\ times'[Len(times')] = t
      /\ \A i \in 1..(Len(times') - 1) :
            i + shift \in 1..Len(times) /\ times'[i] = times[i + shift]
  BY WindowMoves
<1>4. height' = height + 1 /\ template' = NoTime /\ clock' = clock /\ offset' = offset
  BY DEF Extend
<1>5. anchor' = IF height + 1 = A THEN t ELSE anchor
  BY DEF Extend
<1>6. TypeOK'
  <2>1. anchor' \in Nat \cup {NoTime}
    BY <1>1, <1>5
  <2> QED
    BY <1>1, <1>3, <1>4, <2>1 DEF RulesInv, TypeOK
<1>7. WindowInv' /\ TemplateInv'
  BY <1>1, <1>3, <1>4 DEF WindowInv, TemplateInv
<1>8. AnchorInv'
  BY <1>1, <1>2, <1>4, <1>5 DEF AnchorInv, NoTime
<1>9. TimeDiffExact'
  <2>1. SUFFICES ASSUME anchor' # NoTime, NEW i \in 1..Len(times'),
                        Len(times') - i <= height' - A
                 PROVE  times'[i] >= anchor'
    BY <1>3 DEF TimeDiffExact
  <2>2. CASE height + 1 = A
    <3>1. anchor' = t /\ i = Len(times')
      BY <1>1, <1>2, <1>3, <1>4, <1>5, <2>1, <2>2
    <3> QED
      BY <3>1, <1>3
  <2>3. CASE height + 1 # A
    <3>1. anchor' = anchor /\ anchor # NoTime /\ anchor \in Nat
      BY <1>1, <1>5, <2>1, <2>3
    <3>2. CASE i = Len(times')
      <4>1. GetMedianTimePast(times) >= anchor
        BY <3>1, MedianSinceAnchor
      <4>2. GetMedianTimePast(times) \in Nat
        BY <1>1, MedianFacts
      <4> QED
        BY <1>3, <3>1, <3>2, <4>1, <4>2
    <3>3. CASE i # Len(times')
      <4>1. i + shift \in 1..Len(times) /\ times'[i] = times[i + shift]
        BY <1>3, <3>3
      <4>2. Len(times) - (i + shift) <= height - A
        BY <1>1, <1>2, <1>3, <1>4, <2>1
      <4>3. times[i + shift] >= anchor
        BY <1>1, <3>1, <4>1, <4>2 DEF RulesInv, TimeDiffExact
      <4> QED
        BY <3>1, <4>1, <4>3
    <3> QED
      BY <3>2, <3>3
  <2> QED
    BY <2>2, <2>3
<1> QED
  BY <1>6, <1>7, <1>8, <1>9 DEF RulesInv

\* The contextual check lets only times past the median through.
LEMMA ValidIsPastMedian ==
  ASSUME RulesInv, NEW t \in Nat, NEW bits, NEW v,
         ContextualCheckBlockHeader(t, bits, v) = "valid"
  PROVE  t > GetMedianTimePast(times)
<1>1. GetMedianTimePast(times) \in Nat
  BY MedianFacts DEF RulesInv, TypeOK
<1>2. ~(t <= GetMedianTimePast(times))
  BY DEF ContextualCheckBlockHeader
<1> QED
  BY <1>1, <1>2

\* The time of a new template is past the median.
LEMMA TemplateTimePastMedian ==
  ASSUME RulesInv
  PROVE  TemplateTime \in Nat /\ TemplateTime > GetMedianTimePast(times)
<1>1. GetMedianTimePast(times) \in Nat
  BY MedianFacts DEF RulesInv, TypeOK
<1>2. clock \in Nat
  BY RulesAssumption DEF RulesInv, TypeOK
<1> QED
  BY <1>1, <1>2 DEF TemplateTime

-----------------------------------------------------------------------------
LEMMA InitRules == Init => RulesInv
<1> SUFFICES ASSUME Init PROVE RulesInv
  OBVIOUS
<1>1. TypeOK
  BY SpanPositive, RulesAssumption DEF Init, TypeOK, NoTime
<1>2. WindowInv /\ TemplateInv
  BY DEF Init, WindowInv, TemplateInv
<1>3. AnchorInv
  <2>1. nASERTAnchorHeight \in {0, 1}
    BY RulesAssumption
  <2> QED
    BY <2>1 DEF Init, AnchorInv, NoTime
<1>4. TimeDiffExact
  BY RulesAssumption DEF Init, TimeDiffExact, NoTime
<1> QED
  BY <1>1, <1>2, <1>3, <1>4 DEF RulesInv

LEMMA NextRules == RulesInv /\ [Next]_vars => RulesInv'
<1> SUFFICES ASSUME RulesInv, [Next]_vars PROVE RulesInv'
  OBVIOUS
<1> USE DEF RulesInv
<1>1. ASSUME NEW t \in 0..Latest, NEW bits, NEW v, AcceptBlockHeader(t, bits, v)
      PROVE  RulesInv'
  <2>1. t \in Nat
    BY RulesAssumption DEF Latest
  <2>2. ContextualCheckBlockHeader(t, bits, v) = "valid" /\ Extend(t)
    BY <1>1 DEF AcceptBlockHeader
  <2>3. t > GetMedianTimePast(times)
    BY <2>1, <2>2, ValidIsPastMedian
  <2> QED
    BY <2>1, <2>2, <2>3, ExtendKeeps
<1>2. CASE CreateBlockTemplate
  <2>1. template' \in Nat /\ template' > GetMedianTimePast(times)
    BY <1>2, TemplateTimePastMedian DEF CreateBlockTemplate
  <2> QED
    BY <1>2, <2>1 DEF CreateBlockTemplate, TypeOK, WindowInv, AnchorInv,
                     TemplateInv, TimeDiffExact
<1>3. CASE NextNonceSpace
  <2>1. template \in Nat /\ template > GetMedianTimePast(times)
    BY <1>3 DEF NextNonceSpace, TypeOK, TemplateInv
  <2>2. GetMedianTimePast(times) \in Nat
    BY MedianFacts DEF TypeOK
  <2>3. template' \in Nat /\ template' > GetMedianTimePast(times)
    BY <1>3, <2>1, <2>2, TemplateTimePastMedian DEF NextNonceSpace
  <2> QED
    BY <1>3, <2>3 DEF NextNonceSpace, TypeOK, WindowInv, AnchorInv,
                     TemplateInv, TimeDiffExact
<1>4. CASE BlockFound
  <2>1. template \in Nat /\ template > GetMedianTimePast(times)
    BY <1>4 DEF BlockFound, TypeOK, TemplateInv
  <2> QED
    BY <1>4, <2>1, ExtendKeeps DEF BlockFound
<1>5. ASSUME NEW m \in -(DEFAULT_MAX_TIME_ADJUSTMENT+1)..DEFAULT_MAX_TIME_ADJUSTMENT+1,
             AddTimeData(m)
      PROVE  RulesInv'
  <2>1. offset' \in -DEFAULT_MAX_TIME_ADJUSTMENT..DEFAULT_MAX_TIME_ADJUSTMENT
    BY <1>5, RulesAssumption DEF AddTimeData
  <2> QED
    BY <1>5, <2>1 DEF AddTimeData, TypeOK, WindowInv, AnchorInv,
                     TemplateInv, TimeDiffExact
<1>6. CASE Tick
  <2>1. clock' \in 0..MaxTime
    BY <1>6, RulesAssumption DEF Tick, TypeOK
  <2> QED
    BY <1>6, <2>1 DEF Tick, TypeOK, WindowInv, AnchorInv,
                     TemplateInv, TimeDiffExact
<1>7. CASE UNCHANGED vars
  BY <1>7 DEF vars, TypeOK, WindowInv, AnchorInv, TemplateInv, TimeDiffExact
<1> QED
  BY <1>1, <1>2, <1>3, <1>4, <1>5, <1>6, <1>7 DEF Next

\* The inductive invariant of the block rules: the window of timestamps, the
\* anchor, the template and the times since the anchor.
THEOREM RulesInvariant == Spec => []RulesInv
<1> QED
  BY InitRules, NextRules, PTL DEF Spec

\* The unsigned difference to the anchor's time in GetNextWorkRequired never
\* wraps, for any median span and time limits: with the anchor at height 0 or 1
\* at most one timestamp of a window is older than it, so no median is.
THEOREM TimeDiffAlwaysExact == Spec => []TimeDiffExact
<1>1. RulesInv => TimeDiffExact
  BY DEF RulesInv
<1> QED
  BY <1>1, RulesInvariant, PTL

\* What the miner finds is never refused as too old, however clock and offset
\* move while it works, for any median span and time limits.
THEOREM TemplatesAlwaysFresh == Spec => []TemplatesNeverTooOld
<1>1. RulesInv => TemplatesNeverTooOld
  <2>1. SUFFICES ASSUME RulesInv, template # NoTime
                 PROVE  ContextualCheckBlockHeader(template, NextBits, 1)
                          # "time-too-old"
    BY DEF TemplatesNeverTooOld
  <2>2. GetMedianTimePast(times) \in Nat
    BY <2>1, MedianFacts DEF RulesInv, TypeOK
  <2>3. template \in Nat /\ ~(template <= GetMedianTimePast(times))
    BY <2>1, <2>2 DEF RulesInv, TypeOK, TemplateInv
  <2> QED
    BY <2>3 DEF ContextualCheckBlockHeader
<1> QED
  BY <1>1, RulesInvariant, PTL


-----------------------------------------------------------------------------
(* Powers *)

\* The powers of b up to the n-th.
FirstPowers(g, b, n) ==
  /\ g \in [0..n -> Nat] /\ g[0] = 1
  /\ \A k \in 1..n : g[k] = b * g[k-1]

LEMMA FirstPowersExist ==
  ASSUME NEW b \in Nat, NEW n \in Nat
  PROVE  \E g \in [0..n -> Nat] : FirstPowers(g, b, n)
<1> DEFINE Some(m) == \E g \in [0..m -> Nat] : FirstPowers(g, b, m)
           T == {m \in Nat : ~Some(m)}
<1>1. SUFFICES ASSUME T # {} PROVE FALSE
  OBVIOUS
<1>2. PICK m \in T : \A k \in T : m <= k
  <2>1. T \in SUBSET Nat
    OBVIOUS
  <2> HIDE DEF T
  <2> QED
    BY <1>1, <2>1, LeastNumber
<1>3. Some(0)
  <2> DEFINE g == [k \in 0..0 |-> 1]
  <2>1. FirstPowers(g, b, 0)
    BY DEF FirstPowers
  <2> QED
    BY <2>1
<1>4. m \in Nat \ {0} /\ Some(m - 1)
  <2> HIDE DEF Some
  <2>1. m \in Nat /\ m # 0
    BY <1>2, <1>3
  <2>2. m - 1 \in Nat /\ ~(m <= m - 1)
    BY <2>1
  <2>3. m - 1 \notin T
    BY <1>2, <2>2
  <2> QED
    BY <2>1, <2>2, <2>3
<1>5. PICK g \in [0..(m-1) -> Nat] : FirstPowers(g, b, m - 1)
  BY <1>4
<1> DEFINE h == [k \in 0..m |-> IF k = m THEN b * g[m-1] ELSE g[k]]
<1>6. \A k \in 0..m : k # m => k \in 0..(m-1)
  BY <1>4
<1>7. h \in [0..m -> Nat]
  <2>1. \A k \in 0..m : h[k] \in Nat
    BY <1>4, <1>5, <1>6
  <2> QED
    BY <2>1
<1>8. FirstPowers(h, b, m)
  <2>1. h[0] = 1
    BY <1>4, <1>5 DEF FirstPowers
  <2>2. \A k \in 1..m : h[k] = b * h[k-1]
    BY <1>4, <1>5, <1>6 DEF FirstPowers
  <2> QED
    BY <1>7, <2>1, <2>2 DEF FirstPowers
<1> QED
  BY <1>2, <1>7, <1>8

LEMMA FirstPowersUnique ==
  ASSUME NEW b \in Nat, NEW n \in Nat, NEW m \in Nat, n <= m,
         NEW g, FirstPowers(g, b, n), NEW h, FirstPowers(h, b, m)
  PROVE  g[n] = h[n]
<1> DEFINE T == {k \in 0..n : g[k] # h[k]}
<1>1. SUFFICES ASSUME n \in T PROVE FALSE
  OBVIOUS
<1>2. PICK k \in T : \A i \in T : k <= i
  <2>1. T \in SUBSET Nat /\ T # {}
    BY <1>1
  <2> HIDE DEF T
  <2> QED
    BY <2>1, LeastNumber
<1>3. k # 0 /\ k \in 1..n /\ k \in 1..m /\ g[k] # h[k]
  BY <1>2 DEF FirstPowers
<1>4. k - 1 \in 0..n /\ ~(k <= k - 1)
  BY <1>3
<1>5. g[k-1] = h[k-1]
  BY <1>2, <1>4
<1> QED
  BY <1>3, <1>5 DEF FirstPowers

\* The recursive definition of the powers has a solution.
LEMMA PowersEquation ==
  ASSUME NEW b \in Nat
  PROVE  Powers(b) = [k \in Nat |-> IF k = 0 THEN 1 ELSE b * Powers(b)[k-1]]
<1> DEFINE G(n) == CHOOSE g \in [0..n -> Nat] : FirstPowers(g, b, n)
           f == [n \in Nat |-> G(n)[n]]
<1>1. \A n \in Nat : FirstPowers(G(n), b, n)
  BY FirstPowersExist
<1> HIDE DEF G
<1>2. f[0] = 1
  BY <1>1 DEF FirstPowers
<1>3. ASSUME NEW n \in Nat, n # 0
      PROVE  f[n] = b * f[n-1]
  <2>1. n - 1 \in Nat /\ n - 1 <= n /\ n \in 1..n
    BY <1>3
  <2>2. G(n)[n] = b * G(n)[n-1]
    BY <1>1, <2>1 DEF FirstPowers
  <2>3. G(n-1)[n-1] = G(n)[n-1]
    BY <1>1, <2>1, FirstPowersUnique
  <2> QED
    BY <2>1, <2>2, <2>3
<1>4. f = [k \in Nat |-> IF k = 0 THEN 1 ELSE b * f[k-1]]
  <2>1. \A k \in Nat : f[k] = IF k = 0 THEN 1 ELSE b * f[k-1]
    BY <1>2, <1>3
  <2>2. DOMAIN f = Nat /\ f = [k \in Nat |-> f[k]]
    OBVIOUS
  <2> HIDE DEF f
  <2> QED
    BY <2>1, <2>2
<1> HIDE DEF f
<1> QED
  BY <1>4 DEF Powers

\* Powers start with 1 and go on by multiplication.
LEMMA PowersFacts ==
  ASSUME NEW b \in Nat \ {0}
  PROVE  /\ Powers(b)[0] = 1
         /\ \A k \in Nat : Powers(b)[k] \in Nat \ {0}
         /\ \A k \in Nat : Powers(b)[k+1] = b * Powers(b)[k]
<1> DEFINE P == Powers(b)
<1>1. P = [k \in Nat |-> IF k = 0 THEN 1 ELSE b * P[k-1]]
  BY PowersEquation
<1> HIDE DEF P
<1>2. P[0] = 1
  BY <1>1
<1>3. ASSUME NEW k \in Nat PROVE P[k+1] = b * P[k]
  <2>1. k + 1 \in Nat /\ k + 1 # 0 /\ (k + 1) - 1 = k
    OBVIOUS
  <2> QED
    BY <1>1, <2>1
<1>4. ASSUME NEW n \in Nat PROVE P[n] \in Nat \ {0}
  <2> DEFINE T == {k \in Nat : P[k] \notin Nat \ {0}}
  <2>1. SUFFICES ASSUME T # {} PROVE FALSE
    OBVIOUS
  <2>2. PICK k \in T : \A i \in T : k <= i
    <3>1. T \in SUBSET Nat
      OBVIOUS
    <3> HIDE DEF T
    <3> QED
      BY <2>1, <3>1, LeastNumber
  <2>3. k \in Nat /\ k # 0
    BY <1>2, <2>2
  <2>4. k - 1 \in Nat /\ ~(k <= k - 1) /\ (k - 1) + 1 = k
    BY <2>3
  <2>5. P[k-1] \in Nat \ {0}
    BY <2>2, <2>4
  <2>6. P[k] = b * P[k-1]
    BY <1>3, <2>4
  <2>7. \A x, y \in Nat \ {0} : x * y \in Nat \ {0}
    OBVIOUS
  <2> QED
    BY <2>2, <2>5, <2>6, <2>7
<1> QED
  BY <1>2, <1>3, <1>4 DEF P

\* A later power is a multiple of an earlier one.
LEMMA PowersDivide ==
  ASSUME NEW b \in Nat \ {0}, NEW k \in Nat, NEW n \in Nat, k <= n
  PROVE  \E q \in Nat \ {0} : Powers(b)[n] = q * Powers(b)[k]
<1> DEFINE P == Powers(b)
           Multiple(i) == \E q \in Nat \ {0} : P[i] = q * P[k]
           T == {i \in Nat : k <= i /\ ~Multiple(i)}
<1>1. /\ \A i \in Nat : P[i] \in Nat \ {0}
      /\ \A i \in Nat : P[i+1] = b * P[i]
  BY PowersFacts
<1> HIDE DEF P
<1>2. SUFFICES ASSUME n \in T PROVE FALSE
  BY DEF P
<1>3. PICK i \in T : \A j \in T : i <= j
  <2>1. T \in SUBSET Nat /\ T # {}
    BY <1>2
  <2> HIDE DEF T
  <2> QED
    BY <2>1, LeastNumber
<1>4. Multiple(k)
  <2>1. P[k] = 1 * P[k]
    BY <1>1
  <2> QED
    BY <2>1
<1>5. i \in Nat /\ k <= i /\ ~Multiple(i)
  BY <1>3
<1>6. i # k
  BY <1>4, <1>5
<1>7. i - 1 \in Nat /\ k <= i - 1 /\ ~(i <= i - 1) /\ (i - 1) + 1 = i
  BY <1>5, <1>6
<1>8. Multiple(i - 1)
  <2> HIDE DEF Multiple
  <2> QED
    BY <1>3, <1>7
<1>9. PICK q \in Nat \ {0} : P[i-1] = q * P[k]
  BY <1>8
<1>10. P[i] = b * P[i-1]
  BY <1>1, <1>7
<1>11. P[i] = (b * q) * P[k] /\ b * q \in Nat \ {0}
  <2>1. \A x, y, z \in Nat : x * (y * z) = (x * y) * z
    OBVIOUS
  <2>2. \A x, y \in Nat \ {0} : x * y \in Nat \ {0}
    OBVIOUS
  <2>3. P[k] \in Nat
    BY <1>1
  <2> QED
    BY <1>9, <1>10, <2>1, <2>2, <2>3
<1> QED
  BY <1>5, <1>11

LEMMA PowersMonotone ==
  ASSUME NEW b \in Nat \ {0}, NEW k \in Nat, NEW n \in Nat, k <= n
  PROVE  Powers(b)[k] <= Powers(b)[n]
<1>1. PICK q \in Nat \ {0} : Powers(b)[n] = q * Powers(b)[k]
  BY PowersDivide
<1>2. Powers(b)[k] \in Nat
  BY PowersFacts
<1>3. \A x \in Nat, y \in Nat \ {0} : x <= y * x
  OBVIOUS
<1> QED
  BY <1>1, <1>2, <1>3


-----------------------------------------------------------------------------
(* Division *)

LEMMA DivFacts ==
  ASSUME NEW n \in Int, NEW d \in Nat \ {0}
  PROVE  /\ n \div d \in Int /\ n % d \in Nat /\ n % d < d
         /\ d * (n \div d) <= n /\ n < d * (n \div d) + d
         /\ n % d = n - d * (n \div d)
<1>1. d * (n \div d) <= n
  OBVIOUS
<1>2. n < d * (n \div d) + d
  OBVIOUS
<1>3. n % d = n - d * (n \div d)
  OBVIOUS
<1> QED
  BY <1>1, <1>2, <1>3

LEMMA DivIs ==
  ASSUME NEW n \in Int, NEW d \in Nat \ {0}, NEW q \in Int,
         d * q <= n, n < d * q + d
  PROVE  n \div d = q
  OBVIOUS

\* Division rounds down.
LEMMA DivAtLeast ==
  ASSUME NEW n \in Int, NEW d \in Nat \ {0}, NEW q \in Int, d * q <= n
  PROVE  q <= n \div d
<1>1. n < d * (n \div d) + d /\ n \div d \in Int
  BY DivFacts
<1>2. ASSUME NEW r \in Int, r < q, n < d * r + d PROVE FALSE
  <2>1. r + 1 <= q
    BY <1>2
  <2>2. d * (r + 1) <= d * q
    BY <2>1
  <2>3. d * (r + 1) = d * r + d
    OBVIOUS
  <2> QED
    BY <1>2, <2>2, <2>3
<1> QED
  BY <1>1, <1>2

LEMMA DivMonotone ==
  ASSUME NEW n \in Int, NEW m \in Int, NEW d \in Nat \ {0}, n <= m
  PROVE  n \div d <= m \div d
<1>1. d * (n \div d) <= n /\ n \div d \in Int /\ d * (n \div d) \in Int
  BY DivFacts
<1>2. d * (n \div d) <= m
  BY <1>1
<1> QED
  BY <1>1, <1>2, DivAtLeast

LEMMA DivNat ==
  ASSUME NEW n \in Nat, NEW d \in Nat \ {0}
  PROVE  n \div d \in Nat /\ n \div d <= n
<1>1. d * 0 <= n
  OBVIOUS
<1>2. 0 <= n \div d /\ n \div d \in Int
  BY <1>1, DivAtLeast, DivFacts
<1>3. n \div d <= d * (n \div d)
  <2>1. \A x \in Nat, y \in Nat \ {0} : x <= y * x
    OBVIOUS
  <2> QED
    BY <1>2, <2>1
<1>4. d * (n \div d) <= n /\ d * (n \div d) \in Int
  BY DivFacts
<1> QED
  BY <1>2, <1>3, <1>4

-----------------------------------------------------------------------------
(* nBits *)

\* The unit of a target is a power of a byte, its mantissa fits, and a smaller
\* power's does not.
LEMMA UnitFacts ==
  ASSUME NEW n \in 0..powLimit
  PROVE  \E k \in 0..MaxSize :
            /\ Unit(n) = Powers(Byte)[k] /\ n \div Powers(Byte)[k] < Mantissa
            /\ \A j \in 0..MaxSize :
                  n \div Powers(Byte)[j] < Mantissa => Powers(Byte)[k] <= Powers(Byte)[j]
<1> DEFINE P == Powers(Byte)
           U == {u \in {P[k] : k \in 0..MaxSize} : n \div u < Mantissa}
<1>1. /\ Byte \in Nat \ {0} /\ MaxSize \in Nat /\ Mantissa \in Nat \ {0}
      /\ powLimit \in Nat /\ powLimit < P[MaxSize]
  BY RulesAssumption
<1>2. \A k \in 0..MaxSize : P[k] \in Nat \ {0}
  BY <1>1, PowersFacts
<1> HIDE DEF P
<1>3. P[MaxSize] \in U
  <2>1. P[MaxSize] \in Nat \ {0} /\ MaxSize \in 0..MaxSize
    BY <1>1, <1>2
  <2>2. n \in Int /\ P[MaxSize] * 0 <= n /\ n < P[MaxSize] * 0 + P[MaxSize]
    BY <1>1, <2>1
  <2>3. n \div P[MaxSize] = 0
    BY <2>1, <2>2, DivIs
  <2> QED
    BY <1>1, <2>1, <2>3
<1>4. U \in SUBSET Nat
  BY <1>2
<1> HIDE DEF U
<1>5. PICK x \in U : \A y \in U : x <= y
  BY <1>3, <1>4, LeastNumber
<1>6. Min(U) \in U /\ \A y \in U : Min(U) <= y
  BY <1>5 DEF Min
<1>7. Unit(n) = Min(U)
  BY DEF Unit, U, P
<1>8. PICK k \in 0..MaxSize : Unit(n) = P[k] /\ n \div P[k] < Mantissa
  BY <1>6, <1>7 DEF U
<1>9. ASSUME NEW j \in 0..MaxSize, n \div P[j] < Mantissa PROVE P[k] <= P[j]
  <2>1. P[j] \in U
    BY <1>9 DEF U
  <2> QED
    BY <1>6, <1>7, <1>8, <2>1
<1> QED
  BY <1>8, <1>9 DEF P

\* Units of larger targets are larger.
LEMMA UnitMonotone ==
  ASSUME NEW n \in 0..powLimit, NEW m \in 0..powLimit, n <= m
  PROVE  Unit(n) <= Unit(m)
<1> DEFINE P == Powers(Byte)
<1>0. powLimit \in Nat /\ Byte \in Nat \ {0} /\ MaxSize \in Nat /\ Mantissa \in Nat
  BY RulesAssumption
<1>1. PICK k \in 0..MaxSize :
         /\ Unit(n) = P[k]
         /\ \A j \in 0..MaxSize : n \div P[j] < Mantissa => P[k] <= P[j]
  BY UnitFacts
<1>2. PICK i \in 0..MaxSize : Unit(m) = P[i] /\ m \div P[i] < Mantissa
  BY UnitFacts
<1>3. P[i] \in Nat \ {0}
  BY <1>0, PowersFacts
<1> HIDE DEF P
<1>4. n \div P[i] <= m \div P[i] /\ n \div P[i] \in Int /\ m \div P[i] \in Int
  <2>1. n \in Int /\ m \in Int
    BY <1>0
  <2>2. n \div P[i] \in Int /\ m \div P[i] \in Int
    BY <1>3, <2>1, DivFacts
  <2>3. n \div P[i] <= m \div P[i]
    BY <1>3, <2>1, DivMonotone
  <2> QED
    BY <2>2, <2>3
<1>5. n \div P[i] < Mantissa
  BY <1>0, <1>2, <1>4
<1> QED
  BY <1>1, <1>2, <1>5

\* A target that is counted in more than ones fills the mantissa: the largest
\* target that a smaller unit could count is not above it.
LEMMA UnitFilled ==
  ASSUME NEW m \in 0..powLimit, NEW k \in 0..MaxSize, k # 0, Unit(m) = Powers(Byte)[k]
  PROVE  /\ Mantissa * Powers(Byte)[k-1] <= m
         /\ Mantissa * Powers(Byte)[k-1] = (Mantissa \div Byte) * Powers(Byte)[k]
         /\ Mantissa \div Byte \in Nat \ {0}
<1> DEFINE P == Powers(Byte)
<1>0. /\ powLimit \in Nat /\ Byte \in Nat \ {0} /\ Byte > 1 /\ MaxSize \in Nat
      /\ Mantissa \in Nat \ {0} /\ Mantissa % Byte = 0
  BY RulesAssumption
<1>1. k \in Nat /\ k - 1 \in Nat /\ k - 1 \in 0..MaxSize /\ (k - 1) + 1 = k
  BY <1>0
<1>2. P[k] = Byte * P[k-1] /\ P[k-1] \in Nat \ {0} /\ P[k] \in Nat \ {0}
  BY <1>0, <1>1, PowersFacts
<1>3. \A j \in 0..MaxSize : m \div P[j] < Mantissa => P[k] <= P[j]
  <2>1. PICK i \in 0..MaxSize :
           /\ Unit(m) = P[i]
           /\ \A j \in 0..MaxSize : m \div P[j] < Mantissa => P[i] <= P[j]
    BY UnitFacts
  <2> QED
    BY <2>1
<1> HIDE DEF P
<1>4. ~(P[k] <= P[k-1])
  <2>1. \A x \in Nat \ {0}, y \in Nat : y > 1 => ~(y * x <= x)
    OBVIOUS
  <2> QED
    BY <1>0, <1>2, <2>1
<1>5. m \div P[k-1] >= Mantissa
  <2>1. m \in Int
    BY <1>0
  <2>2. m \div P[k-1] \in Int
    BY <1>2, <2>1, DivFacts
  <2> QED
    BY <1>0, <1>1, <1>3, <1>4, <2>2
<1>6. Mantissa * P[k-1] <= m
  <2>0. m \in Int
    BY <1>0
  <2>1. m \in Int /\ P[k-1] * (m \div P[k-1]) <= m /\ m \div P[k-1] \in Int
    BY <1>2, <2>0, DivFacts
  <2>2. \A x \in Nat, y \in Int, z \in Nat : y >= x => x * z <= z * y
    OBVIOUS
  <2>3. Mantissa * P[k-1] <= P[k-1] * (m \div P[k-1])
    BY <1>0, <1>2, <1>5, <2>1, <2>2
  <2>4. Mantissa * P[k-1] \in Int /\ P[k-1] * (m \div P[k-1]) \in Int
    BY <1>0, <1>2, <2>1
  <2> QED
    BY <2>1, <2>3, <2>4
<1>7. Mantissa = Byte * (Mantissa \div Byte) /\ Mantissa \div Byte \in Nat \ {0}
  <2>0. Mantissa \in Int /\ Byte \in Nat \ {0}
    BY <1>0
  <2>1. /\ Mantissa \div Byte \in Nat
        /\ Mantissa % Byte = Mantissa - Byte * (Mantissa \div Byte)
    <3>1. Mantissa % Byte = Mantissa - Byte * (Mantissa \div Byte)
      BY <2>0, DivFacts
    <3>2. Mantissa \div Byte \in Nat
      BY <1>0, DivNat
    <3> QED
      BY <3>1, <3>2
  <2>2. Mantissa = Byte * (Mantissa \div Byte)
    BY <1>0, <2>1
  <2> QED
    BY <1>0, <2>1, <2>2
<1>8. Mantissa * P[k-1] = (Mantissa \div Byte) * P[k]
  <2>1. \A x, y, z \in Nat : (x * y) * z = y * (x * z)
    OBVIOUS
  <2> QED
    BY <1>0, <1>2, <1>7, <2>1
<1> QED
  BY <1>6, <1>7, <1>8 DEF P

\* Compact is the multiple of the unit.
LEMMA CompactFacts ==
  ASSUME NEW n \in 0..powLimit
  PROVE  /\ Unit(n) \in Nat \ {0} /\ n \div Unit(n) \in Nat
         /\ Compact(n) = Unit(n) * (n \div Unit(n))
         /\ Compact(n) \in 0..powLimit /\ Compact(n) <= n
<1>0. powLimit \in Nat /\ Byte \in Nat \ {0} /\ MaxSize \in Nat /\ n \in Nat
  BY RulesAssumption
<1>1. Unit(n) \in Nat \ {0}
  <2>1. PICK k \in 0..MaxSize : Unit(n) = Powers(Byte)[k]
    BY UnitFacts
  <2>2. k \in Nat
    BY <1>0
  <2> QED
    BY <1>0, <2>1, <2>2, PowersFacts
<1>2. n \div Unit(n) \in Nat /\ n % Unit(n) = n - Unit(n) * (n \div Unit(n))
      /\ n % Unit(n) \in Nat
  <2>1. n \div Unit(n) \in Nat
    BY <1>0, <1>1, DivNat
  <2>2. n \in Int
    BY <1>0
  <2>3. n % Unit(n) = n - Unit(n) * (n \div Unit(n)) /\ n % Unit(n) \in Nat
    BY <1>1, <2>2, DivFacts
  <2> QED
    BY <2>1, <2>3
<1>3. Unit(n) * (n \div Unit(n)) \in Nat
  BY <1>1, <1>2
<1> QED
  BY <1>0, <1>1, <1>2, <1>3 DEF Compact

LEMMA CompactPositive ==
  ASSUME NEW n \in 1..powLimit
  PROVE  Compact(n) \in 1..powLimit
<1> DEFINE P == Powers(Byte)
<1>0. /\ powLimit \in Nat /\ Byte \in Nat \ {0} /\ MaxSize \in Nat
      /\ n \in Nat /\ n \in 0..powLimit /\ n >= 1
  BY RulesAssumption
<1>1. PICK k \in 0..MaxSize : Unit(n) = P[k]
  BY <1>0, UnitFacts
<1>2. /\ Unit(n) \in Nat \ {0} /\ n \div Unit(n) \in Nat
      /\ Compact(n) = Unit(n) * (n \div Unit(n)) /\ Compact(n) \in 0..powLimit
  BY <1>0, CompactFacts
<1>3. n \div Unit(n) >= 1
  <2>1. CASE k = 0
    <3>1. Unit(n) = 1
      BY <1>0, <1>1, <2>1, PowersFacts
    <3>2. n \div 1 = n
      BY <1>0
    <3> QED
      BY <1>0, <3>1, <3>2
  <2>2. CASE k # 0
    <3>1. /\ Mantissa * P[k-1] <= n
          /\ Mantissa * P[k-1] = (Mantissa \div Byte) * P[k]
          /\ Mantissa \div Byte \in Nat \ {0}
      BY <1>0, <1>1, <2>2, UnitFilled
    <3>2. (Mantissa \div Byte) * Unit(n) <= n
      BY <1>1, <3>1
    <3>3. \A x \in Nat \ {0}, y \in Nat : y * 1 <= x * y /\ y * 1 \in Int /\ x * y \in Int
      OBVIOUS
    <3>4. /\ Unit(n) * 1 <= (Mantissa \div Byte) * Unit(n)
          /\ Unit(n) * 1 \in Int /\ (Mantissa \div Byte) * Unit(n) \in Int
      BY <1>2, <3>1, <3>3
    <3>5. Unit(n) * 1 <= n /\ n \in Int
      BY <1>0, <3>2, <3>4
    <3> QED
      BY <1>2, <3>5, DivAtLeast
  <2> QED
    BY <2>1, <2>2
<1>4. \A x \in Nat \ {0}, y \in Nat : y >= 1 => x * y >= 1
  OBVIOUS
<1>5. Compact(n) >= 1
  BY <1>2, <1>3, <1>4
<1> QED
  BY <1>0, <1>2, <1>5

\* What nBits loses does not change the order of two targets.
LEMMA CompactMonotone ==
  ASSUME NEW n \in 0..powLimit, NEW m \in 0..powLimit, n <= m
  PROVE  Compact(n) <= Compact(m)
<1> DEFINE P == Powers(Byte)
<1>0. /\ powLimit \in Nat /\ Byte \in Nat \ {0} /\ MaxSize \in Nat
      /\ Mantissa \in Nat \ {0} /\ n \in Int /\ m \in Int
  BY RulesAssumption
<1>1. /\ Unit(n) \in Nat \ {0} /\ n \div Unit(n) \in Nat
      /\ Compact(n) = Unit(n) * (n \div Unit(n)) /\ Compact(n) \in 0..powLimit
      /\ Compact(n) <= n
  BY CompactFacts
<1>2. /\ Unit(m) \in Nat \ {0} /\ m \div Unit(m) \in Nat
      /\ Compact(m) = Unit(m) * (m \div Unit(m)) /\ Compact(m) \in 0..powLimit
  BY CompactFacts
<1>3. CASE Unit(n) = Unit(m)
  <2>1. n \div Unit(n) <= m \div Unit(n)
    BY <1>0, <1>1, DivMonotone
  <2>2. \A x, y, z \in Nat : x <= y => z * x <= z * y
    OBVIOUS
  <2> QED
    BY <1>1, <1>2, <1>3, <2>1, <2>2
<1>4. CASE Unit(n) # Unit(m)
  <2>1. PICK i \in 0..MaxSize : Unit(n) = P[i] /\ n \div P[i] < Mantissa
    BY UnitFacts
  <2>2. PICK k \in 0..MaxSize : Unit(m) = P[k]
    BY UnitFacts
  <2>3. i \in Nat /\ k \in Nat
    BY <1>0
  <2>4. i < k
    <3>1. Unit(n) <= Unit(m)
      BY UnitMonotone
    <3>2. k <= i => P[k] <= P[i]
      BY <1>0, <2>3, PowersMonotone
    <3>3. P[i] \in Nat /\ P[k] \in Nat
      BY <1>1, <1>2, <2>1, <2>2
    <3> QED
      BY <1>4, <2>1, <2>2, <2>3, <3>1, <3>2, <3>3
  <2>5. k # 0 /\ k - 1 \in Nat /\ i <= k - 1
    BY <2>3, <2>4
  <2>6. P[i] <= P[k-1] /\ P[k-1] \in Nat
    BY <1>0, <2>3, <2>5, PowersMonotone, PowersFacts
  <2>7. /\ Mantissa * P[k-1] <= m
        /\ Mantissa * P[k-1] = (Mantissa \div Byte) * P[k]
        /\ Mantissa \div Byte \in Nat \ {0}
    BY <2>2, <2>5, UnitFilled
  <2> HIDE DEF P
  <2>8. n < Mantissa * P[i]
    <3>1. n < Unit(n) * (n \div Unit(n)) + Unit(n)
      BY <1>0, <1>1, DivFacts
    <3>2. \A x, y, z \in Nat : y < x => z * y + z <= x * z
      <4>1. ASSUME NEW x \in Nat, NEW y \in Nat, NEW z \in Nat, y < x
            PROVE  z * y + z <= x * z
        <5>1. y + 1 <= x
          BY <4>1
        <5>2. z * (y + 1) <= z * x
          BY <5>1
        <5> QED
          BY <5>2
      <4> QED
        BY <4>1
    <3>3. Unit(n) * (n \div Unit(n)) + Unit(n) <= Mantissa * Unit(n)
      BY <1>0, <1>1, <2>1, <3>2
    <3>4. Unit(n) * (n \div Unit(n)) + Unit(n) \in Int /\ Mantissa * Unit(n) \in Int
      BY <1>0, <1>1
    <3>5. n < Mantissa * Unit(n)
      BY <1>0, <3>1, <3>3, <3>4
    <3> QED
      BY <2>1, <3>5
  <2>9. Mantissa * P[i] <= Mantissa * P[k-1]
    <3>1. \A x, y, z \in Nat : x <= y => z * x <= z * y
      OBVIOUS
    <3>2. P[i] \in Nat
      BY <1>1, <2>1
    <3> QED
      BY <1>0, <2>6, <3>1, <3>2
  <2>10. (Mantissa \div Byte) * P[k] <= Compact(m)
    <3>0. P[k] = Unit(m)
      BY <2>2
    <3>1. Unit(m) * (Mantissa \div Byte) <= m
      <4>1. \A x, y \in Nat : x * y = y * x
        OBVIOUS
      <4> QED
        BY <1>2, <2>7, <3>0, <4>1
    <3>2. Mantissa \div Byte <= m \div Unit(m)
      BY <1>0, <1>2, <2>7, <3>1, DivAtLeast
    <3>3. \A x, y, z \in Nat : x <= y => x * z <= z * y
      OBVIOUS
    <3> QED
      BY <1>2, <2>7, <3>0, <3>2, <3>3
  <2>11. /\ Mantissa * P[i] \in Int /\ Mantissa * P[k-1] \in Int
         /\ (Mantissa \div Byte) * P[k] \in Int
    BY <1>0, <1>1, <1>2, <2>1, <2>2, <2>6, <2>7
  <2>12. Compact(n) \in Int /\ Compact(m) \in Int
    BY <1>0, <1>1, <1>2
  <2> QED
    BY <1>0, <1>1, <2>7, <2>8, <2>9, <2>10, <2>11, <2>12
<1> QED
  BY <1>3, <1>4

\* A target that came out of nBits goes back into it without a loss.
LEMMA CompactIdempotent ==
  ASSUME NEW n \in 0..powLimit
  PROVE  Compact(Compact(n)) = Compact(n)
<1> DEFINE P == Powers(Byte)
           c == Compact(n)
<1>0. powLimit \in Nat /\ Byte \in Nat \ {0} /\ MaxSize \in Nat
  BY RulesAssumption
<1>1. /\ Unit(n) \in Nat \ {0} /\ n \div Unit(n) \in Nat
      /\ c = Unit(n) * (n \div Unit(n)) /\ c \in 0..powLimit /\ c <= n
  BY CompactFacts
<1> HIDE DEF c
<1>2. Unit(c) <= Unit(n)
  BY <1>1, UnitMonotone
<1>3. /\ Unit(c) \in Nat \ {0} /\ c \div Unit(c) \in Nat
      /\ Compact(c) = Unit(c) * (c \div Unit(c))
  BY <1>1, CompactFacts
<1>4. PICK i \in 0..MaxSize : Unit(c) = P[i]
  BY <1>1, UnitFacts
<1>5. PICK k \in 0..MaxSize : Unit(n) = P[k]
  BY UnitFacts
<1>6. i \in Nat /\ k \in Nat
  BY <1>0
<1>7. \E q \in Nat : Unit(n) = q * Unit(c)
  <2>1. CASE i <= k
    BY <1>0, <1>4, <1>5, <1>6, <2>1, PowersDivide
  <2>2. CASE k <= i
    <3>1. P[k] <= P[i]
      BY <1>0, <1>6, <2>2, PowersMonotone
    <3>2. Unit(n) = Unit(c)
      <4>1. Unit(n) <= Unit(c)
        BY <1>4, <1>5, <3>1
      <4> QED
        BY <1>1, <1>2, <1>3, <4>1
    <3>3. Unit(n) = 1 * Unit(c)
      BY <1>1, <3>2
    <3> QED
      BY <3>3
  <2> QED
    BY <1>6, <2>1, <2>2
<1>8. PICK q \in Nat : Unit(n) = q * Unit(c)
  BY <1>7
<1>9. c = Unit(c) * (q * (n \div Unit(n))) /\ q * (n \div Unit(n)) \in Nat
  <2>1. \A x, y, z \in Nat : (x * y) * z = y * (x * z) /\ x * z \in Nat
    OBVIOUS
  <2> QED
    BY <1>1, <1>3, <1>8, <2>1
<1>10. ASSUME NEW r \in Nat, c = Unit(c) * r
       PROVE  c \div Unit(c) = r
  <2>1. c \in Int /\ Unit(c) * r <= c /\ c < Unit(c) * r + Unit(c)
    BY <1>0, <1>1, <1>3, <1>10
  <2> QED
    BY <1>3, <2>1, DivIs
<1>11. Compact(c) = c
  BY <1>3, <1>9, <1>10
<1> QED
  BY <1>11 DEF c

-----------------------------------------------------------------------------
(* Shifts *)

\* What a shift would be without a width.
Exact(n, s) == IF s <= 0 THEN n \div Powers(2)[-s] ELSE n * Powers(2)[s]

\* The last step of CalculateASERT.
Clamped(x) == IF x = 0 THEN 1 ELSE Min({x, powLimit})

LEMMA ClampedIs ==
  ASSUME NEW x \in Nat
  PROVE  Clamped(x) = IF x = 0 THEN 1 ELSE IF x <= powLimit THEN x ELSE powLimit
<1>1. powLimit \in Nat
  BY RulesAssumption
<1>2. \A a, b \in Nat : Min({a, b}) = IF a <= b THEN a ELSE b
  <2>1. ASSUME NEW a \in Nat, NEW b \in Nat, NEW c \in {a, b},
               \A y \in {a, b} : c <= y
        PROVE  Min({a, b}) = c
    <3>1. Min({a, b}) \in {a, b} /\ \A y \in {a, b} : Min({a, b}) <= y
      BY <2>1 DEF Min
    <3> QED
      BY <2>1, <3>1
  <2> QED
    BY <2>1
<1> QED
  BY <1>1, <1>2 DEF Clamped

LEMMA ClampedMonotone ==
  ASSUME NEW x \in Nat, NEW y \in Nat, x <= y
  PROVE  Clamped(x) <= Clamped(y) /\ Clamped(x) \in 1..powLimit
<1>1. powLimit \in Nat \ {0}
  BY RulesAssumption
<1> QED
  BY <1>1, ClampedIs

\* The bits that a shift loses make no difference once the result is clamped.
LEMMA ShiftedClamped ==
  ASSUME NEW n \in Nat \ {0}, NEW s \in Int
  PROVE  Clamped(Shifted(n, s)) = Clamped(Exact(n, s)) /\ Exact(n, s) \in Nat
<1> DEFINE P == Powers(2)
<1>0. powLimit \in Nat \ {0} /\ Width \in Nat \ {0} /\ powLimit <= Width
  <2>1. /\ powLimit \in Nat \ {0} /\ Width \in Nat \ {0} /\ Fraction \in Nat \ {0}
        /\ 2 * Fraction * powLimit <= Width
    BY RulesAssumption
  <2>2. \A x, y \in Nat \ {0} : x <= 2 * y * x /\ 2 * y * x \in Nat
    OBVIOUS
  <2> QED
    BY <2>1, <2>2
<1>1. CASE s <= 0
  <2>1. -s \in Nat
    BY <1>1
  <2>2. P[-s] \in Nat \ {0}
    BY <2>1, PowersFacts
  <2>3. n \div P[-s] \in Nat
    BY <2>2, DivNat
  <2>4. Shifted(n, s) = n \div P[-s] /\ Exact(n, s) = n \div P[-s]
    BY <1>1 DEF Shifted, Exact
  <2> QED
    BY <2>3, <2>4
<1>2. CASE s > 0
  <2> DEFINE p == P[s]
             x == n * p
             m == x % Width
  <2>1. s \in Nat
    BY <1>2
  <2>2. p \in Nat \ {0}
    BY <2>1, PowersFacts
  <2>3. /\ Shifted(n, s) = IF m \div p = n THEN m ELSE powLimit
        /\ Exact(n, s) = x
    BY <1>2 DEF Shifted, Exact
  <2> HIDE DEF p
  <2>4. x \in Nat \ {0}
    <3>1. \A a, b \in Nat \ {0} : a * b \in Nat \ {0}
      OBVIOUS
    <3> QED
      BY <2>2, <3>1
  <2>5. p * n = x
    BY <2>2
  <2> HIDE DEF x
  <2>6. m \in Nat /\ m <= x
    <3>1. x % Width \in Nat /\ x % Width = x - Width * (x \div Width)
      BY <1>0, <2>4, DivFacts
    <3>2. x \div Width \in Nat
      BY <1>0, <2>4, DivNat
    <3>3. Width * (x \div Width) \in Nat
      BY <1>0, <3>2
    <3> QED
      BY <2>4, <3>1, <3>3
  <2>7. x < Width => m = x
    <3>1. ASSUME x < Width PROVE m = x
      <4>1. Width * 0 <= x /\ x < Width * 0 + Width
        BY <1>0, <2>4, <3>1
      <4>2. x \div Width = 0
        BY <1>0, <2>4, <4>1, DivIs
      <4>3. x % Width = x - Width * (x \div Width)
        BY <1>0, <2>4, DivFacts
      <4> QED
        BY <1>0, <2>4, <4>2, <4>3
    <3> QED
      BY <3>1
  <2> HIDE DEF m
  <2>8. CASE m \div p = n
    <3>1. p * (m \div p) <= m
      BY <2>2, <2>6, DivFacts
    <3>2. m = x
      BY <2>4, <2>5, <2>6, <2>8, <3>1
    <3> QED
      BY <2>3, <2>4, <2>8, <3>2
  <2>9. CASE m \div p # n
    <3>1. m # x
      <4>1. ASSUME m = x PROVE FALSE
        <5>1. p * n <= m /\ m < p * n + p
          BY <2>2, <2>4, <2>5, <4>1
        <5>2. m \div p = n
          BY <2>2, <2>6, <5>1, DivIs
        <5> QED
          BY <2>9, <5>2
      <4> QED
        BY <4>1
    <3>2. powLimit <= x
      BY <1>0, <2>4, <2>7, <3>1
    <3>3. Clamped(x) = powLimit
      BY <1>0, <2>4, <3>2, ClampedIs
    <3>4. Clamped(powLimit) = powLimit
      BY <1>0, ClampedIs
    <3> QED
      BY <2>3, <2>4, <2>9, <3>3, <3>4
  <2> QED
    BY <2>8, <2>9
<1> QED
  BY <1>1, <1>2

LEMMA ExactMonotone ==
  ASSUME NEW n \in Nat \ {0}, NEW m \in Nat \ {0}, n <= m, NEW s \in Int
  PROVE  Exact(n, s) <= Exact(m, s)
<1> DEFINE P == Powers(2)
<1>1. CASE s <= 0
  <2>1. -s \in Nat
    BY <1>1
  <2>2. P[-s] \in Nat \ {0}
    BY <2>1, PowersFacts
  <2>3. n \div P[-s] <= m \div P[-s]
    BY <2>2, DivMonotone
  <2> QED
    BY <1>1, <2>3 DEF Exact
<1>2. CASE s > 0
  <2>1. s \in Nat
    BY <1>2
  <2>2. P[s] \in Nat
    BY <2>1, PowersFacts
  <2>3. \A x, y, z \in Nat : x <= y => x * z <= y * z
    OBVIOUS
  <2>4. n * P[s] <= m * P[s]
    BY <2>2, <2>3
  <2> QED
    BY <1>2, <2>4 DEF Exact
<1> QED
  BY <1>1, <1>2

\* One more place makes up for less than a doubling.
LEMMA ExactLater ==
  ASSUME NEW n \in Nat \ {0}, NEW m \in Nat \ {0}, n <= 2 * m,
         NEW s \in Int, NEW r \in Int, s < r
  PROVE  Exact(n, s) <= Exact(m, r)
<1> DEFINE P == Powers(2)
<1>0. \A k \in Nat : P[k] \in Nat \ {0} /\ P[k+1] = 2 * P[k]
  BY PowersFacts
<1>1. CASE r <= 0
  <2>1. -s \in Nat /\ -r \in Nat /\ (-r) + 1 \in Nat /\ (-r) + 1 <= -s /\ s <= 0
    BY <1>1
  <2>2. P[(-r)+1] <= P[-s]
    BY <2>1, PowersMonotone
  <2> DEFINE p == P[-r]
             u == P[-s]
             q == n \div u
  <2>3. p \in Nat \ {0} /\ u \in Nat \ {0} /\ 2 * p <= u
    BY <1>0, <2>1, <2>2
  <2>4. Exact(n, s) = q /\ Exact(m, r) = m \div p
    BY <1>1, <2>1 DEF Exact
  <2> HIDE DEF p, u
  <2>5. q \in Nat
    BY <2>3, DivNat
  <2>6. u * q <= n
    BY <2>3, DivFacts
  <2> HIDE DEF q
  <2>7. (2 * p) * q <= u * q
    <3>1. \A x, y, z \in Nat : x <= y => x * z <= y * z
      OBVIOUS
    <3>2. 2 * p \in Nat
      BY <2>3
    <3> QED
      BY <2>3, <2>5, <3>1, <3>2
  <2>8. p * q <= m
    <3>1. (2 * p) * q = 2 * (p * q) /\ p * q \in Nat /\ u * q \in Nat
      BY <2>3, <2>5
    <3> QED
      BY <2>6, <2>7, <3>1
  <2>9. q <= m \div p
    BY <2>3, <2>5, <2>8, DivAtLeast
  <2> QED
    BY <2>4, <2>9
<1>2. CASE s <= 0 /\ r > 0
  <2>1. -s \in Nat /\ r \in Nat /\ 1 <= r
    BY <1>2
  <2>2. n \div P[-s] <= n /\ n \div P[-s] \in Nat
    BY <1>0, <2>1, DivNat
  <2>3. P[1] <= P[r]
    BY <2>1, PowersMonotone
  <2>4. P[1] = 2
    <3>1. P[0] = 1
      BY PowersFacts
    <3>2. P[0+1] = 2 * P[0]
      BY <1>0
    <3> QED
      BY <3>1, <3>2
  <2>5. 2 * m <= m * P[r] /\ m * P[r] \in Nat
    <3>1. \A x, y \in Nat : 2 <= y => 2 * x <= x * y /\ x * y \in Nat
      OBVIOUS
    <3>2. P[r] \in Nat /\ 2 <= P[r]
      BY <1>0, <2>1, <2>3, <2>4
    <3> QED
      BY <3>1, <3>2
  <2>6. Exact(n, s) = n \div P[-s] /\ Exact(m, r) = m * P[r]
    BY <1>2 DEF Exact
  <2> HIDE DEF P
  <2> QED
    BY <2>2, <2>5, <2>6
<1>3. CASE s > 0 /\ r > 0
  <2>1. s \in Nat /\ r \in Nat /\ s + 1 \in Nat /\ s + 1 <= r
    BY <1>3
  <2>2. P[s+1] <= P[r]
    BY <2>1, PowersMonotone
  <2> DEFINE p == P[s]
             u == P[r]
  <2>3. p \in Nat \ {0} /\ u \in Nat \ {0} /\ 2 * p <= u
    BY <1>0, <2>1, <2>2
  <2>4. Exact(n, s) = n * p /\ Exact(m, r) = m * u
    BY <1>3 DEF Exact
  <2> HIDE DEF p, u
  <2>5. \A x, y, z \in Nat : x <= y => x * z <= y * z /\ z * x <= z * y
    OBVIOUS
  <2>6. n * p <= (2 * m) * p
    <3>1. 2 * m \in Nat
      OBVIOUS
    <3> QED
      BY <2>3, <2>5, <3>1
  <2>7. m * (2 * p) <= m * u
    <3>1. 2 * p \in Nat
      BY <2>3
    <3> QED
      BY <2>3, <2>5, <3>1
  <2>8. (2 * m) * p = m * (2 * p)
    BY <2>3
  <2>9. n * p \in Nat /\ m * (2 * p) \in Nat /\ m * u \in Nat
    BY <2>3
  <2> QED
    BY <2>4, <2>6, <2>7, <2>8, <2>9
<1> QED
  BY <1>1, <1>2, <1>3

-----------------------------------------------------------------------------
(* ASERT *)

LEMMA QuotientMonotone ==
  ASSUME NEW n \in Int, NEW m \in Int, NEW d \in Nat \ {0}, n <= m
  PROVE  Quotient(n, d) <= Quotient(m, d) /\ Quotient(n, d) \in Int
                                          /\ Quotient(m, d) \in Int
<1>1. CASE n >= 0
  <2>1. m >= 0
    BY <1>1
  <2>2. n \div d <= m \div d
    BY DivMonotone
  <2>3. n \div d \in Int /\ m \div d \in Int
    BY DivFacts
  <2> QED
    BY <1>1, <2>1, <2>2, <2>3 DEF Quotient
<1>2. CASE n < 0 /\ m >= 0
  <2>1. (-n) \div d \in Nat /\ m \div d \in Nat
    <3>1. -n \in Nat /\ m \in Nat
      BY <1>2
    <3> QED
      BY <3>1, DivNat
  <2>2. Quotient(n, d) = -((-n) \div d) /\ Quotient(m, d) = m \div d
    BY <1>2 DEF Quotient
  <2> QED
    BY <2>1, <2>2
<1>3. CASE n < 0 /\ m < 0
  <2>1. -m \in Int /\ -n \in Int /\ -m <= -n
    OBVIOUS
  <2>2. (-m) \div d <= (-n) \div d
    BY <2>1, DivMonotone
  <2>3. (-m) \div d \in Int /\ (-n) \div d \in Int
    BY <2>1, DivFacts
  <2>4. Quotient(n, d) = -((-n) \div d) /\ Quotient(m, d) = -((-m) \div d)
    BY <1>3 DEF Quotient
  <2> QED
    BY <2>2, <2>3, <2>4
<1> QED
  BY <1>1, <1>2, <1>3

\* The target that CalculateASERT takes from an exponent.
TargetAt(refTarget, exponent) ==
  Clamped(Shifted(refTarget * Factor[exponent % Fraction],
                  IntegerPart(exponent) - FractionBits))

LEMMA FractionBitsFacts ==
  FractionBits \in Nat /\ Powers(2)[FractionBits] = Fraction
<1>1. \E k \in 0..16 : Powers(2)[k] = Fraction
  BY RulesAssumption
<1>2. FractionBits \in 0..16 /\ Powers(2)[FractionBits] = Fraction
  BY <1>1 DEF FractionBits
<1> QED
  BY <1>2

\* The cubic stays within one doubling, and the integer part rounds down: so a
\* larger exponent never asks for a smaller target.
LEMMA TargetMonotone ==
  ASSUME NEW ref \in 1..powLimit, NEW e \in Int, NEW f \in Int, e <= f
  PROVE  /\ TargetAt(ref, e) <= TargetAt(ref, f)
         /\ TargetAt(ref, e) \in 1..powLimit
<1> DEFINE a == ref * Factor[e % Fraction]
           b == ref * Factor[f % Fraction]
           i == e \div Fraction - FractionBits
           j == f \div Fraction - FractionBits
<1>0. /\ ref \in Nat \ {0} /\ Fraction \in Nat \ {0}
      /\ Factor \in [0..Fraction-1 -> Fraction..2*Fraction-1]
      /\ \A x, y \in 0..Fraction-1 : x <= y => Factor[x] <= Factor[y]
  BY RulesAssumption
<1>1. /\ e % Fraction \in 0..Fraction-1 /\ e \div Fraction \in Int
      /\ e % Fraction = e - Fraction * (e \div Fraction)
  <2>1. /\ e % Fraction \in Nat /\ e % Fraction < Fraction /\ e \div Fraction \in Int
        /\ e % Fraction = e - Fraction * (e \div Fraction)
    BY <1>0, DivFacts
  <2> QED
    BY <1>0, <2>1
<1>2. /\ f % Fraction \in 0..Fraction-1 /\ f \div Fraction \in Int
      /\ f % Fraction = f - Fraction * (f \div Fraction)
  <2>1. /\ f % Fraction \in Nat /\ f % Fraction < Fraction /\ f \div Fraction \in Int
        /\ f % Fraction = f - Fraction * (f \div Fraction)
    BY <1>0, DivFacts
  <2> QED
    BY <1>0, <2>1
<1>3. e \div Fraction <= f \div Fraction
  BY <1>0, DivMonotone
<1>4. /\ Factor[e % Fraction] \in Nat \ {0} /\ Factor[f % Fraction] \in Nat \ {0}
      /\ Factor[e % Fraction] <= 2 * Factor[f % Fraction]
  <2>1. \A x \in 0..Fraction-1 : Factor[x] \in Fraction..2*Fraction-1
    BY <1>0
  <2>2. /\ Factor[e % Fraction] \in Fraction..2*Fraction-1
        /\ Factor[f % Fraction] \in Fraction..2*Fraction-1
    BY <1>1, <1>2, <2>1
  <2> QED
    BY <1>0, <2>2
<1>5. a \in Nat \ {0} /\ b \in Nat \ {0} /\ a <= 2 * b
  <2>1. \A x, y \in Nat \ {0} : x * y \in Nat \ {0}
    OBVIOUS
  <2>2. \A x, y, z \in Nat \ {0} : y <= 2 * z => x * y <= 2 * (x * z)
    OBVIOUS
  <2> QED
    BY <1>0, <1>4, <2>1, <2>2
<1>6. i \in Int /\ j \in Int /\ i <= j
  BY <1>1, <1>2, <1>3, FractionBitsFacts
<1>7. /\ TargetAt(ref, e) = Clamped(Exact(a, i)) /\ Exact(a, i) \in Nat
      /\ TargetAt(ref, f) = Clamped(Exact(b, j)) /\ Exact(b, j) \in Nat
  <2>1. /\ TargetAt(ref, e) = Clamped(Shifted(a, i))
        /\ TargetAt(ref, f) = Clamped(Shifted(b, j))
    BY DEF TargetAt, IntegerPart
  <2> HIDE DEF a, b, i, j
  <2> QED
    BY <1>5, <1>6, <2>1, ShiftedClamped
<1>8. Exact(a, i) <= Exact(b, j)
  <2>1. CASE i = j
    <3>1. e \div Fraction = f \div Fraction
      BY <1>1, <1>2, <2>1, FractionBitsFacts
    <3>2. e % Fraction <= f % Fraction
      <4> DEFINE k == Fraction * (e \div Fraction)
      <4>1. e % Fraction = e - k /\ f % Fraction = f - k
        BY <1>1, <1>2, <3>1
      <4>2. \A x \in Nat, y \in Int : x * y \in Int
        OBVIOUS
      <4>3. k \in Int
        BY <1>0, <1>1, <4>2
      <4> HIDE DEF k
      <4> QED
        BY <4>1, <4>3
    <3>3. Factor[e % Fraction] <= Factor[f % Fraction]
      BY <1>0, <1>1, <1>2, <3>2
    <3>4. a <= b
      <4>1. \A x, y, z \in Nat \ {0} : y <= z => x * y <= x * z
        OBVIOUS
      <4> QED
        BY <1>0, <1>4, <3>3, <4>1
    <3> HIDE DEF a, b, i, j
    <3> QED
      BY <1>5, <1>6, <2>1, <3>4, ExactMonotone
  <2>2. CASE i # j
    <3> HIDE DEF a, b, i, j
    <3>1. i < j
      BY <1>6, <2>2
    <3> QED
      BY <1>5, <1>6, <3>1, ExactLater
  <2> QED
    BY <2>1, <2>2
<1> HIDE DEF a, b, i, j
<1> QED
  BY <1>7, <1>8, ClampedMonotone

\* How far a branch is behind its schedule, and the exponent for it.
Behind(timeDiff, heightDiff) == timeDiff - nPowTargetSpacing * (heightDiff + 1)
Exponent(base) == Quotient(base * Fraction, nASERTHalfLife)

LEMMA CalculateIs ==
  ASSUME NEW ref, NEW timeDiff, NEW heightDiff
  PROVE  CalculateASERT(ref, timeDiff, heightDiff)
           = TargetAt(ref, Exponent(Behind(timeDiff, heightDiff)))
  BY DEF CalculateASERT, TargetAt, Exponent, Behind, Clamped

\* The difficulty only depends on how far the branch is behind.
LEMMA CalculateMonotone ==
  ASSUME NEW ref \in 1..powLimit, NEW x \in Int, NEW y \in Int, x <= y
  PROVE  /\ TargetAt(ref, Exponent(x)) <= TargetAt(ref, Exponent(y))
         /\ TargetAt(ref, Exponent(x)) \in 1..powLimit
         /\ TargetAt(ref, Exponent(y)) \in 1..powLimit
<1>0. Fraction \in Nat \ {0} /\ nASERTHalfLife \in Nat \ {0}
  BY RulesAssumption
<1>1. x * Fraction <= y * Fraction /\ x * Fraction \in Int /\ y * Fraction \in Int
  <2>1. \A u, v \in Int, w \in Nat : u <= v => u * w <= v * w
    OBVIOUS
  <2> QED
    BY <1>0, <2>1
<1>2. Exponent(x) <= Exponent(y) /\ Exponent(x) \in Int /\ Exponent(y) \in Int
  BY <1>0, <1>1, QuotientMonotone DEF Exponent
<1>3. Exponent(y) <= Exponent(y)
  BY <1>2
<1> QED
  BY <1>2, <1>3, TargetMonotone

\* The target for a child after the anchor, when the time is one.
LEMMA NextWorkIs ==
  ASSUME NEW h \in Nat, h >= nASERTAnchorHeight, anchor \in Nat,
         NEW t \in Nat, t >= anchor, t < TimeModulus
  PROVE  /\ GetNextWorkRequired(h, t)
              = Compact(TargetAt(Compact(powLimit),
                          Exponent(Behind(t - anchor, h - nASERTAnchorHeight))))
         /\ Behind(t - anchor, h - nASERTAnchorHeight) \in Int
<1>0. /\ TimeModulus \in Nat \ {0} /\ nASERTAnchorHeight \in Nat
      /\ nPowTargetSpacing \in Nat
  BY RulesAssumption
<1>1. (t - anchor) % TimeModulus = t - anchor
  <2> DEFINE d == t - anchor
  <2>1. d \in Int /\ TimeModulus * 0 <= d /\ d < TimeModulus * 0 + TimeModulus
    BY <1>0
  <2> HIDE DEF d
  <2>2. d \div TimeModulus = 0
    BY <1>0, <2>1, DivIs
  <2>3. d % TimeModulus = d - TimeModulus * (d \div TimeModulus)
    BY <1>0, <2>1, DivFacts
  <2>4. d % TimeModulus = d
    BY <1>0, <2>1, <2>2, <2>3
  <2> QED
    BY <2>4 DEF d
<1>2. ~(h < nASERTAnchorHeight)
  BY <1>0
<1>3. Behind(t - anchor, h - nASERTAnchorHeight) \in Int
  <2>1. (h - nASERTAnchorHeight) + 1 \in Int /\ t - anchor \in Int
    BY <1>0
  <2>2. nPowTargetSpacing * ((h - nASERTAnchorHeight) + 1) \in Int
    BY <1>0, <2>1
  <2> QED
    BY <2>1, <2>2 DEF Behind
<1> QED
  BY <1>1, <1>2, <1>3, CalculateIs DEF GetNextWorkRequired

\* A branch that is further behind is never harder to extend.
LEMMA NextWorkMonotone ==
  ASSUME NEW x \in Int, NEW y \in Int, x <= y
  PROVE  Compact(TargetAt(Compact(powLimit), Exponent(x)))
           <= Compact(TargetAt(Compact(powLimit), Exponent(y)))
<1>1. powLimit \in 1..powLimit /\ powLimit \in Nat
  BY RulesAssumption
<1>2. Compact(powLimit) \in 1..powLimit
  BY <1>1, CompactPositive
<1> DEFINE ref == Compact(powLimit)
           u == TargetAt(ref, Exponent(x))
           v == TargetAt(ref, Exponent(y))
<1> HIDE DEF ref
<1>3. u <= v /\ u \in 1..powLimit /\ v \in 1..powLimit
  BY <1>2, CalculateMonotone DEF ref
<1> HIDE DEF u, v
<1>4. u \in 0..powLimit /\ v \in 0..powLimit
  BY <1>1, <1>3
<1>5. Compact(u) <= Compact(v)
  BY <1>3, <1>4, CompactMonotone
<1> QED
  BY <1>5 DEF u, v, ref

LEMMA TracksSchedule == RulesInv => DifficultyTracksSchedule
<1> DEFINE diff == height - nASERTAnchorHeight
           onTime == anchor + nPowTargetSpacing * diff
<1>1. SUFFICES ASSUME RulesInv, anchor # NoTime
      PROVE  /\ \A t \in anchor..TimeModulus-2 :
                   /\ GetNextWorkRequired(height, t) <= GetNextWorkRequired(height, t + 1)
                   /\ GetNextWorkRequired(height + 1, t) <= GetNextWorkRequired(height, t)
             /\ onTime < TimeModulus =>
                   GetNextWorkRequired(height, onTime)
                     = GetNextWorkRequired(nASERTAnchorHeight, anchor)
  BY DEF DifficultyTracksSchedule
<1>2. /\ anchor \in Nat /\ height \in Nat /\ height >= nASERTAnchorHeight
      /\ nASERTAnchorHeight \in Nat /\ TimeModulus \in Nat
      /\ nPowTargetSpacing \in Nat /\ powLimit \in Nat \ {0}
  BY <1>1, RulesAssumption DEF RulesInv, TypeOK, AnchorInv, NoTime
<1>3. ASSUME NEW t \in anchor..TimeModulus-2
      PROVE  /\ GetNextWorkRequired(height, t) <= GetNextWorkRequired(height, t + 1)
             /\ GetNextWorkRequired(height + 1, t) <= GetNextWorkRequired(height, t)
  <2>1. /\ t \in Nat /\ t >= anchor /\ t < TimeModulus
        /\ t + 1 \in Nat /\ t + 1 >= anchor /\ t + 1 < TimeModulus
        /\ height + 1 \in Nat /\ height + 1 >= nASERTAnchorHeight
    BY <1>2, <1>3
  <2>2. /\ Behind(t - anchor, diff) <= Behind((t + 1) - anchor, diff)
        /\ Behind(t - anchor, (height + 1) - nASERTAnchorHeight) <= Behind(t - anchor, diff)
    <3> DEFINE k == nPowTargetSpacing * (diff + 1)
    <3>1. nPowTargetSpacing * (((height + 1) - nASERTAnchorHeight) + 1)
             = k + nPowTargetSpacing
      <4>1. \A x, y \in Int : x * (y + 1) = x * y + x
        OBVIOUS
      <4>2. diff + 1 \in Int /\ ((height + 1) - nASERTAnchorHeight) + 1 = (diff + 1) + 1
        BY <1>2
      <4> HIDE DEF diff
      <4> QED
        BY <1>2, <4>1, <4>2
    <3>2. k \in Int
      <4>1. diff + 1 \in Int
        BY <1>2
      <4> HIDE DEF diff
      <4> QED
        BY <1>2, <4>1
    <3>3. /\ Behind(t - anchor, diff) = (t - anchor) - k
          /\ Behind((t + 1) - anchor, diff) = ((t + 1) - anchor) - k
          /\ Behind(t - anchor, (height + 1) - nASERTAnchorHeight)
               = (t - anchor) - (k + nPowTargetSpacing)
      BY <3>1 DEF Behind
    <3> HIDE DEF k
    <3> QED
      BY <1>2, <2>1, <3>2, <3>3
  <2> DEFINE W(x) == Compact(TargetAt(Compact(powLimit), Exponent(x)))
             x1 == Behind(t - anchor, diff)
             x2 == Behind((t + 1) - anchor, diff)
             x3 == Behind(t - anchor, (height + 1) - nASERTAnchorHeight)
  <2>3. GetNextWorkRequired(height, t) = W(x1) /\ x1 \in Int
    BY <1>2, <2>1, NextWorkIs
  <2>4. GetNextWorkRequired(height, t + 1) = W(x2) /\ x2 \in Int
    BY <1>2, <2>1, NextWorkIs
  <2>5. GetNextWorkRequired(height + 1, t) = W(x3) /\ x3 \in Int
    BY <1>2, <2>1, NextWorkIs
  <2>6. \A x, y \in Int : x <= y => W(x) <= W(y)
    BY NextWorkMonotone
  <2> HIDE DEF W, x1, x2, x3
  <2>7. x1 <= x2 /\ x3 <= x1
    BY <2>2 DEF x1, x2, x3
  <2> QED
    BY <2>3, <2>4, <2>5, <2>6, <2>7
<1>4. ASSUME onTime < TimeModulus
      PROVE  GetNextWorkRequired(height, onTime)
               = GetNextWorkRequired(nASERTAnchorHeight, anchor)
  <2>1. diff \in Nat /\ nPowTargetSpacing * diff \in Nat
    <3>1. diff \in Nat
      BY <1>2
    <3> HIDE DEF diff
    <3> QED
      BY <1>2, <3>1
  <2>2. onTime \in Nat /\ onTime >= anchor /\ onTime - anchor = nPowTargetSpacing * diff
    <3> DEFINE k == nPowTargetSpacing * diff
    <3> HIDE DEF k
    <3>1. anchor + k \in Nat /\ anchor + k >= anchor /\ (anchor + k) - anchor = k
      BY <1>2, <2>1 DEF k
    <3> QED
      BY <3>1 DEF k
  <2>3. Behind(onTime - anchor, diff) = -nPowTargetSpacing
    <3>1. \A x, y \in Int : x * (y + 1) = x * y + x
      OBVIOUS
    <3>2. nPowTargetSpacing * (diff + 1) = nPowTargetSpacing * diff + nPowTargetSpacing
      <4> HIDE DEF diff
      <4> QED
        BY <1>2, <2>1, <3>1
    <3>3. Behind(onTime - anchor, diff)
            = nPowTargetSpacing * diff - (nPowTargetSpacing * diff + nPowTargetSpacing)
      BY <2>2, <3>2 DEF Behind
    <3> DEFINE k == nPowTargetSpacing * diff
    <3> HIDE DEF k
    <3>4. k - (k + nPowTargetSpacing) = -nPowTargetSpacing
      BY <1>2, <2>1 DEF k
    <3> QED
      BY <3>3, <3>4 DEF k
  <2>4. Behind(anchor - anchor, nASERTAnchorHeight - nASERTAnchorHeight) = -nPowTargetSpacing
    <3>1. anchor - anchor = 0 /\ nASERTAnchorHeight - nASERTAnchorHeight = 0
      BY <1>2
    <3>2. 0 - nPowTargetSpacing * (0 + 1) = -nPowTargetSpacing
      BY <1>2
    <3> QED
      BY <3>1, <3>2 DEF Behind
  <2>5. anchor < TimeModulus /\ anchor >= anchor /\ nASERTAnchorHeight >= nASERTAnchorHeight
    BY <1>2, <1>4, <2>2
  <2> HIDE DEF onTime
  <2>6. GetNextWorkRequired(height, onTime)
          = Compact(TargetAt(Compact(powLimit), Exponent(Behind(onTime - anchor, diff))))
    BY <1>2, <1>4, <2>2, NextWorkIs
  <2>7. GetNextWorkRequired(nASERTAnchorHeight, anchor)
          = Compact(TargetAt(Compact(powLimit),
              Exponent(Behind(anchor - anchor, nASERTAnchorHeight - nASERTAnchorHeight))))
    BY <1>2, <2>5, NextWorkIs
  <2> QED
    BY <2>3, <2>4, <2>6, <2>7
<1> QED
  BY <1>3, <1>4

\* A later parent never makes the next block harder, one more block at the same
\* time never makes it easier, and blocks nPowTargetSpacing apart after the
\* anchor have the same target to meet at every height, that of its child:
\* for all difficulty parameters and any cubic that grows and stays within one
\* doubling, through the division towards zero, the shift that rounds down, the
\* clamp, the width of arith_uint512 and the loss of nBits.
THEOREM DifficultyAlwaysTracks == Spec => []DifficultyTracksSchedule
<1> QED
  BY TracksSchedule, RulesInvariant, PTL


\* What the rules ask for is a target that CheckProofOfWork takes, neither zero
\* nor above the limit, and that nBits holds without a loss.
RequiredTargetUsable ==
    NextBits \in 1..powLimit /\ Compact(NextBits) = NextBits

LEMMA RequiredUsable == RulesInv => RequiredTargetUsable
<1> DEFINE t == times[Len(times)]
           d == (t - anchor) % TimeModulus
           ref == Compact(powLimit)
<1>1. SUFFICES ASSUME RulesInv PROVE RequiredTargetUsable
  OBVIOUS
<1>2. /\ height \in Nat /\ t \in Nat /\ powLimit \in 1..powLimit /\ powLimit \in Nat
      /\ nASERTAnchorHeight \in Nat /\ nPowTargetSpacing \in Nat
      /\ TimeModulus \in Nat \ {0}
      /\ height < nASERTAnchorHeight \/ anchor \in Nat
  <2>1. /\ powLimit \in Nat \ {0} /\ nASERTAnchorHeight \in Nat
        /\ nPowTargetSpacing \in Nat /\ TimeModulus \in Nat \ {0}
    BY RulesAssumption
  <2>2. times \in Seq(Nat) /\ Len(times) >= 1
    BY <1>1, SpanPositive DEF RulesInv, TypeOK
  <2>3. t \in Nat
    BY <2>2
  <2>4. height \in Nat /\ (height < nASERTAnchorHeight \/ anchor \in Nat)
    BY <1>1 DEF RulesInv, TypeOK, AnchorInv, NoTime
  <2> QED
    BY <2>1, <2>3, <2>4
<1>3. ref \in 1..powLimit
  BY <1>2, CompactPositive
<1>4. \E n \in 1..powLimit : NextBits = Compact(n)
  <2>1. CASE height < nASERTAnchorHeight
    <3>1. NextBits = Compact(powLimit)
      BY <2>1 DEF NextBits, GetNextWorkRequired
    <3> QED
      BY <1>2, <3>1
  <2>2. CASE ~(height < nASERTAnchorHeight)
    <3> DEFINE e == height - nASERTAnchorHeight
               x == Behind(d, e)
    <3>1. t - anchor \in Int
      BY <1>2, <2>2
    <3>2. d \in Nat
      BY <1>2, <3>1, DivFacts
    <3>3. e + 1 \in Int
      BY <1>2
    <3>4. NextBits = Compact(CalculateASERT(ref, d, e))
      BY <2>2 DEF NextBits, GetNextWorkRequired
    <3> HIDE DEF d, e, ref
    <3>5. x \in Int
      <4>1. nPowTargetSpacing * (e + 1) \in Int
        BY <1>2, <3>3
      <4> QED
        BY <3>2, <4>1 DEF Behind
    <3>6. CalculateASERT(ref, d, e) = TargetAt(ref, Exponent(x))
      BY CalculateIs
    <3> HIDE DEF x
    <3>7. x <= x
      BY <3>5
    <3>8. TargetAt(ref, Exponent(x)) \in 1..powLimit
      BY <1>3, <3>5, <3>7, CalculateMonotone
    <3> QED
      BY <3>4, <3>6, <3>8
  <2> QED
    BY <2>1, <2>2
<1>5. PICK n \in 1..powLimit : NextBits = Compact(n)
  BY <1>4
<1>6. n \in 0..powLimit
  BY <1>2
<1> QED
  BY <1>5, <1>6, CompactPositive, CompactIdempotent DEF RequiredTargetUsable

\* On every branch the required difficulty is one that a header can state and
\* that its proof of work is checked against: CalculateASERT's assertion on its
\* reference target holds, and no rounding of the exponent, of the shift or of
\* nBits gives a target of zero or above the limit.
THEOREM RequiredTargetAlwaysUsable == Spec => []RequiredTargetUsable
<1> QED
  BY RequiredUsable, RulesInvariant, PTL
=============================================================================
