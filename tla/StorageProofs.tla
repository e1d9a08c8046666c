--------------------------- MODULE StorageProofs ---------------------------
(***************************************************************************)
(* Proofs about the way of the observations into the database and out of   *)
(* it, for every value of the constants: first about Rollups and PingReads *)
(* (what the two tiers of rollups say, and what the overview and a series  *)
(* of minutes answer), then about EventBus, which brings the events there  *)
(* (types, the accounting of the slots, that the holder of a reservation   *)
(* never blocks, and that the bus implements LosslessStream).              *)
(***************************************************************************)
EXTENDS PingReads, EventBus, Sums

-----------------------------------------------------------------------------
(* Slots, minutes and hours.                                               *)

\* What the assumptions say of the constants.
LEMMA Sizes ==
  /\ M \in Nat /\ M > 0 /\ H \in Nat /\ H > 0 /\ M < H /\ H % M = 0
  /\ MaxTime \in Nat /\ Timeout \in Nat /\ MaxLag \in Nat /\ MaxWait \in Nat /\ Sleep \in Nat
  /\ MaxMissed \in Nat /\ Steps \subseteq Nat \ {0}
  /\ RawRetention \in Nat /\ MinuteRetention \in Nat /\ RawFloor \in Nat /\ Month \in Nat
  /\ RawFloor >= Timeout + M /\ RawFloor <= RawRetention
  /\ RawFloor <= Month /\ Month <= MinuteRetention
  /\ MaxLag + Sleep <= RawFloor /\ MaxWait + Sleep <= RawFloor /\ Timeout + Sleep <= RawFloor
BY UnitAssumption, BoundAssumption, RetentionAssumption, LagAssumption

\* Where a bucket lies.
LEMMA BucketHolds ==
  ASSUME NEW t \in Int, NEW width \in {M, H}
  PROVE  /\ Bucket(t, width) \in Int /\ Bucket(t, width) <= t /\ t < Bucket(t, width) + width
         /\ \E q \in Int : Bucket(t, width) = q * width
<1>1. width \in Nat /\ width > 0
  BY Sizes
<1> QED BY <1>1, FloorIsMultiple DEF Base, Bucket

\* The bucket of a slot is a slot.
LEMMA BucketIsSlot ==
  ASSUME NEW t \in Slots, NEW width \in {M, H}
  PROVE  Bucket(t, width) \in Slots
<1>1. width \in Nat /\ width > 0 /\ t \in Nat /\ t <= MaxTime
  BY Sizes DEF Slots
<1>2. t \in Int
  BY <1>1
<1>3. Bucket(t, width) <= t /\ t < Bucket(t, width) + width
  BY <1>2, BucketHolds
<1>4. PICK q \in Int : Bucket(t, width) = q * width
  BY <1>2, BucketHolds
<1>5. q <= -1 => q * width <= -1 * width
  BY <1>1, FactorsOrder
<1>6. q >= 0 => 0 * width <= q * width
  BY <1>1, FactorsOrder
<1>7. Bucket(t, width) >= 0
  BY <1>1, <1>3, <1>4, <1>5, <1>6
<1>8. Bucket(t, width) \in Int
  BY <1>2, BucketHolds
<1> QED BY <1>1, <1>2, <1>3, <1>7, <1>8, Sizes DEF Slots

\* A bucket starts with itself.
LEMMA BucketStarts ==
  ASSUME NEW t \in Int, NEW width \in {M, H}, NEW s \in Int,
         Bucket(t, width) <= s, s < Bucket(t, width) + width
  PROVE  Bucket(s, width) = Bucket(t, width)
<1>1. width \in Nat /\ width > 0
  BY Sizes
<1>2. PICK q \in Int : Bucket(t, width) = q * width
  BY BucketHolds
<1>3. Base(s, width) = q * width
  BY <1>1, <1>2, FloorIsOne
<1> QED BY <1>2, <1>3 DEF Base, Bucket

\* The buckets of later slots are not earlier ones.
LEMMA BucketsOrdered ==
  ASSUME NEW s \in Int, NEW t \in Int, s <= t, NEW width \in {M, H}
  PROVE  Bucket(s, width) <= Bucket(t, width)
<1>1. width \in Nat /\ width > 0
  BY Sizes
<1>2. PICK a : a = Bucket(s, width)
  OBVIOUS
<1>3. PICK b : b = Bucket(t, width)
  OBVIOUS
<1>4. a \in Int /\ a <= s /\ b \in Int /\ b <= t /\ t < b + width
  BY <1>2, <1>3, BucketHolds
<1>5. ASSUME b < a PROVE FALSE
  <2>1. Base(b, width) + width <= Base(s, width)
    BY <1>1, <1>2, <1>4, <1>5, FloorsAreApart DEF Base, Bucket
  <2>2. Bucket(b, width) = b
    BY <1>1, <1>3, <1>4, BucketStarts
  <2>3. b + width <= a
    BY <1>2, <2>1, <2>2 DEF Base, Bucket
  <2> QED BY <1>1, <1>4, <2>3
<1> QED BY <1>2, <1>3, <1>4, <1>5

\* A minute belongs to one hour as a whole.
LEMMA MinutesNest ==
  ASSUME NEW t \in Int
  PROVE  Bucket(Bucket(t, M), H) = Bucket(t, H)
BY Sizes, FloorsNest DEF Base, Bucket

\* What is known of a slot.
LEMMA SlotFacts ==
  \A s \in Slots : /\ s \in Nat /\ s <= MaxTime
                   /\ Bucket(s, M) \in Minutes /\ Bucket(s, H) \in Hours
BY Sizes DEF Slots, Minutes, Hours

\* Of a minute: what slots it has, and the hour it lies in as a whole.
LEMMA MinuteFacts ==
  \A m \in Minutes :
    /\ m \in Slots /\ m \in Nat /\ Bucket(m, M) = m
    /\ \A s \in Int : Bucket(s, M) = m <=> m <= s /\ s < m + M
    /\ Bucket(m, H) \in Hours /\ Bucket(m, H) \in Nat
    /\ Bucket(m, H) <= m /\ m + M <= Bucket(m, H) + H
<1> SUFFICES ASSUME NEW m \in Minutes
             PROVE  /\ m \in Slots /\ m \in Nat /\ Bucket(m, M) = m
                    /\ \A s \in Int : Bucket(s, M) = m <=> m <= s /\ s < m + M
                    /\ Bucket(m, H) \in Hours /\ Bucket(m, H) \in Nat
                    /\ Bucket(m, H) <= m /\ m + M <= Bucket(m, H) + H
  OBVIOUS
<1>1. PICK t \in Slots : m = Bucket(t, M)
  BY DEF Minutes
<1>2. t \in Int /\ m \in Slots /\ m \in Nat /\ M \in Nat /\ M > 0 /\ H \in Nat /\ H > 0
  BY <1>1, BucketIsSlot, SlotFacts, Sizes
<1>3. \A s \in Int : Bucket(s, M) = m <=> m <= s /\ s < m + M
  BY <1>1, <1>2, BucketStarts, BucketHolds
<1>4. Bucket(m, M) = m
  BY <1>2, <1>3
<1>5. Bucket(m, H) \in Hours /\ Bucket(m, H) \in Slots /\ Bucket(m, H) <= m
  BY <1>2, BucketIsSlot, BucketHolds DEF Hours
<1>6. PICK e \in Int : e = m + M - 1
  BY <1>2
<1>7. Bucket(e, M) = m
  BY <1>2, <1>3, <1>6
<1>8. Bucket(e, H) = Bucket(m, H)
  BY <1>7, MinutesNest
<1>9. e < Bucket(m, H) + H
  BY <1>8, BucketHolds
<1>10. Bucket(m, H) \in Nat
  BY <1>5, SlotFacts
<1>11. m + M <= Bucket(m, H) + H
  BY <1>2, <1>6, <1>9, <1>10
<1> QED BY <1>2, <1>3, <1>4, <1>5, <1>10, <1>11

\* Of an hour.
LEMMA HourFacts ==
  \A h \in Hours :
    /\ h \in Slots /\ h \in Nat /\ Bucket(h, H) = h
    /\ \A s \in Int : Bucket(s, H) = h <=> h <= s /\ s < h + H
<1> SUFFICES ASSUME NEW h \in Hours
             PROVE  /\ h \in Slots /\ h \in Nat /\ Bucket(h, H) = h
                    /\ \A s \in Int : Bucket(s, H) = h <=> h <= s /\ s < h + H
  OBVIOUS
<1>1. PICK t \in Slots : h = Bucket(t, H)
  BY DEF Hours
<1>2. t \in Int /\ h \in Slots /\ h \in Nat /\ H \in Nat /\ H > 0
  BY <1>1, BucketIsSlot, SlotFacts, Sizes
<1>3. \A s \in Int : Bucket(s, H) = h <=> h <= s /\ s < h + H
  BY <1>1, <1>2, BucketStarts, BucketHolds
<1> QED BY <1>2, <1>3

\* There are finitely many of each.
LEMMA FinitelyMany ==
  IsFiniteSet(Slots) /\ IsFiniteSet(Minutes) /\ IsFiniteSet(Hours)
<1>1. IsFiniteSet(Slots)
  BY Sizes, FS_Interval DEF Slots
<1>2. Minutes \subseteq Slots /\ Hours \subseteq Slots
  BY MinuteFacts, HourFacts
<1> QED BY <1>1, <1>2, FS_Subset
-----------------------------------------------------------------------------
(* Gaps.                                                                   *)

\* The slots of a gap lie between its first and its last.
LEMMA GapFacts ==
  ASSUME NEW g \in Gaps
  PROVE  /\ g.first \in Nat /\ g.step \in Nat \ {0} /\ g.count \in Nat \ {0}
         /\ Last(g) \in Nat /\ g.first <= Last(g)
         /\ Last(g) <= g.first + MaxMissed * g.step
         /\ \A s \in Missed(g) : s \in Nat /\ g.first <= s /\ s <= Last(g)
         /\ g.first \in Missed(g) /\ Last(g) \in Missed(g)
         /\ IsFiniteSet(Missed(g))
<1>1. g.first \in Nat /\ g.step \in Nat \ {0} /\ g.count \in Nat \ {0} /\ g.count <= MaxMissed
  <2>1. g.first \in Slots /\ g.step \in Steps /\ g.count \in 1 .. MaxMissed
    BY DEF Gaps
  <2>2. g.first \in Nat
    BY <2>1, SlotFacts
  <2>3. g.step \in Nat \ {0} /\ MaxMissed \in Nat
    BY <2>1, Sizes
  <2> QED BY <2>1, <2>2, <2>3
<1>2. PICK d \in Nat : d = g.count - 1
  BY <1>1
<1>3. \A k \in 0 .. d : k * g.step \in Nat /\ k * g.step <= d * g.step
  BY <1>1, FactorsOrder
<1>4. Last(g) = g.first + d * g.step /\ Missed(g) = {g.first + k * g.step : k \in 0 .. d}
  BY <1>2 DEF Last, Missed
<1>5. d * g.step <= MaxMissed * g.step /\ MaxMissed * g.step \in Nat
  BY <1>1, <1>2, Sizes, FactorsOrder
<1>6. \A s \in Missed(g) : s \in Nat /\ g.first <= s /\ s <= Last(g)
  BY <1>1, <1>3, <1>4
<1>7. 0 * g.step = 0 /\ d \in 0 .. d /\ 0 \in 0 .. d
  BY <1>1
<1>8. g.first \in Missed(g) /\ Last(g) \in Missed(g)
  BY <1>1, <1>4, <1>7
<1>9. Last(g) \in Nat
  BY <1>6, <1>8
<1>10. IsFiniteSet(Missed(g))
  <2>1. IsFiniteSet(g.first .. Last(g))
    <3>1. g.first \in Int /\ Last(g) \in Int
      BY <1>1, <1>9
    <3> QED BY <3>1, FS_Interval
  <2>2. Missed(g) \subseteq g.first .. Last(g)
    BY <1>1, <1>6, <1>9
  <2> QED BY <2>1, <2>2, FS_Subset
<1> QED BY <1>1, <1>3, <1>4, <1>5, <1>6, <1>8, <1>9, <1>10

\* countPeriodic counts the slots of a gap that lie in a range.
LEMMA CountsPeriodic ==
  ASSUME NEW g \in Gaps, NEW from \in Int, NEW to \in Int, from < to, g.first < to
  PROVE  CountPeriodic(g, from, to) = Cardinality(Missed(g) \cap (from .. to - 1))
<1>1. g.first \in Nat /\ g.step \in Nat \ {0} /\ g.count \in Nat \ {0}
  BY GapFacts
<1>2. PICK low : low = IF from > g.first
                         THEN (from - g.first + g.step - 1) \div g.step ELSE 0
  OBVIOUS
<1>3. PICK above : above = (to - 1 - g.first) \div g.step
  OBVIOUS
<1>4. low \in Nat /\ \A k \in Nat : from <= g.first + k * g.step <=> low <= k
  <2>1. \A k \in Nat : k * g.step \in Nat
    BY <1>1
  <2>2. CASE from > g.first
    <3>1. PICK a \in Nat \ {0} : a = from - g.first
      BY <1>1, <2>2
    <3>2. low = (a + g.step - 1) \div g.step
      BY <1>2, <2>2, <3>1
    <3>3. low \in Nat
      <4>1. 0 \in Nat
        OBVIOUS
      <4> QED BY <1>1, <3>2, <4>1, RoundUp
    <3>4. \A k \in Nat : a <= k * g.step <=> low <= k
      BY <1>1, <3>2, RoundUp
    <3> QED BY <1>1, <2>1, <3>1, <3>3, <3>4
  <2>3. CASE ~ (from > g.first)
    BY <1>1, <1>2, <2>1, <2>3
  <2> QED BY <2>2, <2>3
<1>5. above \in Nat /\ \A k \in Nat : g.first + k * g.step < to <=> k <= above
  <2>1. \A k \in Nat : k * g.step \in Nat
    BY <1>1
  <2>2. PICK a \in Nat : a = to - 1 - g.first
    BY <1>1
  <2>3. 0 \in Nat /\ above = a \div g.step
    BY <1>3, <2>2
  <2>4. above \in Nat
    BY <1>1, <2>3, RoundDown
  <2>5. \A k \in Nat : k * g.step <= a <=> k <= above
    BY <1>1, <2>3, RoundDown
  <2> QED BY <1>1, <2>1, <2>2, <2>4, <2>5
<1>6. PICK high \in Int : high = IF above >= g.count THEN g.count - 1 ELSE above
  BY <1>1, <1>5
<1>7. CountPeriodic(g, from, to) = IF high < low THEN 0 ELSE high - low + 1
  BY <1>2, <1>3, <1>6 DEF CountPeriodic
<1>8. IsFiniteSet(low .. high)
      /\ Cardinality(low .. high) = IF low > high THEN 0 ELSE high - low + 1
  BY <1>4, FS_Interval
<1> DEFINE In == Missed(g) \cap (from .. to - 1)
<1>9. ExistsBijection(low .. high, In)
  <2>1. \A k \in low .. high : /\ k \in 0 .. g.count - 1 /\ k \in Nat
                               /\ g.first + k * g.step \in from .. to - 1
    BY <1>1, <1>4, <1>5, <1>6
  <2>2. PICK f : f = [k \in low .. high |-> g.first + k * g.step]
    OBVIOUS
  <2>3. f \in [low .. high -> In]
    BY <2>1, <2>2 DEF Missed
  <2>4. \A k, l \in Nat : g.first + k * g.step = g.first + l * g.step => k = l
    <3>1. SUFFICES ASSUME NEW k \in Nat, NEW l \in Nat, k < l
                   PROVE  g.first + k * g.step # g.first + l * g.step
      <4>1. \A k, l \in Nat : k < l \/ l < k \/ k = l
        OBVIOUS
      <4> QED BY <3>1, <4>1
    <3>2. (k + 1) * g.step <= l * g.step
      BY <1>1, <3>1, FactorsOrder
    <3>3. (k + 1) * g.step = k * g.step + g.step /\ k * g.step \in Nat /\ l * g.step \in Nat
      BY <1>1
    <3> QED BY <1>1, <3>2, <3>3
  <2>5. f \in Injection(low .. high, In)
    BY <2>1, <2>2, <2>3, <2>4 DEF Injection, IsInjective
  <2>6. \A s \in In : \E k \in low .. high : f[k] = s
    <3>1. SUFFICES ASSUME NEW s \in In PROVE \E k \in low .. high : f[k] = s
      OBVIOUS
    <3>2. PICK k \in 0 .. g.count - 1 : s = g.first + k * g.step
      BY DEF Missed
    <3>3. k \in low .. high
      BY <1>1, <1>4, <1>5, <1>6, <3>2
    <3> QED BY <2>2, <3>2, <3>3
  <2>7. f \in Surjection(low .. high, In)
    BY <2>3, <2>6 DEF Surjection
  <2> QED BY <2>5, <2>7 DEF Bijection, ExistsBijection
<1>10. Cardinality(In) = Cardinality(low .. high)
  BY <1>8, <1>9, FS_Bijection
<1> QED BY <1>4, <1>7, <1>8, <1>10

\* missedIn counts every slot that some gap missed once.
LEMMA GapsCounted ==
  ASSUME gaps \subseteq Gaps, IsFiniteSet(gaps),
         \A g, k \in gaps : g # k => Missed(g) \cap Missed(k) = {},
         NEW from \in Int, NEW to \in Int, from < to
  PROVE  /\ IsFiniteSet(MissedBy(gaps) \cap (from .. to - 1))
         /\ MissedIn(from, to) = Cardinality(MissedBy(gaps) \cap (from .. to - 1))
<1> DEFINE O == Overlapping(from, to)
           e == [g \in O |-> CountPeriodic(g, from, to)]
           P == [g \in O |-> Missed(g) \cap (from .. to - 1)]
           R(f) == f = [s \in SUBSET O |-> IF s = {} THEN 0
                          ELSE CountPeriodic(Pick(s), from, to) + f[s \ {Pick(s)}]]
           c == CHOOSE f : R(f)
<1>1. MissedIn(from, to) = c[O]
  BY DEF MissedIn, MapThenSumSet, MapThenFoldSet, Pick
<1>2. O \subseteq gaps /\ IsFiniteSet(O)
  BY FS_Subset DEF Overlapping
<1>3. \A f : R(f) <=> Adds(e, O, f)
  <2>1. \A s \in SUBSET O : s # {} => e[Pick(s)] = CountPeriodic(Pick(s), from, to)
    BY PickIsIn
  <2> HIDE DEF e, O
  <2>2. \A f : [s \in SUBSET O |-> IF s = {} THEN 0
                  ELSE CountPeriodic(Pick(s), from, to) + f[s \ {Pick(s)}]]
                 = [s \in SUBSET O |-> Step(e, s, f)]
    BY <2>1 DEF Step
  <2> QED BY <2>2 DEF Adds
<1>4. Adds(e, O, c)
  <2>1. \E f : R(f)
    BY <1>2, <1>3, SumsExist
  <2>2. R(c)
    BY <2>1
  <2> QED BY <1>3, <2>2
<1>5. \A g \in O : e[g] = Cardinality(P[g]) /\ IsFiniteSet(P[g])
  <2>1. SUFFICES ASSUME NEW g \in O
                 PROVE  e[g] = Cardinality(P[g]) /\ IsFiniteSet(P[g])
    OBVIOUS
  <2>2. g \in Gaps /\ g.first < to
    BY <1>2 DEF Overlapping
  <2>3. CountPeriodic(g, from, to) = Cardinality(Missed(g) \cap (from .. to - 1))
    BY <2>2, CountsPeriodic
  <2>4. IsFiniteSet(Missed(g) \cap (from .. to - 1))
    BY <2>2, GapFacts, FS_Subset
  <2> QED BY <2>3, <2>4
<1>6. ArePartsOf(P, O)
  BY <1>2, <1>5 DEF ArePartsOf
<1>7. Whole(P, O) = MissedBy(gaps) \cap (from .. to - 1)
  <2>1. ASSUME NEW g \in gaps, NEW s \in Missed(g), s \in from .. to - 1 PROVE g \in O
    <3>1. g.first \in Nat /\ Last(g) \in Nat /\ s \in Nat /\ g.first <= s /\ s <= Last(g)
      BY GapFacts
    <3> QED BY <2>1, <3>1 DEF Overlapping
  <2>2. PICK I : I = from .. to - 1
    OBVIOUS
  <2>3. \A g \in O : P[g] = Missed(g) \cap I
    BY <2>2
  <2> HIDE DEF P, O
  <2>4. \A s : s \in Whole(P, O) <=> \E g \in O : s \in Missed(g) /\ s \in I
    BY <2>3 DEF Whole
  <2>5. \A s : s \in MissedBy(gaps) <=> \E g \in gaps : s \in Missed(g)
    BY DEF MissedBy
  <2>6. \A s : s \in Whole(P, O) <=> s \in MissedBy(gaps) \cap I
    BY <1>2, <2>1, <2>2, <2>4, <2>5
  <2> QED BY <2>2, <2>6
<1>8. IsFiniteSet(Whole(P, O)) /\ c[O] = Cardinality(Whole(P, O))
  <2> HIDE DEF e, P, O, c
  <2>1. \A g \in O : e[g] = Cardinality(P[g])
    BY <1>5
  <2>2. \A s \in SUBSET O : IsFiniteSet(Whole(P, s)) /\ c[s] = Cardinality(Whole(P, s))
    BY <1>2, <1>4, <1>6, <2>1, PartsAddUp
  <2> QED BY <2>2
<1> QED BY <1>1, <1>7, <1>8
-----------------------------------------------------------------------------
(* Sums of rollups.                                                        *)

Counts == [Fields -> Nat]

\* A total of rollups adds each field of its own.
LEMMA TotalAdds ==
  ASSUME NEW S, IsFiniteSet(S), NEW table, \A b \in S : table[b] \in Counts
  PROVE  /\ Total(S, table) \in Counts
         /\ \A f \in Fields : \E g : /\ Adds([b \in S |-> table[b][f]], S, g)
                                     /\ Total(S, table)[f] = g[S]
<1> DEFINE R(v) == v = [s \in SUBSET S |-> IF s = {} THEN Zero
                          ELSE Plus(table[Pick(s)], v[s \ {Pick(s)}])]
           c == CHOOSE v : R(v)
           e == [f \in Fields |-> [b \in S |-> table[b][f]]]
           g == [f \in Fields |-> CHOOSE h : Adds(e[f], S, h)]
           v == [s \in SUBSET S |-> [f \in Fields |-> g[f][s]]]
<1>1. Total(S, table) = c[S]
  BY DEF Total, FoldSet, MapThenFoldSet, Pick
<1>2. \A f \in Fields : Adds(e[f], S, g[f])
  <2>1. \A f \in Fields : \E h : Adds(e[f], S, h)
    BY SumsExist
  <2> HIDE DEF e
  <2> QED BY <2>1
<1>3. \A f \in Fields : e[f] \in [S -> Nat]
  BY DEF Counts
<1>4. \A f \in Fields, s \in SUBSET S :
        /\ g[f][s] \in Nat
        /\ s = {} => g[f][s] = 0
        /\ s # {} => /\ Pick(s) \in s /\ s \ {Pick(s)} \in SUBSET S
                     /\ g[f][s] = e[f][Pick(s)] + g[f][s \ {Pick(s)}]
  <2> HIDE DEF e, g
  <2>1. SUFFICES ASSUME NEW f \in Fields
                 PROVE  \A s \in SUBSET S :
                          /\ g[f][s] \in Nat
                          /\ s = {} => g[f][s] = 0
                          /\ s # {} => /\ Pick(s) \in s /\ s \ {Pick(s)} \in SUBSET S
                                       /\ g[f][s] = e[f][Pick(s)] + g[f][s \ {Pick(s)}]
    OBVIOUS
  <2>2. PICK d : d = e[f]
    OBVIOUS
  <2>3. PICK h : h = g[f]
    OBVIOUS
  <2>4. d \in [S -> Nat] /\ Adds(d, S, h)
    BY <1>2, <1>3, <2>2, <2>3
  <2>5. \A s \in SUBSET S : h[s] \in Nat
    BY <2>4, SumsAreNat
  <2>6. Unfolds(d, S, h)
    BY <2>4, SolutionsUnfold
  <2> QED BY <2>2, <2>3, <2>5, <2>6 DEF Unfolds
<1>5. R(v)
  <2>1. ASSUME NEW s \in SUBSET S
        PROVE  v[s] = IF s = {} THEN Zero ELSE Plus(table[Pick(s)], v[s \ {Pick(s)}])
    <3>1. CASE s = {}
      <4>1. \A f \in Fields : g[f][s] = 0
        BY <1>4, <3>1
      <4>2. v[s] = [f \in Fields |-> g[f][s]]
        OBVIOUS
      <4> HIDE DEF v, g, e
      <4> QED BY <3>1, <4>1, <4>2 DEF Zero
    <3>2. CASE s # {}
      <4>1. Pick(s) \in s /\ s \ {Pick(s)} \in SUBSET S
        BY <3>2, PickIsIn
      <4>2. v[s \ {Pick(s)}] = [f \in Fields |-> g[f][s \ {Pick(s)}]]
        BY <4>1
      <4>3. \A f \in Fields : e[f][Pick(s)] = table[Pick(s)][f]
        BY <4>1
      <4>4. \A f \in Fields : g[f][s] = table[Pick(s)][f] + g[f][s \ {Pick(s)}]
        BY <1>4, <3>2, <4>3
      <4>5. v[s] = [f \in Fields |-> g[f][s]]
        OBVIOUS
      <4> HIDE DEF v, g, e
      <4>6. PICK w : w = v[s \ {Pick(s)}]
        OBVIOUS
      <4>7. Plus(table[Pick(s)], w) = [f \in Fields |-> table[Pick(s)][f] + w[f]]
        BY DEF Plus
      <4>8. \A f \in Fields : w[f] = g[f][s \ {Pick(s)}]
        BY <4>2, <4>6
      <4>9. [f \in Fields |-> g[f][s]] = [f \in Fields |-> table[Pick(s)][f] + w[f]]
        BY <4>4, <4>8
      <4> QED BY <3>2, <4>5, <4>6, <4>7, <4>9
    <3> QED BY <3>1, <3>2
  <2>2. v = [s \in SUBSET S |-> v[s]]
    OBVIOUS
  <2> HIDE DEF v
  <2> QED BY <2>1, <2>2
<1>6. R(c)
  BY <1>5
<1> HIDE DEF c, g, v, e
<1>7. \A s \in SUBSET S : c[s] = IF s = {} THEN Zero
                                 ELSE Plus(table[Pick(s)], c[s \ {Pick(s)}])
  BY <1>6
<1>8. \A f \in Fields : Adds(e[f], S, [s \in SUBSET S |-> c[s][f]])
  <2>1. SUFFICES ASSUME NEW f \in Fields
                 PROVE  Adds(e[f], S, [s \in SUBSET S |-> c[s][f]])
    OBVIOUS
  <2>2. PICK h : h = [s \in SUBSET S |-> c[s][f]]
    OBVIOUS
  <2>3. ASSUME NEW s \in SUBSET S PROVE h[s] = Step(e[f], s, h)
    <3>1. CASE s = {}
      BY <1>7, <2>2, <3>1 DEF Zero, Step
    <3>2. CASE s # {}
      <4>1. Pick(s) \in s /\ s \ {Pick(s)} \in SUBSET S
        BY <3>2, PickIsIn
      <4>2. c[s] = Plus(table[Pick(s)], c[s \ {Pick(s)}])
        BY <1>7, <3>2
      <4>3. c[s][f] = table[Pick(s)][f] + c[s \ {Pick(s)}][f]
        BY <4>2 DEF Plus
      <4>4. e[f][Pick(s)] = table[Pick(s)][f]
        BY <4>1 DEF e
      <4> QED BY <2>2, <3>2, <4>1, <4>3, <4>4 DEF Step
    <3> QED BY <3>1, <3>2
  <2>4. h = [s \in SUBSET S |-> Step(e[f], s, h)]
    BY <2>2, <2>3
  <2> QED BY <2>2, <2>4 DEF Adds
<1>9. \A f \in Fields : e[f] = [b \in S |-> table[b][f]]
  BY DEF e
<1>10. \A f \in Fields : c[S][f] \in Nat
  <2>1. SUFFICES ASSUME NEW f \in Fields PROVE c[S][f] \in Nat
    OBVIOUS
  <2>2. PICK h : h = [s \in SUBSET S |-> c[s][f]]
    OBVIOUS
  <2>3. PICK d : d = e[f]
    OBVIOUS
  <2>4. d \in [S -> Nat] /\ Adds(d, S, h)
    BY <1>3, <1>8, <2>2, <2>3
  <2>5. \A s \in SUBSET S : h[s] \in Nat
    BY <2>4, SumsAreNat
  <2> QED BY <2>2, <2>5
<1>11. c[S] = [f \in Fields |-> c[S][f]]
  <2>1. c[S] = IF S = {} THEN Zero ELSE Plus(table[Pick(S)], c[S \ {Pick(S)}])
    BY <1>7
  <2> QED BY <2>1 DEF Zero, Plus
<1>12. c[S] \in Counts
  BY <1>10, <1>11 DEF Counts
<1>13. ASSUME NEW f \in Fields
       PROVE  \E h : Adds([b \in S |-> table[b][f]], S, h) /\ c[S][f] = h[S]
  <2>1. PICK h : h = [s \in SUBSET S |-> c[s][f]]
    OBVIOUS
  <2>2. Adds([b \in S |-> table[b][f]], S, h)
    BY <1>8, <1>9, <2>1
  <2>3. h[S] = c[S][f]
    BY <2>1
  <2> QED BY <2>2, <2>3
<1> QED BY <1>1, <1>12, <1>13
-----------------------------------------------------------------------------
(* What was observed.                                                      *)

Row(s) == sample[s] # NoSample
Kind(f, outcome) ==
  \/ f = "sent" /\ outcome # "sendError"
  \/ f = "unanswered" /\ outcome = "pending"
  \/ f \in {"sendError", "onTime", "late"} /\ outcome = f
\* The slots that one field of a rollup counts.
Told(f, from, to) ==
  IF f = "schedulerMissed" THEN MissedBy(gapLog) \cap (from .. to - 1)
  ELSE {s \in Slots : from <= s /\ s < to /\ Row(s) /\ Kind(f, sample[s].outcome)}
\* The rows and gaps are ones that the program stores.
GapsAreSlots == gapLog \subseteq Gaps /\ IsFiniteSet(gapLog) /\ \A g \in gapLog : Last(g) <= now

\* What a tally says of each field.
IsTally(t, S, given, missed) ==
  /\ t = [f \in Fields |-> t[f]]
  /\ t["sent"] = Cardinality({s \in S : sample[s].outcome # "sendError"})
  /\ t["sendError"] = Cardinality({s \in S : sample[s].outcome = "sendError"})
  /\ t["onTime"] = Cardinality({s \in S : sample[s].outcome = "onTime"})
  /\ t["late"] = Cardinality({s \in S : sample[s].outcome = "late"})
  /\ t["unanswered"] = Cardinality({s \in given : sample[s].outcome = "pending"})
  /\ t["schedulerMissed"] = missed

\* A tally is one.
LEMMA TallyFields ==
  ASSUME NEW S, NEW given, NEW missed
  PROVE  IsTally(Tally(S, given, missed), S, given, missed)
BY DEF Tally, Fields, IsTally

\* The truth about a range counts, for each field, the slots it tells of.
LEMMA TruthCounts ==
  ASSUME GapsAreSlots, NEW from \in Int, NEW to \in Int
  PROVE  /\ Truth(from, to) \in Counts
         /\ \A f \in Fields : /\ IsFiniteSet(Told(f, from, to))
                              /\ Truth(from, to)[f] = Cardinality(Told(f, from, to))
<1> DEFINE rows == {s \in Slots : from <= s /\ s < to /\ sample[s] # NoSample}
           missed == Cardinality(MissedBy(gapLog) \cap (from .. to - 1))
<1>1. Truth(from, to) = Tally(rows, rows, missed)
  BY DEF Truth
<1>2. ASSUME NEW f \in Fields, f # "schedulerMissed"
      PROVE  Told(f, from, to) = {s \in rows : Kind(f, sample[s].outcome)}
  BY <1>2 DEF Told, Row
<1>3. /\ {s \in rows : sample[s].outcome # "sendError"} = Told("sent", from, to)
      /\ {s \in rows : sample[s].outcome = "sendError"} = Told("sendError", from, to)
      /\ {s \in rows : sample[s].outcome = "onTime"} = Told("onTime", from, to)
      /\ {s \in rows : sample[s].outcome = "late"} = Told("late", from, to)
      /\ {s \in rows : sample[s].outcome = "pending"} = Told("unanswered", from, to)
  BY <1>2 DEF Kind, Fields
<1>4. missed = Cardinality(Told("schedulerMissed", from, to))
  BY DEF Told
<1> HIDE DEF rows, missed
<1>t. PICK t : t = Tally(rows, rows, missed)
  OBVIOUS
<1>u. IsTally(t, rows, rows, missed)
  BY <1>t, TallyFields
<1>5. \A f \in Fields : Truth(from, to)[f] = Cardinality(Told(f, from, to))
  <2>1. \A f \in Fields : t[f] = Cardinality(Told(f, from, to))
    BY <1>3, <1>4, <1>u DEF Fields, IsTally
  <2> QED BY <1>1, <1>t, <2>1
<1>6. ASSUME NEW f \in Fields PROVE IsFiniteSet(Told(f, from, to))
  <2>1. CASE f = "schedulerMissed"
    <3>1. IsFiniteSet(from .. to - 1) /\ Told(f, from, to) \subseteq from .. to - 1
      BY <2>1, FS_Interval DEF Told
    <3> QED BY <3>1, FS_Subset
  <2>2. CASE f # "schedulerMissed"
    <3>1. Told(f, from, to) \subseteq Slots
      BY <2>2 DEF Told
    <3> QED BY <3>1, FinitelyMany, FS_Subset
  <2> QED BY <2>1, <2>2
<1>7. \A f \in Fields : Truth(from, to)[f] \in Nat
  BY <1>5, <1>6, FS_CardinalityType
<1>8. Truth(from, to) = [f \in Fields |-> Truth(from, to)[f]]
  BY <1>1, <1>t, <1>u DEF IsTally
<1>9. Truth(from, to) \in Counts
  BY <1>7, <1>8 DEF Counts
<1> QED BY <1>5, <1>6, <1>9

\* Whether anything was observed in a minute.
Seen(m) == \/ \E s \in Slots : Row(s) /\ Bucket(s, M) = m
           \/ \E g \in gapLog : m \in Span(g)

\* A slot that counts lies in a minute of the range in which something was seen.
LEMMA ToldIsSeen ==
  ASSUME GapsAreSlots, now \in Slots, NEW from \in Int, NEW to \in Int, NEW f \in Fields,
         NEW s \in Told(f, from, to)
  PROVE  s \in Slots /\ from <= s /\ s < to /\ Seen(Bucket(s, M))
<1>1. CASE f # "schedulerMissed"
  BY <1>1 DEF Told, Seen
<1>2. CASE f = "schedulerMissed"
  <2>1. s \in MissedBy(gapLog) /\ s \in from .. to - 1
    BY <1>2 DEF Told
  <2>2. PICK g \in gapLog : s \in Missed(g)
    BY <2>1 DEF MissedBy
  <2>3. g \in Gaps /\ Last(g) <= now
    BY DEF GapsAreSlots
  <2>4. s \in Nat /\ g.first <= s /\ s <= Last(g) /\ g.first \in Nat /\ Last(g) \in Nat
    BY <2>2, <2>3, GapFacts
  <2>5. s \in Slots
    BY <2>3, <2>4, Sizes DEF Slots
  <2>6. Bucket(s, M) \in Span(g)
    BY <2>4, <2>5, SlotFacts, BucketsOrdered DEF Span
  <2> QED BY <2>1, <2>5, <2>6 DEF Seen
<1> QED BY <1>1, <1>2

\* An hour is the sum of its minutes, if none that was seen is left out.
LEMMA HourAddsUp ==
  ASSUME GapsAreSlots, now \in Slots, NEW h \in Hours, NEW S \in SUBSET Minutes,
         \A m \in S : Bucket(m, H) = h /\ minute[m] = Truth(m, m + M),
         \A m \in Minutes : Bucket(m, H) = h /\ Seen(m) => m \in S
  PROVE  Total(S, minute) = Truth(h, h + H)
<1>1. IsFiniteSet(S)
  BY FinitelyMany, FS_Subset
<1>2. M \in Nat /\ H \in Nat /\ h \in Int /\ \A m \in S : m \in Int /\ m + M \in Int
  BY Sizes, HourFacts, MinuteFacts
<1>3. \A m \in S : minute[m] \in Counts
  BY <1>2, TruthCounts
<1>4. Total(S, minute) \in Counts /\ Truth(h, h + H) \in Counts
  BY <1>1, <1>2, <1>3, TotalAdds, TruthCounts
<1>5. ASSUME NEW f \in Fields PROVE Total(S, minute)[f] = Truth(h, h + H)[f]
  <2>1. PICK P : P = [m \in S |-> Told(f, m, m + M)]
    OBVIOUS
  <2>2. PICK e : e = [m \in S |-> minute[m][f]]
    OBVIOUS
  <2>3. PICK g : Adds(e, S, g) /\ Total(S, minute)[f] = g[S]
    BY <1>1, <1>3, <2>2, TotalAdds
  <2>4. \A m \in S : IsFiniteSet(P[m]) /\ e[m] = Cardinality(P[m])
    BY <1>2, <2>1, <2>2, TruthCounts
  <2>5. \A m \in S : \A s \in P[m] : s \in Slots /\ Bucket(s, M) = m
    <3>1. SUFFICES ASSUME NEW m \in S, NEW s \in P[m] PROVE s \in Slots /\ Bucket(s, M) = m
      OBVIOUS
    <3>2. s \in Told(f, m, m + M) /\ m \in Int /\ m + M \in Int
      BY <1>2, <2>1
    <3>3. s \in Slots /\ m <= s /\ s < m + M
      BY <3>2, ToldIsSeen
    <3> QED BY <3>3, MinuteFacts, SlotFacts
  <2>6. ArePartsOf(P, S)
    BY <2>4, <2>5 DEF ArePartsOf
  <2>7. g[S] = Cardinality(Whole(P, S))
    <3>1. \A s \in SUBSET S : g[s] = Cardinality(Whole(P, s))
      BY <1>1, <2>3, <2>4, <2>6, PartsAddUp
    <3> QED BY <3>1
  <2>8. ASSUME NEW s \in Slots, NEW m \in Minutes, Bucket(s, M) = m, Bucket(m, H) = h
        PROVE  s \in Told(f, m, m + M) <=> s \in Told(f, h, h + H)
    <3>1. m <= s /\ s < m + M /\ h <= s /\ s < h + H /\ s \in Int /\ m \in Int /\ h \in Int
      <4>1. s \in Int /\ Bucket(s, H) = h
        BY <2>8, SlotFacts, MinutesNest
      <4> QED BY <2>8, <4>1, MinuteFacts, HourFacts
    <3>2. CASE f = "schedulerMissed"
      <4>1. \A from, to : Told(f, from, to) = MissedBy(gapLog) \cap (from .. to - 1)
        BY <3>2 DEF Told
      <4>2. PICK a \in Int : a = m + M
        BY <3>1, Sizes
      <4>3. PICK b \in Int : b = h + H
        BY <3>1, Sizes
      <4>4. s \in m .. a - 1 /\ s \in h .. b - 1
        BY <3>1, <4>2, <4>3
      <4>5. s \in Told(f, m, a) <=> s \in Told(f, h, b)
        BY <4>1, <4>4
      <4> QED BY <4>2, <4>3, <4>5
    <3>3. CASE f # "schedulerMissed"
      BY <3>1, <3>3 DEF Told
    <3> QED BY <3>2, <3>3
  <2>9. \A s : s \in Whole(P, S) <=> \E m \in S : s \in Told(f, m, m + M)
    BY <2>1 DEF Whole
  <2>10. ASSUME NEW s \in Whole(P, S) PROVE s \in Told(f, h, h + H)
    <3>1. PICK m \in S : s \in Told(f, m, m + M)
      BY <2>9
    <3>2. s \in Slots /\ Bucket(s, M) = m
      BY <2>1, <2>5, <3>1
    <3> QED BY <2>8, <3>1, <3>2
  <2>11. ASSUME NEW s \in Told(f, h, h + H) PROVE s \in Whole(P, S)
    <3>1. s \in Slots /\ h <= s /\ s < h + H /\ Seen(Bucket(s, M))
      BY <1>2, ToldIsSeen
    <3>2. PICK m \in Minutes : m = Bucket(s, M)
      BY <3>1, SlotFacts
    <3>3. Bucket(m, H) = h
      <4>1. s \in Int /\ Bucket(s, H) = h
        BY <3>1, SlotFacts, HourFacts
      <4> QED BY <3>2, <4>1, MinutesNest
    <3>4. m \in S
      BY <3>1, <3>2, <3>3
    <3> QED BY <2>8, <2>9, <3>1, <3>2, <3>3, <3>4
  <2>12. Whole(P, S) = Told(f, h, h + H)
    BY <2>10, <2>11
  <2> QED BY <1>2, <2>3, <2>7, <2>12, TruthCounts
<1>6. \A a, b \in Counts : (\A f \in Fields : a[f] = b[f]) => a = b
  BY DEF Counts
<1> QED BY <1>4, <1>5, <1>6
-----------------------------------------------------------------------------
(* The inductive invariant.                                                *)

Rows == [outcome : Outcomes \cup {"none"}, sent : Slots]
Types ==
  /\ TypeOK /\ sample \in [Slots -> Rows] /\ GapsAreSlots
  /\ mode = "idle" => stage = 0
\* A probe is sent in time, but for a suspension.
Prompt == \A s \in Slots : Row(s) => sample[s].sent <= s + Sleep
\* No slot was missed by two gaps.
Apart == \A g, k \in gapLog : g # k => Missed(g) \cap Missed(k) = {}
\* What was deleted is old, and its minutes need not be summed again.
GoneRows ==
  \A s \in Slots : Row(s) /\ s \notin raw =>
    Clean(M, Bucket(s, M)) /\ Bucket(s, M) + M + RawFloor <= now
GoneGaps ==
  \A g \in gapLog \ gaps :
    Bucket(Last(g), M) + M + RawFloor <= now /\ \A m \in Span(g) : Clean(M, m)
\* A minute that is seen is dirty or summed, until a month after its hour.
Kept ==
  \A m \in Minutes : Seen(m) =>
    ~ Clean(M, m) \/ m \in DOMAIN minute \/ Bucket(m, H) + H + Month <= now
\* No reply in time can follow once a minute is summed.
Answered ==
  /\ \A m \in DOMAIN minute : Clean(M, m) => Awaited(m) = {}
  /\ \A m \in Minutes : <<M, m>> \in todo => MinuteEligible(m)
IInv == Types /\ Prompt /\ Apart /\ GoneRows /\ GoneGaps /\ Kept /\ Answered /\ MinuteIsExact

\* A minute that is gone, or never was summed, leaves its hour as it is.
Settled ==
  \A m \in Minutes : Seen(m) /\ Clean(M, m) /\ m \notin DOMAIN minute =>
    /\ Clean(H, Bucket(m, H))
    /\ \A n \in Minutes : Bucket(n, H) = Bucket(m, H) => Clean(M, n)
HInv == Settled /\ HourIsExact

\* What an event changes: it makes recent minutes dirty, and whatever it stores
\* belongs to them.
Noted(D) ==
  /\ ~ sweeping /\ D \subseteq Minutes /\ \A m \in D : now < m + M + RawFloor
  /\ dirty' = dirty \cup {<<M, m>> : m \in D}
  /\ UNCHANGED <<now, minute, hour, mode, todo, stage>>
  /\ \A s \in Slots : Bucket(s, M) \notin D => sample'[s] = sample[s] /\ (s \in raw' <=> s \in raw)
  /\ \A s \in Slots : sample'[s] # NoSample /\ s \notin raw' => Row(s) /\ s \notin raw
  /\ gapLog \subseteq gapLog' /\ gapLog' \ gaps' \subseteq gapLog \ gaps
  /\ \A g \in gapLog' \ gapLog : g \in Gaps /\ Span(g) \subseteq D

\* A range in which nothing is stored has the truth it had.
LEMMA TruthStays ==
  ASSUME NEW from, NEW to,
         \A s \in Slots : from <= s /\ s < to => sample'[s] = sample[s],
         MissedBy(gapLog') \cap (from .. to - 1) = MissedBy(gapLog) \cap (from .. to - 1)
  PROVE  Truth(from, to)' = Truth(from, to)
<1> DEFINE before == {s \in Slots : from <= s /\ s < to /\ sample[s] # NoSample}
           after == {s \in Slots : from <= s /\ s < to /\ sample'[s] # NoSample}
<1>1. after = before /\ \A s \in before : sample'[s] = sample[s]
  OBVIOUS
<1>2. Truth(from, to) =
            [sent |-> Cardinality({s \in before : sample[s].outcome # "sendError"}),
             sendError |-> Cardinality({s \in before : sample[s].outcome = "sendError"}),
             onTime |-> Cardinality({s \in before : sample[s].outcome = "onTime"}),
             late |-> Cardinality({s \in before : sample[s].outcome = "late"}),
             unanswered |-> Cardinality({s \in before : sample[s].outcome = "pending"}),
             schedulerMissed |-> Cardinality(MissedBy(gapLog) \cap (from .. to - 1))]
  BY DEF Truth, Tally
<1>3. Truth(from, to)' =
            [sent |-> Cardinality({s \in after : sample'[s].outcome # "sendError"}),
             sendError |-> Cardinality({s \in after : sample'[s].outcome = "sendError"}),
             onTime |-> Cardinality({s \in after : sample'[s].outcome = "onTime"}),
             late |-> Cardinality({s \in after : sample'[s].outcome = "late"}),
             unanswered |-> Cardinality({s \in after : sample'[s].outcome = "pending"}),
             schedulerMissed |-> Cardinality(MissedBy(gapLog') \cap (from .. to - 1))]
  BY DEF Truth, Tally
<1> HIDE DEF before, after
<1>4. {s \in after : sample'[s].outcome # "sendError"} = {s \in before : sample[s].outcome # "sendError"}
      /\ \A o : {s \in after : sample'[s].outcome = o} = {s \in before : sample[s].outcome = o}
  BY <1>1
<1> QED BY <1>2, <1>3, <1>4
-----------------------------------------------------------------------------
(* The events.                                                             *)

\* A clean minute was clean before the event, and is none of those it is about.
LEMMA NotedLeaves ==
  ASSUME NEW D, Noted(D), NEW m \in Minutes, Clean(M, m)'
  PROVE  m \notin D /\ Clean(M, m)
BY DEF Noted, Clean

\* The range it does not reach stays what it was.
LEMMA NotedTruth ==
  ASSUME NEW D, Noted(D), Types', NEW from \in Int, NEW to \in Int,
         \A s \in Slots : from <= s /\ s < to => Bucket(s, M) \notin D
  PROVE  Truth(from, to)' = Truth(from, to)
<1>1. \A s \in Slots : from <= s /\ s < to => sample'[s] = sample[s]
  BY DEF Noted
<1>2. gapLog \subseteq gapLog' /\ \A g \in gapLog' : g \in Gaps /\ Last(g) <= now'
  BY DEF Noted, Types, GapsAreSlots
<1>3. now' \in Nat /\ now' <= MaxTime
  BY SlotFacts DEF Types, TypeOK
<1>4. ASSUME NEW g \in gapLog', g \notin gapLog, NEW s \in Missed(g), s \in from .. to - 1
      PROVE  FALSE
  <2>1. g \in Gaps /\ Last(g) <= now' /\ Span(g) \subseteq D
    BY <1>2, <1>4 DEF Noted
  <2>2. s \in Nat /\ g.first <= s /\ s <= Last(g) /\ g.first \in Nat /\ Last(g) \in Nat
    BY <2>1, GapFacts
  <2>3. s \in Slots
    BY <1>3, <2>1, <2>2, Sizes DEF Slots
  <2>4. Bucket(s, M) \in Span(g)
    BY <2>2, <2>3, SlotFacts, BucketsOrdered DEF Span
  <2>5. from <= s /\ s < to
    BY <1>4, <2>2
  <2> QED BY <2>1, <2>3, <2>4, <2>5
<1>5. \A s : s \in from .. to - 1 => (s \in MissedBy(gapLog') <=> s \in MissedBy(gapLog))
  BY <1>2, <1>4 DEF MissedBy
<1>6. MissedBy(gapLog') \cap (from .. to - 1) = MissedBy(gapLog) \cap (from .. to - 1)
  BY <1>5
<1> QED BY <1>1, <1>6, TruthStays

\* What was seen in a minute it does not reach was seen before.
LEMMA NotedSeen ==
  ASSUME NEW D, Noted(D), NEW m \in Minutes, m \notin D, Seen(m)'
  PROVE  Seen(m)
<1>1. CASE \E s \in Slots : Row(s)' /\ Bucket(s, M) = m
  BY <1>1 DEF Noted, Row, Seen
<1>2. CASE \E g \in gapLog' : m \in Span(g)
  BY <1>2 DEF Noted, Seen
<1> QED BY <1>1, <1>2 DEF Seen

\* An event keeps what the invariant says of the tables.
LEMMA NotedKeeps ==
  ASSUME IInv, Types', NEW D, Noted(D)
  PROVE  GoneRows' /\ GoneGaps' /\ Kept' /\ Answered' /\ MinuteIsExact'
<1>0. /\ now' = now /\ minute' = minute /\ todo' = todo /\ todo = {}
      /\ now \in Int /\ M \in Nat /\ RawFloor \in Nat /\ D \subseteq Minutes
  BY Sizes, SlotFacts DEF Noted, IInv, Types, TypeOK, sweeping
<1>1. GoneRows'
  <2>1. SUFFICES ASSUME NEW s \in Slots, Row(s)', s \notin raw'
                 PROVE  Clean(M, Bucket(s, M))' /\ Bucket(s, M) + M + RawFloor <= now'
    BY DEF GoneRows
  <2>2. Row(s) /\ s \notin raw
    BY <2>1 DEF Noted, Row
  <2>3. Clean(M, Bucket(s, M)) /\ Bucket(s, M) + M + RawFloor <= now
    BY <2>2 DEF IInv, GoneRows
  <2>4. Bucket(s, M) \in Int
    BY SlotFacts, MinuteFacts
  <2>5. Bucket(s, M) \notin D
    BY <1>0, <2>3, <2>4 DEF Noted
  <2> QED BY <1>0, <2>3, <2>5 DEF Noted, Clean
<1>2. GoneGaps'
  <2>1. SUFFICES ASSUME NEW g \in gapLog' \ gaps'
                 PROVE  /\ Bucket(Last(g), M) + M + RawFloor <= now'
                        /\ \A m \in Span(g) : Clean(M, m)'
    BY DEF GoneGaps
  <2>2. g \in gapLog \ gaps /\ g \in Gaps
    BY DEF Noted, IInv, Types, GapsAreSlots
  <2>3. Bucket(Last(g), M) + M + RawFloor <= now /\ \A m \in Span(g) : Clean(M, m)
    BY <2>2 DEF IInv, GoneGaps
  <2>4. Last(g) \in Int /\ Bucket(Last(g), M) \in Int
    BY <2>2, GapFacts, BucketHolds
  <2>5. ASSUME NEW m \in Span(g) PROVE m \notin D
    <3>1. m \in Int /\ m <= Bucket(Last(g), M)
      BY MinuteFacts DEF Span
    <3> QED BY <1>0, <2>3, <2>4, <3>1 DEF Noted
  <2> QED BY <1>0, <2>3, <2>5 DEF Noted, Clean
<1>3. Kept'
  <2>1. SUFFICES ASSUME NEW m \in Minutes, Seen(m)', Clean(M, m)'
                 PROVE  m \in DOMAIN minute' \/ Bucket(m, H) + H + Month <= now'
    BY DEF Kept
  <2>2. Seen(m) /\ Clean(M, m)
    BY <2>1, NotedLeaves, NotedSeen
  <2> QED BY <1>0, <2>2 DEF IInv, Kept
<1>4. Answered'
  <2>1. ASSUME NEW m \in DOMAIN minute', Clean(M, m)' PROVE Awaited(m)' = {}
    <3>1. m \in DOMAIN minute /\ m \in Minutes
      BY <1>0 DEF IInv, Types, TypeOK
    <3>2. m \notin D /\ Clean(M, m)
      BY <2>1, <3>1, NotedLeaves
    <3>3. Awaited(m) = {}
      BY <3>1, <3>2 DEF IInv, Answered
    <3>4. raw' \subseteq Slots
      BY DEF Types, TypeOK
    <3>5. \A s \in raw' : Bucket(s, M) = m => sample'[s] = sample[s] /\ s \in raw
      BY <3>2, <3>4 DEF Noted
    <3> QED BY <1>0, <3>3, <3>5 DEF Awaited
  <2>2. \A m \in Minutes : <<M, m>> \notin todo'
    BY <1>0
  <2> QED BY <2>1, <2>2 DEF Answered
<1>5. MinuteIsExact'
  <2>1. SUFFICES ASSUME NEW m \in DOMAIN minute', Clean(M, m)'
                 PROVE  minute'[m] = Truth(m, m + M)'
    BY DEF MinuteIsExact
  <2>2. m \in DOMAIN minute /\ m \in Minutes
    BY <1>0 DEF IInv, Types, TypeOK
  <2>3. m \notin D /\ Clean(M, m)
    BY <2>1, <2>2, NotedLeaves
  <2>4. minute[m] = Truth(m, m + M)
    BY <2>2, <2>3 DEF IInv, MinuteIsExact
  <2>5. \A s \in Slots : m <= s /\ s < m + M => Bucket(s, M) \notin D
    BY <2>2, <2>3, MinuteFacts, SlotFacts
  <2>6. m \in Int /\ m + M \in Int
    BY <1>0, <2>2, MinuteFacts
  <2>7. Truth(m, m + M)' = Truth(m, m + M)
    BY <2>5, <2>6, NotedTruth
  <2> QED BY <1>0, <2>4, <2>7
<1> QED BY <1>1, <1>2, <1>3, <1>4, <1>5

\* And what is known of the hours.
LEMMA NotedKeepsHours ==
  ASSUME IInv, HInv, Types', NEW D, Noted(D)
  PROVE  HInv'
<1>0. /\ now' = now /\ minute' = minute /\ hour' = hour
      /\ now \in Int /\ M \in Nat /\ H \in Nat /\ RawFloor \in Nat /\ Month \in Nat
      /\ RawFloor <= Month /\ M < H /\ D \subseteq Minutes
  BY Sizes, SlotFacts DEF Noted, IInv, Types, TypeOK
<1>1. Settled'
  <2>1. SUFFICES ASSUME NEW m \in Minutes, Seen(m)', Clean(M, m)', m \notin DOMAIN minute'
                 PROVE  /\ Clean(H, Bucket(m, H))'
                        /\ \A n \in Minutes : Bucket(n, H) = Bucket(m, H) => Clean(M, n)'
    BY DEF Settled
  <2>2. Seen(m) /\ Clean(M, m) /\ m \notin DOMAIN minute
    BY <1>0, <2>1, NotedLeaves, NotedSeen
  <2>3. /\ Clean(H, Bucket(m, H))
        /\ \A n \in Minutes : Bucket(n, H) = Bucket(m, H) => Clean(M, n)
    BY <2>2 DEF HInv, Settled
  <2>4. Bucket(m, H) + H + Month <= now
    BY <2>2 DEF IInv, Kept
  <2>5. ASSUME NEW n \in D, Bucket(n, H) = Bucket(m, H) PROVE FALSE
    <3>1. n \in Nat /\ n + M <= Bucket(m, H) + H /\ now < n + M + RawFloor /\ Bucket(m, H) \in Nat
      BY <1>0, <2>5, MinuteFacts DEF Noted
    <3> QED BY <1>0, <2>4, <3>1
  <2> QED BY <1>0, <2>3, <2>5 DEF Noted, Clean
<1>2. HourIsExact'
  <2>1. SUFFICES ASSUME NEW h \in DOMAIN hour', Clean(H, h)',
                        \A m \in Minutes : Bucket(m, H) = h => Clean(M, m)'
                 PROVE  hour'[h] = Truth(h, h + H)'
    BY DEF HourIsExact
  <2>2. h \in DOMAIN hour /\ h \in Hours
    BY <1>0 DEF IInv, Types, TypeOK
  <2>3. \A m \in Minutes : Bucket(m, H) = h => m \notin D /\ Clean(M, m)
    BY <2>1, NotedLeaves
  <2>4. Clean(H, h)
    BY <2>1 DEF Noted, Clean
  <2>5. hour[h] = Truth(h, h + H)
    BY <2>2, <2>3, <2>4 DEF HInv, HourIsExact
  <2>6. ASSUME NEW s \in Slots, h <= s, s < h + H PROVE Bucket(s, M) \notin D
    <3>1. s \in Int /\ Bucket(s, M) \in Minutes
      BY SlotFacts
    <3>2. Bucket(Bucket(s, M), H) = h
      BY <2>2, <2>6, <3>1, HourFacts, MinutesNest
    <3> QED BY <2>3, <3>1, <3>2
  <2>7. h \in Int /\ h + H \in Int
    BY <1>0, <2>2, HourFacts
  <2>8. Truth(h, h + H)' = Truth(h, h + H)
    BY <2>6, <2>7, NotedTruth
  <2> QED BY <1>0, <2>5, <2>8
<1> QED BY <1>1, <1>2 DEF HInv

\* What all steps know of the types.
LEMMA TypesFacts ==
  ASSUME Types
  PROVE  /\ now \in Nat /\ now <= MaxTime /\ skew \in Nat /\ skew <= Sleep
         /\ sample \in [Slots -> Rows] /\ raw \subseteq Slots /\ \A s \in raw : Row(s)
         /\ \A s \in Slots : Row(s) => /\ sample[s].outcome \in Outcomes
                                       /\ sample[s].sent \in Nat /\ s <= sample[s].sent
                                       /\ sample[s].sent <= now
         /\ gapLog \subseteq Gaps /\ gaps \subseteq gapLog /\ IsFiniteSet(gapLog)
         /\ \A g \in gapLog : Last(g) <= now
         /\ DOMAIN minute \subseteq Minutes /\ DOMAIN hour \subseteq Hours
         /\ todo \subseteq dirty /\ (~ sweeping => todo = {})
<1>1. TypeOK /\ sample \in [Slots -> Rows] /\ GapsAreSlots
  BY DEF Types
<1>2. now \in Nat /\ now <= MaxTime /\ skew \in Nat /\ skew <= Sleep
  BY <1>1, Sizes, SlotFacts DEF TypeOK
<1>3. ASSUME NEW s \in Slots, Row(s)
      PROVE  /\ sample[s].outcome \in Outcomes
             /\ sample[s].sent \in Nat /\ s <= sample[s].sent /\ sample[s].sent <= now
  <2>1. sample[s].outcome \in Outcomes /\ sample[s].sent \in s .. now
    BY <1>1, <1>3 DEF TypeOK, Row
  <2> QED BY <1>2, <2>1, SlotFacts
<1>4. raw \subseteq Slots /\ \A s \in raw : Row(s)
  BY <1>1 DEF TypeOK, Row
<1>5. ~ sweeping => todo = {}
  BY <1>1 DEF TypeOK, sweeping
<1> QED BY <1>1, <1>2, <1>3, <1>4, <1>5 DEF TypeOK, GapsAreSlots

\* insertProbe: a row of a recent slot.
LEMMA InsertProbeNoted ==
  ASSUME IInv, NEW s \in Slots, InsertProbe(s)
  PROVE  Types' /\ Prompt' /\ Apart' /\ Noted({Bucket(s, M)})
<1>0. /\ now \in Nat /\ now <= MaxTime /\ skew \in Nat /\ skew <= Sleep
      /\ sample \in [Slots -> Rows] /\ raw \subseteq Slots
      /\ \A t \in Slots : Row(t) => /\ sample[t].outcome \in Outcomes
                                    /\ sample[t].sent \in Nat /\ t <= sample[t].sent
                                    /\ sample[t].sent <= now
      /\ \A t \in raw : Row(t)
  BY TypesFacts DEF IInv
<1>1. /\ ~ sweeping /\ s \notin Used /\ s + skew <= now /\ now <= s + skew + MaxLag
      /\ raw' = raw \cup {s} /\ dirty' = dirty \cup {<<M, Bucket(s, M)>>}
      /\ UNCHANGED <<now, skew, gapLog, gaps, minute, hour, mode, todo, stage>>
  BY DEF InsertProbe, Recent, MinuteOf, sweep
<1>2. PICK o \in {"pending", "sendError"} :
        sample' = [sample EXCEPT ![s] = [outcome |-> o, sent |-> s + skew]]
  BY DEF InsertProbe
<1>3. PICK r : r = [outcome |-> o, sent |-> s + skew]
  OBVIOUS
<1>4. s \in Nat /\ s <= MaxTime /\ Bucket(s, M) \in Minutes /\ s + skew \in Slots
      /\ s + skew \in s .. now
  BY <1>0, <1>1, SlotFacts, Sizes DEF Slots
<1>5. r \in Rows /\ r # NoSample /\ r.outcome \in Outcomes /\ r.sent = s + skew
  BY <1>3, <1>4 DEF Rows, NoSample, Outcomes
<1>6. sample' \in [Slots -> Rows] /\ sample'[s] = r
      /\ \A t \in Slots : t # s => sample'[t] = sample[t]
  BY <1>0, <1>2, <1>3, <1>5
<1>7. sample[s] = NoSample
  BY <1>1 DEF Used
<1>8. Types'
  <2>1. \A t \in Slots : \/ sample'[t] = NoSample
                         \/ sample'[t].outcome \in Outcomes /\ sample'[t].sent \in t .. now'
    BY <1>1, <1>4, <1>5, <1>6 DEF IInv, Types, TypeOK
  <2>2. raw' \subseteq {t \in Slots : sample'[t] # NoSample}
    BY <1>0, <1>1, <1>5, <1>6 DEF Row
  <2>3. dirty' \subseteq ({M} \X Minutes) \cup ({H} \X Hours)
    BY <1>1, <1>4 DEF IInv, Types, TypeOK
  <2> QED BY <1>1, <1>6, <2>1, <2>2, <2>3 DEF IInv, Types, TypeOK, GapsAreSlots
<1>9. Prompt'
  BY <1>0, <1>4, <1>5, <1>6, Sizes DEF IInv, Prompt, Row
<1>10. Apart'
  BY <1>1 DEF IInv, Apart
<1>11. Noted({Bucket(s, M)})
  <2>1. now < Bucket(s, M) + M + RawFloor
    <3>1. Bucket(s, M) \in Int /\ s < Bucket(s, M) + M
      BY <1>4, BucketHolds
    <3> QED BY <1>0, <1>1, <1>4, <3>1, Sizes
  <2>2. \A t \in Slots : Bucket(t, M) \notin {Bucket(s, M)} =>
                           sample'[t] = sample[t] /\ (t \in raw' <=> t \in raw)
    BY <1>1, <1>6
  <2>3. \A t \in Slots : sample'[t] # NoSample /\ t \notin raw' => Row(t) /\ t \notin raw
    BY <1>1, <1>6 DEF Row
  <2>4. dirty' = dirty \cup {<<M, m>> : m \in {Bucket(s, M)}}
    BY <1>1
  <2> QED BY <1>1, <1>4, <2>1, <2>2, <2>3, <2>4 DEF Noted
<1> QED BY <1>8, <1>9, <1>10, <1>11

\* applyReply: the answer to a recent row.
LEMMA AttachReplyNoted ==
  ASSUME IInv, NEW s \in Slots, AttachReply(s)
  PROVE  Types' /\ Prompt' /\ Apart' /\ Noted({Bucket(s, M)})
<1>0. /\ now \in Nat /\ now <= MaxTime
      /\ sample \in [Slots -> Rows] /\ raw \subseteq Slots
      /\ \A t \in Slots : Row(t) => /\ sample[t].outcome \in Outcomes
                                    /\ sample[t].sent \in Nat /\ t <= sample[t].sent
                                    /\ sample[t].sent <= now
      /\ \A t \in raw : Row(t)
  BY TypesFacts DEF IInv
<1>1. /\ ~ sweeping /\ s \in raw
      /\ dirty' = dirty \cup {<<M, Bucket(s, M)>>}
      /\ UNCHANGED <<now, skew, gapLog, raw, gaps, minute, hour, mode, todo, stage>>
  BY DEF AttachReply, MinuteOf, sweep
<1>2. PICK o \in {"onTime", "late"} : /\ now <= sample[s].sent + MaxWait
                                      /\ sample' = [sample EXCEPT ![s].outcome = o]
  <2>1. PICK at \in sample[s].sent .. now :
          /\ now <= sample[s].sent + MaxWait
          /\ sample' = [sample EXCEPT ![s].outcome =
                          IF at <= sample[s].sent + Timeout THEN "onTime" ELSE "late"]
    BY DEF AttachReply
  <2>2. CASE at <= sample[s].sent + Timeout
    BY <2>1, <2>2
  <2>3. CASE ~ (at <= sample[s].sent + Timeout)
    BY <2>1, <2>3
  <2> QED BY <2>2, <2>3
<1>3. s \in Nat /\ s <= MaxTime /\ Bucket(s, M) \in Minutes
  BY SlotFacts
<1>4. Row(s) /\ sample[s] \in Rows /\ sample[s].sent \in Nat /\ sample[s].sent <= now
  BY <1>0, <1>1
<1>5. /\ sample' \in [Slots -> Rows] /\ sample'[s].outcome = o
      /\ sample'[s].sent = sample[s].sent
      /\ \A t \in Slots : t # s => sample'[t] = sample[t]
  BY <1>0, <1>2, <1>4 DEF Rows, Outcomes
<1>6. sample'[s] # NoSample
  BY <1>5 DEF NoSample
<1>7. \A t \in Slots : (sample'[t] # NoSample <=> Row(t)) /\ sample'[t].sent = sample[t].sent
  BY <1>4, <1>5, <1>6 DEF Row
<1>8. Types'
  <2>1. \A t \in Slots : \/ sample'[t] = NoSample
                         \/ sample'[t].outcome \in Outcomes /\ sample'[t].sent \in t .. now'
    <3>1. o \in Outcomes
      BY DEF Outcomes
    <3> QED BY <1>1, <1>5, <1>7, <3>1 DEF IInv, Types, TypeOK, Row
  <2>2. raw' \subseteq {t \in Slots : sample'[t] # NoSample}
    BY <1>0, <1>1, <1>7
  <2>3. dirty' \subseteq ({M} \X Minutes) \cup ({H} \X Hours)
    BY <1>1, <1>3 DEF IInv, Types, TypeOK
  <2> QED BY <1>1, <1>5, <2>1, <2>2, <2>3 DEF IInv, Types, TypeOK, GapsAreSlots
<1>9. Prompt'
  BY <1>7 DEF IInv, Prompt, Row
<1>10. Apart'
  BY <1>1 DEF IInv, Apart
<1>11. Noted({Bucket(s, M)})
  <2>1. now < Bucket(s, M) + M + RawFloor
    <3>1. Bucket(s, M) \in Int /\ s < Bucket(s, M) + M
      BY <1>3, BucketHolds
    <3>2. sample[s].sent <= s + Sleep
      BY <1>4 DEF IInv, Prompt
    <3> QED BY <1>0, <1>2, <1>3, <1>4, <3>1, <3>2, Sizes
  <2>2. \A t \in Slots : Bucket(t, M) \notin {Bucket(s, M)} =>
                           sample'[t] = sample[t] /\ (t \in raw' <=> t \in raw)
    BY <1>1, <1>5
  <2>3. \A t \in Slots : sample'[t] # NoSample /\ t \notin raw' => Row(t) /\ t \notin raw
    BY <1>1, <1>7
  <2>4. dirty' = dirty \cup {<<M, m>> : m \in {Bucket(s, M)}}
    BY <1>1
  <2> QED BY <1>1, <1>3, <2>1, <2>2, <2>3, <2>4 DEF Noted
<1> QED BY <1>8, <1>9, <1>10, <1>11

\* insertGap: slots that nothing else used, the last of them recent.
LEMMA InsertGapNoted ==
  ASSUME IInv, NEW g \in Gaps, InsertGap(g)
  PROVE  Types' /\ Prompt' /\ Apart' /\ Noted(Span(g))
<1>0. /\ now \in Nat /\ now <= MaxTime /\ skew \in Nat /\ skew <= Sleep
      /\ gapLog \subseteq Gaps /\ gaps \subseteq gapLog /\ IsFiniteSet(gapLog)
      /\ \A k \in gapLog : Last(k) <= now
  BY TypesFacts DEF IInv
<1>1. /\ ~ sweeping /\ Missed(g) \cap Used = {}
      /\ Last(g) + skew <= now /\ now <= Last(g) + skew + MaxLag
      /\ gapLog' = gapLog \cup {g} /\ gaps' = gaps \cup {g}
      /\ dirty' = dirty \cup {<<M, m>> : m \in Span(g)}
      /\ UNCHANGED <<now, skew, sample, raw, minute, hour, mode, todo, stage>>
  BY DEF InsertGap, Recent, sweep
<1>2. /\ g.first \in Nat /\ g.step \in Nat \ {0} /\ Last(g) \in Nat /\ g.first <= Last(g)
      /\ Last(g) <= g.first + MaxMissed * g.step
  BY GapFacts
<1>3. Span(g) \subseteq Minutes
  BY DEF Span
<1>4. Last(g) <= now
  BY <1>0, <1>1, <1>2
<1>5. Types'
  <2>1. dirty' \subseteq ({M} \X Minutes) \cup ({H} \X Hours)
    BY <1>1, <1>3 DEF IInv, Types, TypeOK
  <2>2. IsFiniteSet(gapLog')
    BY <1>0, <1>1, FS_AddElement
  <2>3. GapsAreSlots'
    BY <1>0, <1>1, <1>4, <2>2 DEF GapsAreSlots
  <2>4. gapLog' \subseteq Gaps /\ gaps' \subseteq gapLog'
    BY <1>0, <1>1
  <2>5. todo' \subseteq dirty'
    BY <1>1 DEF IInv, Types, TypeOK
  <2> QED BY <1>1, <2>1, <2>3, <2>4, <2>5 DEF IInv, Types, TypeOK
<1>6. Prompt'
  BY <1>1 DEF IInv, Prompt, Row
<1>7. Apart'
  <2>1. \A k \in gapLog : Missed(g) \cap Missed(k) = {}
    BY <1>1 DEF Used, MissedBy
  <2> QED BY <1>1, <2>1 DEF IInv, Apart
<1>8. Noted(Span(g))
  <2>1. \A m \in Span(g) : now < m + M + RawFloor
    <3>1. SUFFICES ASSUME NEW m \in Span(g) PROVE now < m + M + RawFloor
      OBVIOUS
    <3>2. m \in Int /\ Bucket(g.first, M) <= m /\ Bucket(g.first, M) \in Int
          /\ g.first < Bucket(g.first, M) + M
      <4>1. g.first \in Int /\ M \in {M, H}
        BY <1>2, <1>3
      <4>2. m \in Minutes /\ Bucket(g.first, M) <= m
        BY DEF Span
      <4> QED BY <4>1, <4>2, MinuteFacts, BucketHolds
    <3>3. PICK missed \in Nat : missed = MaxMissed * g.step
      BY <1>2, Sizes
    <3>4. MaxLag + missed + Sleep <= RawFloor
      BY <3>3, LagAssumption DEF Gaps
    <3> QED BY <1>0, <1>1, <1>2, <3>2, <3>3, <3>4, Sizes
  <2>2. gapLog' \ gaps' \subseteq gapLog \ gaps
    BY <1>1
  <2>3. \A k \in gapLog' \ gapLog : k \in Gaps /\ Span(k) \subseteq Span(g)
    BY <1>1
  <2>4. \A t \in Slots : sample'[t] # NoSample /\ t \notin raw' => Row(t) /\ t \notin raw
    BY <1>1 DEF Row
  <2> QED BY <1>1, <1>3, <2>1, <2>2, <2>3, <2>4 DEF Noted
<1> QED BY <1>5, <1>6, <1>7, <1>8
-----------------------------------------------------------------------------
(* Time, and the course of a sweep.                                        *)

\* What is true of the past stays true.
LEMMA TimePasses ==
  ASSUME IInv, Tick \/ Suspend
  PROVE  IInv' /\ (HInv => HInv')
<1>0. /\ now \in Nat /\ todo = {} /\ raw \subseteq Slots
      /\ \A s \in Slots : Row(s) => /\ sample[s].outcome \in Outcomes
                                    /\ sample[s].sent \in Nat /\ s <= sample[s].sent
                                    /\ sample[s].sent <= now
      /\ \A s \in raw : Row(s)
      /\ gapLog \subseteq Gaps /\ \A g \in gapLog : Last(g) <= now
      /\ DOMAIN minute \subseteq Minutes /\ DOMAIN hour \subseteq Hours
  BY TypesFacts DEF IInv, Tick, Suspend
<1>1. /\ now' \in Slots /\ now' \in Nat /\ now <= now' /\ skew' \in {0, Sleep}
      /\ UNCHANGED <<sample, gapLog, raw, gaps, minute, hour, dirty, mode, todo, stage>>
  BY <1>0, Sizes DEF Tick, Suspend, history, tables, sweep, Slots, IInv, Types, TypeOK
<1>2. Types'
  <2>1. \A s \in Slots : \/ sample'[s] = NoSample
                         \/ sample'[s].outcome \in Outcomes /\ sample'[s].sent \in s .. now'
    <3>1. \A s \in Slots : Row(s) => sample[s].sent \in s .. now'
      BY <1>0, <1>1, SlotFacts
    <3> QED BY <1>0, <1>1, <3>1 DEF Row
  <2>2. GapsAreSlots'
    BY <1>0, <1>1, GapFacts DEF GapsAreSlots, IInv, Types
  <2> QED BY <1>1, <2>1, <2>2 DEF IInv, Types, TypeOK
<1>3. Prompt' /\ Apart'
  BY <1>1 DEF IInv, Prompt, Apart, Row
<1>4. GoneRows'
  <2>1. \A s \in Slots : Bucket(s, M) + M + RawFloor \in Int
    BY SlotFacts, MinuteFacts, Sizes
  <2>2. SUFFICES ASSUME NEW s \in Slots, Row(s), s \notin raw
                 PROVE  Clean(M, Bucket(s, M)) /\ Bucket(s, M) + M + RawFloor <= now'
    BY <1>1 DEF GoneRows, Row, Clean
  <2>3. Clean(M, Bucket(s, M)) /\ Bucket(s, M) + M + RawFloor <= now
    BY <2>2 DEF IInv, GoneRows
  <2> QED BY <1>0, <1>1, <2>1, <2>3
<1>5. GoneGaps'
  <2>1. SUFFICES ASSUME NEW g \in gapLog \ gaps
                 PROVE  Bucket(Last(g), M) + M + RawFloor <= now' /\ \A m \in Span(g) : Clean(M, m)
    BY <1>1 DEF GoneGaps, Clean
  <2>2. Bucket(Last(g), M) + M + RawFloor <= now /\ \A m \in Span(g) : Clean(M, m)
    BY DEF IInv, GoneGaps
  <2>3. Last(g) \in Int /\ Bucket(Last(g), M) \in Int
    BY <1>0, GapFacts, BucketHolds
  <2> QED BY <1>0, <1>1, <2>2, <2>3, Sizes
<1>6. Kept'
  <2>1. SUFFICES ASSUME NEW m \in Minutes, Seen(m), Clean(M, m), m \notin DOMAIN minute
                 PROVE  Bucket(m, H) + H + Month <= now'
    BY <1>1 DEF Kept, Seen, Row, Clean
  <2>2. Bucket(m, H) + H + Month <= now
    BY <2>1 DEF IInv, Kept
  <2> QED BY <1>0, <1>1, <2>2, MinuteFacts, Sizes
<1>7. Answered'
  <2>1. ASSUME NEW m \in DOMAIN minute, Clean(M, m) PROVE Awaited(m)' = {}
    <3>1. Awaited(m) = {}
      BY <2>1 DEF IInv, Answered
    <3>2. \A s \in raw : s \in Slots /\ sample[s].sent + Timeout \in Int
      BY <1>0, Sizes
    <3>3. ASSUME NEW s \in raw, sample[s].sent + Timeout > now'
          PROVE  sample[s].sent + Timeout > now
      BY <1>0, <1>1, <3>2, <3>3
    <3> QED BY <1>1, <3>1, <3>3 DEF Awaited
  <2> QED BY <1>0, <1>1, <2>1 DEF Answered, Clean
<1>8. MinuteIsExact'
  <2>1. \A from, to : Truth(from, to)' = Truth(from, to)
    BY <1>1 DEF Truth, Tally
  <2> QED BY <1>1, <2>1 DEF IInv, MinuteIsExact, Clean
<1>9. HInv => HInv'
  <2>1. \A from, to : Truth(from, to)' = Truth(from, to)
    BY <1>1 DEF Truth, Tally
  <2>2. Settled => Settled'
    BY <1>1 DEF Settled, Seen, Row, Clean
  <2>3. HourIsExact => HourIsExact'
    BY <1>1, <2>1 DEF HourIsExact, Clean
  <2> QED BY <2>2, <2>3 DEF HInv
<1> QED BY <1>2, <1>3, <1>4, <1>5, <1>6, <1>7, <1>8, <1>9 DEF IInv

\* A step that only moves the maintenance on.
LEMMA SweepMoves ==
  ASSUME IInv, UNCHANGED <<now, skew, history, tables>>,
         mode' \in {"idle", "maintenance", "recovery"}, stage' \in 0 .. 8, todo' \subseteq dirty,
         todo' # {} => mode' = "maintenance" /\ stage' = 0,
         mode' = "idle" => stage' = 0,
         \A m \in Minutes : <<M, m>> \in todo' => MinuteEligible(m)
  PROVE  IInv' /\ (HInv => HInv')
<1>1. UNCHANGED <<now, skew, sample, gapLog, raw, gaps, minute, hour, dirty>>
  BY DEF history, tables
<1>2. Types'
  BY <1>1 DEF IInv, Types, TypeOK, GapsAreSlots
<1>3. Prompt' /\ Apart' /\ GoneRows' /\ GoneGaps'
  BY <1>1 DEF IInv, Prompt, Apart, GoneRows, GoneGaps, Row, Clean
<1>4. Kept' /\ (Settled => Settled')
  BY <1>1 DEF IInv, Kept, Settled, Seen, Row, Clean
<1>5. Answered'
  BY <1>1 DEF IInv, Answered, Awaited, MinuteEligible, Clean
<1>6. \A from, to : Truth(from, to)' = Truth(from, to)
  BY <1>1 DEF Truth, Tally
<1>7. MinuteIsExact' /\ (HourIsExact => HourIsExact')
  BY <1>1, <1>6 DEF IInv, MinuteIsExact, HourIsExact, Clean
<1> QED BY <1>2, <1>3, <1>4, <1>5, <1>7 DEF IInv, HInv

\* The steps that do.
LEMMA SweepSteps ==
  ASSUME IInv, StartSweep \/ RecoverFull \/ EndSweep \/ Crash \/ UNCHANGED vars
  PROVE  IInv' /\ (HInv => HInv')
<1>0. /\ Types /\ todo \subseteq dirty /\ (~ sweeping => todo = {})
      /\ mode \in {"idle", "maintenance", "recovery"} /\ stage \in 0 .. 8
      /\ todo # {} => mode = "maintenance" /\ stage = 0
      /\ mode = "idle" => stage = 0
      /\ \A m \in Minutes : <<M, m>> \in todo => MinuteEligible(m)
  BY TypesFacts DEF IInv, Types, TypeOK, Answered
<1>1. CASE StartSweep
  <2>1. /\ todo' = Due /\ mode' = "maintenance" /\ stage' = stage /\ todo = {}
        /\ UNCHANGED <<now, skew, history, tables>>
    BY <1>0, <1>1 DEF StartSweep
  <2>2. stage = 0
    BY <1>1, <1>0 DEF StartSweep, sweeping
  <2>3. Due \subseteq dirty
    BY DEF Due, Oldest
  <2>4. \A m \in Minutes : <<M, m>> \in Due => MinuteEligible(m)
    BY Sizes DEF Due, Oldest
  <2> QED BY <1>0, <2>1, <2>2, <2>3, <2>4, SweepMoves
<1>2. CASE RecoverFull
  <2>1. /\ mode' = "recovery" /\ stage' = 4 /\ todo' = {}
        /\ UNCHANGED <<now, skew, history, tables>>
    BY <1>0, <1>2 DEF RecoverFull
  <2> QED BY <1>0, <2>1, SweepMoves
<1>3. CASE EndSweep \/ Crash
  <2>1. EndSweep => todo = {}
    BY DEF EndSweep, WorkLeft
  <2>2. /\ mode' = "idle" /\ stage' = 0 /\ todo' = {}
        /\ UNCHANGED <<now, skew, history, tables>>
    BY <1>3, <2>1 DEF EndSweep, Crash
  <2> QED BY <1>0, <2>2, SweepMoves
<1>4. CASE UNCHANGED vars
  <2>1. UNCHANGED <<now, skew, history, tables>> /\ mode' = mode /\ stage' = stage /\ todo' = todo
    BY <1>4 DEF vars, sweep
  <2> QED BY <1>0, <2>1, SweepMoves
<1> QED BY <1>1, <1>2, <1>3, <1>4
-----------------------------------------------------------------------------
(* The recomputations.                                                     *)

\* missedIn finds every slot missed in a range that no deleted gap reaches.
LEMMA GapsAreThere ==
  ASSUME IInv, NEW from \in Int, NEW to \in Int, from < to,
         \A g \in gapLog \ gaps : \A s \in Missed(g) : ~ (from <= s /\ s < to)
  PROVE  /\ MissedIn(from, to) = Cardinality(MissedBy(gapLog) \cap (from .. to - 1))
         /\ MissedIn(from, to) \in Nat
<1>1. gapLog \subseteq Gaps /\ gaps \subseteq gapLog /\ IsFiniteSet(gapLog)
  BY TypesFacts DEF IInv
<1>2. gaps \subseteq Gaps /\ IsFiniteSet(gaps)
  BY <1>1, FS_Subset
<1>3. \A g, k \in gaps : g # k => Missed(g) \cap Missed(k) = {}
  BY <1>1 DEF IInv, Apart
<1>4. \A g \in gapLog : \A s \in Missed(g) : s \in from .. to - 1 => g \in gaps
  <2>1. SUFFICES ASSUME NEW g \in gapLog, NEW s \in Missed(g), s \in from .. to - 1
                 PROVE  g \in gaps
    OBVIOUS
  <2>2. s \in Int /\ from <= s /\ s < to
    BY <2>1
  <2> QED BY <2>2
<1>5. \A s : s \in MissedBy(gaps) \cap (from .. to - 1)
             <=> s \in MissedBy(gapLog) \cap (from .. to - 1)
  BY <1>1, <1>4 DEF MissedBy
<1>6. MissedBy(gaps) \cap (from .. to - 1) = MissedBy(gapLog) \cap (from .. to - 1)
  BY <1>5
<1>7. IsFiniteSet(MissedBy(gaps) \cap (from .. to - 1))
      /\ MissedIn(from, to) = Cardinality(MissedBy(gaps) \cap (from .. to - 1))
  BY <1>2, <1>3, GapsCounted
<1> QED BY <1>6, <1>7, FS_CardinalityType

\* The minute of a slot that a gap missed is one the gap spans.
LEMMA MissedIsSpanned ==
  ASSUME IInv, NEW g \in gapLog, NEW s \in Missed(g)
  PROVE  /\ s \in Slots /\ s \in Int /\ Bucket(s, M) \in Span(g)
         /\ s < Bucket(Last(g), M) + M
<1>1. g \in Gaps /\ Last(g) <= now /\ now \in Nat /\ now <= MaxTime
  BY TypesFacts DEF IInv
<1>2. s \in Nat /\ g.first <= s /\ s <= Last(g) /\ g.first \in Nat /\ Last(g) \in Nat
  BY <1>1, GapFacts
<1>3. s \in Slots
  BY <1>1, <1>2, Sizes DEF Slots
<1>4. Last(g) < Bucket(Last(g), M) + M /\ Bucket(Last(g), M) \in Int
  BY <1>2, BucketHolds
<1> QED BY <1>2, <1>3, <1>4, SlotFacts, BucketsOrdered, Sizes DEF Span

\* The raw rows of a dirty minute are all that was observed in it.
LEMMA AggregateIsTruth ==
  ASSUME IInv, NEW m \in Minutes, ~ Clean(M, m)
  PROVE  AggregateRawMinute(m) = Truth(m, m + M)
<1>1. /\ m \in Int /\ m + M \in Int /\ m < m + M
      /\ \A s \in Int : Bucket(s, M) = m <=> m <= s /\ s < m + M
  BY MinuteFacts, Sizes
<1>2. raw \subseteq Slots /\ (\A s \in raw : Row(s)) /\ \A s \in Slots : s \in Int
  BY TypesFacts, SlotFacts DEF IInv
<1>3. ASSUME NEW s \in Slots, Row(s), m <= s, s < m + M PROVE s \in raw
  BY <1>1, <1>2, <1>3 DEF IInv, GoneRows
<1>4. {s \in raw : Bucket(s, M) = m}
        = {s \in Slots : m <= s /\ s < m + M /\ sample[s] # NoSample}
  BY <1>1, <1>2, <1>3 DEF Row
<1>5. ASSUME NEW g \in gapLog \ gaps, NEW s \in Missed(g) PROVE ~ (m <= s /\ s < m + M)
  <2>1. s \in Int /\ Bucket(s, M) \in Span(g)
    BY MissedIsSpanned
  <2>2. Clean(M, Bucket(s, M))
    BY <2>1 DEF IInv, GoneGaps
  <2> QED BY <1>1, <2>1, <2>2
<1>6. MissedIn(m, m + M) = Cardinality(MissedBy(gapLog) \cap (m .. (m + M) - 1))
  BY <1>1, <1>5, GapsAreThere
<1> QED BY <1>4, <1>6 DEF AggregateRawMinute, Truth

\* recomputePingMinute.
LEMMA RecomputeMinuteKeeps ==
  ASSUME IInv, NEW m \in Minutes, RecomputePingMinute(m)
  PROVE  IInv' /\ (HInv => HInv')
<1>0. /\ DOMAIN minute \subseteq Minutes /\ todo \subseteq dirty /\ M # H
  BY TypesFacts, Sizes DEF IInv
<1>1. /\ <<M, m>> \in todo /\ ~ Clean(M, m)
      /\ minute' = With(minute, m, AggregateRawMinute(m))
      /\ dirty' = (dirty \ {<<M, m>>}) \cup {<<H, Bucket(m, H)>>}
      /\ todo' = todo \ {<<M, m>>}
      /\ UNCHANGED <<now, skew, sample, gapLog, raw, gaps, hour, mode, stage>>
  BY <1>0 DEF RecomputePingMinute, Foremost, history, Clean
<1>2. /\ DOMAIN minute' = DOMAIN minute \cup {m} /\ minute'[m] = Truth(m, m + M)
      /\ \A n \in DOMAIN minute : n # m => minute'[n] = minute[n]
  BY <1>1, AggregateIsTruth DEF With
<1>3. \A n \in Minutes : Clean(M, n)' <=> Clean(M, n) \/ n = m
  BY <1>0, <1>1 DEF Clean
<1>4. \A h \in Hours : Clean(H, h)' <=> Clean(H, h) /\ h # Bucket(m, H)
  BY <1>0, <1>1 DEF Clean
<1>5. \A from, to : Truth(from, to)' = Truth(from, to)
  BY <1>1 DEF Truth, Tally
<1>6. Types'
  <2>1. Truth(m, m + M) \in [Fields -> Nat]
    <3>1. m \in Int /\ m + M \in Int
      BY MinuteFacts, Sizes
    <3> QED BY <3>1, TruthCounts DEF IInv, Types, Counts
  <2>2. \A n \in DOMAIN minute' : minute'[n] \in [Fields -> Nat]
    BY <1>2, <2>1 DEF IInv, Types, TypeOK
  <2>3. DOMAIN minute' \subseteq Minutes
    BY <1>0, <1>2
  <2>4. dirty' \subseteq ({M} \X Minutes) \cup ({H} \X Hours)
    BY <1>1, MinuteFacts DEF IInv, Types, TypeOK
  <2>5. todo' \subseteq dirty' /\ todo' \subseteq todo
    BY <1>0, <1>1
  <2> QED BY <1>1, <2>2, <2>3, <2>4, <2>5 DEF IInv, Types, TypeOK, GapsAreSlots
<1>7. Prompt' /\ Apart'
  BY <1>1 DEF IInv, Prompt, Apart, Row
<1>8. GoneRows'
  BY <1>1, <1>3, SlotFacts DEF IInv, GoneRows, Row
<1>9. GoneGaps'
  BY <1>1, <1>3 DEF IInv, GoneGaps, Span
<1>10. Kept'
  BY <1>1, <1>2, <1>3 DEF IInv, Kept, Seen, Row
<1>11. Answered'
  <2>1. \A n : Awaited(n)' = Awaited(n) /\ MinuteEligible(n)' = MinuteEligible(n)
    BY <1>1 DEF Awaited, MinuteEligible
  <2>2. Awaited(m) = {}
    BY <1>1 DEF IInv, Answered, MinuteEligible
  <2> QED BY <1>0, <1>1, <1>2, <1>3, <2>1, <2>2 DEF IInv, Answered
<1>12. MinuteIsExact'
  BY <1>0, <1>2, <1>3, <1>5 DEF IInv, MinuteIsExact
<1>13. ASSUME HInv PROVE HInv'
  <2>1. ASSUME NEW n \in Minutes, Seen(n)', Clean(M, n)', n \notin DOMAIN minute'
        PROVE  /\ Clean(H, Bucket(n, H))'
               /\ \A l \in Minutes : Bucket(l, H) = Bucket(n, H) => Clean(M, l)'
    <3>1. Seen(n) /\ Clean(M, n) /\ n \notin DOMAIN minute
      BY <1>1, <1>2, <1>3, <2>1 DEF Seen, Row
    <3>2. /\ Clean(H, Bucket(n, H))
          /\ \A l \in Minutes : Bucket(l, H) = Bucket(n, H) => Clean(M, l)
      BY <1>13, <3>1 DEF HInv, Settled
    <3>3. Bucket(m, H) # Bucket(n, H)
      BY <1>1, <3>2
    <3> QED BY <1>3, <1>4, <3>2, <3>3, MinuteFacts
  <2>2. Settled'
    BY <2>1 DEF Settled
  <2>3. ASSUME NEW h \in DOMAIN hour', Clean(H, h)',
               \A n \in Minutes : Bucket(n, H) = h => Clean(M, n)'
        PROVE  hour'[h] = Truth(h, h + H)'
    <3>1. h \in DOMAIN hour /\ h \in Hours
      BY <1>1, TypesFacts DEF IInv
    <3>2. Clean(H, h) /\ h # Bucket(m, H)
      BY <1>4, <2>3, <3>1
    <3>3. \A n \in Minutes : Bucket(n, H) = h => Clean(M, n)
      BY <1>3, <2>3, <3>2
    <3>4. hour[h] = Truth(h, h + H)
      BY <1>13, <3>1, <3>2, <3>3 DEF HInv, HourIsExact
    <3> QED BY <1>1, <1>5, <3>4
  <2>4. HourIsExact'
    BY <2>3 DEF HourIsExact
  <2> QED BY <2>2, <2>4 DEF HInv
<1> QED BY <1>6, <1>7, <1>8, <1>9, <1>10, <1>11, <1>12, <1>13 DEF IInv

\* recomputePingHour.
LEMMA RecomputeHourKeeps ==
  ASSUME IInv, NEW h \in Hours, RecomputePingHour(h)
  PROVE  IInv' /\ (HInv => HInv')
<1>0. /\ DOMAIN minute \subseteq Minutes /\ DOMAIN hour \subseteq Hours
      /\ todo \subseteq dirty /\ M # H
  BY TypesFacts, Sizes DEF IInv
<1>1. /\ <<H, h>> \in todo /\ <<H, h>> \in dirty /\ todo' = todo \ {<<H, h>>}
      /\ UNCHANGED <<now, skew, sample, gapLog, raw, gaps, minute, mode, stage>>
  BY <1>0 DEF RecomputePingHour, Foremost, history
<1>2. \/ /\ HourEligible(h)
         /\ hour' = With(hour, h, Total(MinutesOf(h), minute))
         /\ dirty' = dirty \ {<<H, h>>}
      \/ hour' = hour /\ dirty' = dirty
  BY DEF RecomputePingHour
<1>3. \A n \in Minutes : Clean(M, n)' <=> Clean(M, n)
  BY <1>0, <1>2 DEF Clean
<1>4. \A k \in Hours : Clean(H, k) => Clean(H, k)'
  BY <1>2 DEF Clean
<1>5. \A from, to : Truth(from, to)' = Truth(from, to)
  BY <1>1 DEF Truth, Tally
<1>6. MinutesOf(h) \subseteq Minutes /\ \A m \in MinutesOf(h) : m \in DOMAIN minute /\ Bucket(m, H) = h
  <2>1. \A m \in MinutesOf(h) : m \in DOMAIN minute /\ m \in Minutes /\ h <= m /\ m < h + H
    BY <1>0 DEF MinutesOf
  <2> QED BY <2>1, MinuteFacts, HourFacts
<1>7. Types'
  <2>1. Total(MinutesOf(h), minute) \in [Fields -> Nat]
    <3>1. IsFiniteSet(MinutesOf(h))
      BY <1>6, FinitelyMany, FS_Subset
    <3>2. \A m \in MinutesOf(h) : minute[m] \in Counts
      BY <1>6 DEF IInv, Types, TypeOK, Counts
    <3> QED BY <3>1, <3>2, TotalAdds DEF Counts
  <2>2. /\ DOMAIN hour' \subseteq Hours /\ \A k \in DOMAIN hour' : hour'[k] \in [Fields -> Nat]
    BY <1>0, <1>2, <2>1 DEF IInv, Types, TypeOK, With
  <2>3. dirty' \subseteq dirty /\ todo' \subseteq dirty' /\ todo' \subseteq todo
    BY <1>0, <1>1, <1>2
  <2> QED BY <1>1, <2>2, <2>3 DEF IInv, Types, TypeOK, GapsAreSlots
<1>8. Prompt' /\ Apart'
  BY <1>1 DEF IInv, Prompt, Apart, Row
<1>9. GoneRows'
  BY <1>1, <1>3, SlotFacts DEF IInv, GoneRows, Row
<1>10. GoneGaps'
  BY <1>1, <1>3 DEF IInv, GoneGaps, Span
<1>11. Kept'
  BY <1>1, <1>3 DEF IInv, Kept, Seen, Row
<1>12. Answered'
  <2>1. \A n : Awaited(n)' = Awaited(n) /\ MinuteEligible(n)' = MinuteEligible(n)
    BY <1>1 DEF Awaited, MinuteEligible
  <2> QED BY <1>0, <1>1, <1>3, <2>1 DEF IInv, Answered
<1>13. MinuteIsExact'
  BY <1>0, <1>1, <1>3, <1>5 DEF IInv, MinuteIsExact
<1>14. ASSUME HInv PROVE HInv'
  <2>1. Settled'
    BY <1>1, <1>3, <1>4, <1>14, MinuteFacts DEF HInv, Settled, Seen, Row
  <2>2. ASSUME NEW k \in DOMAIN hour', Clean(H, k)',
               \A n \in Minutes : Bucket(n, H) = k => Clean(M, n)'
        PROVE  hour'[k] = Truth(k, k + H)
    <3>1. CASE k = h
      <4>1. HourEligible(h) /\ hour' = With(hour, h, Total(MinutesOf(h), minute))
        BY <1>1, <1>2, <2>2, <3>1 DEF Clean
      <4>2. hour'[h] = Total(MinutesOf(h), minute)
        BY <4>1 DEF With
      <4>3. \A m \in Minutes : Bucket(m, H) = h => Clean(M, m)
        BY <4>1 DEF HourEligible, Clean
      <4>4. \A m \in MinutesOf(h) : Bucket(m, H) = h /\ minute[m] = Truth(m, m + M)
        BY <1>6, <4>3 DEF IInv, MinuteIsExact
      <4>5. ASSUME NEW m \in Minutes, Bucket(m, H) = h, Seen(m) PROVE m \in MinutesOf(h)
        <5>1. m \in DOMAIN minute
          BY <1>1, <1>14, <4>3, <4>5 DEF HInv, Settled, Clean
        <5>2. h <= m /\ m < h + H
          BY <4>5, MinuteFacts, HourFacts
        <5> QED BY <5>1, <5>2 DEF MinutesOf
      <4>6. GapsAreSlots /\ now \in Slots
        BY DEF IInv, Types, TypeOK
      <4> QED BY <1>6, <3>1, <4>2, <4>4, <4>5, <4>6, HourAddsUp
    <3>2. CASE k # h
      <4>1. k \in DOMAIN hour /\ hour'[k] = hour[k]
        BY <1>2, <3>2 DEF With
      <4>2. Clean(H, k) /\ \A n \in Minutes : Bucket(n, H) = k => Clean(M, n)
        BY <1>2, <1>3, <2>2, <3>2 DEF Clean
      <4> QED BY <1>14, <4>1, <4>2 DEF HInv, HourIsExact
    <3> QED BY <3>1, <3>2
  <2>3. HourIsExact'
    BY <1>5, <2>2 DEF HourIsExact
  <2> QED BY <2>1, <2>3 DEF HInv
<1> QED BY <1>7, <1>8, <1>9, <1>10, <1>11, <1>12, <1>13, <1>14 DEF IInv
-----------------------------------------------------------------------------
(* The deletions.                                                          *)

\* What lies before a cutoff has been over for as long as the cutoff says.
LEMMA BeforeCutoff ==
  ASSUME NEW t \in Int, NEW width \in {M, H}, NEW kept \in Int, NEW least \in Int, least <= kept,
         now \in Int, t < Ago(kept, width)
  PROVE  Bucket(t, width) + width + least <= now
<1>1. width \in Nat /\ width > 0 /\ now - kept \in Int
  BY Sizes
<1>2. Base(t, width) + width <= Base(now - kept, width)
  BY <1>1, FloorsAreApart DEF Ago, Base, Bucket
<1>3. Bucket(t, width) \in Int /\ Bucket(now - kept, width) \in Int
      /\ Bucket(now - kept, width) <= now - kept
  BY <1>1, BucketHolds
<1> QED BY <1>1, <1>2, <1>3 DEF Base, Bucket

\* What a deletion takes.
LEMMA DeleteFacts ==
  ASSUME IInv, NEW i \in 1 .. 8, Delete(i)
  PROVE  /\ sweeping /\ todo = {} /\ UNCHANGED <<now, skew, sample, gapLog, dirty, todo>>
         /\ raw' \subseteq raw
         /\ \A s \in raw \ raw' : Clean(M, Bucket(s, M)) /\ Bucket(s, M) + M + RawFloor <= now
         /\ gaps' \subseteq gaps
         /\ \A g \in gaps \ gaps' : /\ Bucket(Last(g), M) + M + RawFloor <= now
                                    /\ \A m \in Span(g) : Clean(M, m)
         /\ DOMAIN minute' \subseteq DOMAIN minute
         /\ \A m \in DOMAIN minute' : minute'[m] = minute[m]
         /\ \A m \in DOMAIN minute \ DOMAIN minute' :
              Clean(H, Bucket(m, H)) /\ Bucket(m, H) + H + Month <= now
         /\ DOMAIN hour' \subseteq DOMAIN hour
         /\ \A h \in DOMAIN hour' : hour'[h] = hour[h]
         /\ mode' \in {mode, "idle"} /\ stage' \in 0 .. 8 /\ (mode' = "idle" => stage' = 0)
<1>0. /\ now \in Int /\ raw \subseteq Slots /\ gaps \subseteq Gaps /\ DOMAIN minute \subseteq Minutes
      /\ RawFloor \in Int /\ RawRetention \in Int /\ Month \in Int /\ MinuteRetention \in Int
      /\ RawFloor <= RawRetention /\ Month <= MinuteRetention
  BY TypesFacts, Sizes DEF IInv
<1>1. /\ sweeping /\ todo = {} /\ UNCHANGED <<now, skew, sample, gapLog, dirty, todo>>
      /\ raw' = IF i \in {1, 5} THEN raw \ Victims(i) ELSE raw
      /\ gaps' = IF i \in {2, 6} THEN gaps \ Victims(i) ELSE gaps
      /\ minute' = IF i \in {3, 7} THEN Without(minute, Victims(i)) ELSE minute
      /\ hour' = IF i \in {4, 8} THEN Without(hour, Victims(i)) ELSE hour
      /\ \/ mode' = "idle" /\ stage' = 0
         \/ stage' = i /\ mode' = mode
  BY DEF Delete, history
<1>2. stage' \in 0 .. 8 /\ mode' \in {mode, "idle"} /\ (mode' = "idle" => stage' = 0)
  BY <1>1 DEF sweeping
<1>3. ASSUME NEW s \in raw \ raw'
      PROVE  Clean(M, Bucket(s, M)) /\ Bucket(s, M) + M + RawFloor <= now
  <2>1. i \in {1, 5} /\ s \in RawVictims(i)
    BY <1>1, <1>3 DEF Victims
  <2>2. s < RawCutoff(i) /\ Clean(M, Bucket(s, M))
    BY <2>1 DEF RawVictims, Oldest, Clean, MinuteOf
  <2>3. PICK kept \in {RawFloor, RawRetention} : RawCutoff(i) = Ago(kept, M)
    BY DEF RawCutoff
  <2>4. s \in Int /\ kept \in Int /\ RawFloor <= kept
    BY <1>0, SlotFacts
  <2> QED BY <1>0, <2>2, <2>3, <2>4, BeforeCutoff
<1>4. ASSUME NEW g \in gaps \ gaps'
      PROVE  Bucket(Last(g), M) + M + RawFloor <= now /\ \A m \in Span(g) : Clean(M, m)
  <2>1. i \in {2, 6} /\ g \in GapVictims(i)
    BY <1>1, <1>4 DEF Victims
  <2>2. Last(g) < RawCutoff(i) /\ \A m \in Span(g) : Clean(M, m)
    BY <2>1 DEF GapVictims, Clean
  <2>3. PICK kept \in {RawFloor, RawRetention} : RawCutoff(i) = Ago(kept, M)
    BY DEF RawCutoff
  <2>4. Last(g) \in Int /\ kept \in Int /\ RawFloor <= kept
    BY <1>0, GapFacts
  <2> QED BY <1>0, <2>2, <2>3, <2>4, BeforeCutoff
<1>5. /\ DOMAIN minute' \subseteq DOMAIN minute
      /\ \A m \in DOMAIN minute' : minute'[m] = minute[m]
      /\ \A m \in DOMAIN minute \ DOMAIN minute' : i \in {3, 7} /\ m \in MinuteVictims(i)
  <2>1. CASE i \in {3, 7}
    <3>1. Victims(i) = MinuteVictims(i)
      BY <2>1 DEF Victims
    <3> QED BY <1>1, <2>1, <3>1 DEF Without
  <2>2. CASE i \notin {3, 7}
    BY <1>1, <2>2
  <2> QED BY <2>1, <2>2
<1>6. ASSUME NEW m \in DOMAIN minute \ DOMAIN minute'
      PROVE  Clean(H, Bucket(m, H)) /\ Bucket(m, H) + H + Month <= now
  <2>1. m \in MinuteVictims(i)
    BY <1>5
  <2>2. m < MinuteCutoff(i) /\ Clean(H, Bucket(m, H))
    BY <2>1 DEF MinuteVictims, Oldest, Clean
  <2>3. PICK kept \in {Month, MinuteRetention} : MinuteCutoff(i) = Ago(kept, H)
    BY DEF MinuteCutoff
  <2>4. m \in Int /\ kept \in Int /\ Month <= kept
    BY <1>0, MinuteFacts
  <2> QED BY <1>0, <2>2, <2>3, <2>4, BeforeCutoff
<1>7. DOMAIN hour' \subseteq DOMAIN hour /\ \A h \in DOMAIN hour' : hour'[h] = hour[h]
  <2>1. CASE i \in {4, 8}
    BY <1>1, <2>1 DEF Without
  <2>2. CASE i \notin {4, 8}
    BY <1>1, <2>2
  <2> QED BY <2>1, <2>2
<1>8. raw' \subseteq raw /\ gaps' \subseteq gaps
  BY <1>1
<1> QED BY <1>1, <1>2, <1>3, <1>4, <1>5, <1>6, <1>7, <1>8

\* No minute of an hour whose minutes may be deleted waits to be summed again,
\* when the deletions begin.
RepairedInTime ==
  sweeping /\ todo = {} => \A m \in Minutes : ~ Clean(M, m) => now < Bucket(m, H) + H + Month

\* A deletion only takes what is stood for.
LEMMA DeleteKeeps ==
  ASSUME IInv, NEW i \in 1 .. 8, Delete(i)
  PROVE  IInv' /\ (HInv /\ RepairedInTime => HInv')
<1>0. /\ sweeping /\ todo = {} /\ UNCHANGED <<now, skew, sample, gapLog, dirty, todo>>
      /\ raw' \subseteq raw
      /\ \A s \in raw \ raw' : Clean(M, Bucket(s, M)) /\ Bucket(s, M) + M + RawFloor <= now
      /\ gaps' \subseteq gaps
      /\ \A g \in gaps \ gaps' : /\ Bucket(Last(g), M) + M + RawFloor <= now
                                 /\ \A m \in Span(g) : Clean(M, m)
      /\ DOMAIN minute' \subseteq DOMAIN minute
      /\ \A m \in DOMAIN minute' : minute'[m] = minute[m]
      /\ \A m \in DOMAIN minute \ DOMAIN minute' :
           Clean(H, Bucket(m, H)) /\ Bucket(m, H) + H + Month <= now
      /\ DOMAIN hour' \subseteq DOMAIN hour
      /\ \A h \in DOMAIN hour' : hour'[h] = hour[h]
      /\ mode' \in {mode, "idle"} /\ stage' \in 0 .. 8 /\ (mode' = "idle" => stage' = 0)
  BY DeleteFacts
<1>1. \A width, b : Clean(width, b)' <=> Clean(width, b)
  BY <1>0 DEF Clean
<1>2. \A from, to : Truth(from, to)' = Truth(from, to)
  BY <1>0 DEF Truth, Tally
<1>3. Types'
  BY <1>0 DEF IInv, Types, TypeOK, GapsAreSlots
<1>4. Prompt' /\ Apart'
  BY <1>0 DEF IInv, Prompt, Apart, Row
<1>5. GoneRows'
  BY <1>0, <1>1 DEF IInv, GoneRows, Row
<1>6. GoneGaps'
  BY <1>0, <1>1 DEF IInv, GoneGaps, Span
<1>7. \A m : Seen(m)' <=> Seen(m)
  BY <1>0 DEF Seen, Row
<1>8. Kept'
  BY <1>0, <1>1, <1>7 DEF IInv, Kept
<1>9. Answered'
  <2>1. \A m : Awaited(m)' \subseteq Awaited(m)
    BY <1>0 DEF Awaited
  <2>2. \A m \in DOMAIN minute' : Clean(M, m)' => Awaited(m)' = {}
    BY <1>0, <1>1, <2>1 DEF IInv, Answered
  <2> QED BY <1>0, <2>2 DEF Answered
<1>10. MinuteIsExact'
  BY <1>0, <1>1, <1>2 DEF IInv, MinuteIsExact
<1>11. ASSUME HInv, RepairedInTime PROVE HInv'
  <2>1. ASSUME NEW m \in Minutes, Seen(m), Clean(M, m), m \notin DOMAIN minute'
        PROVE  /\ Clean(H, Bucket(m, H))
               /\ \A n \in Minutes : Bucket(n, H) = Bucket(m, H) => Clean(M, n)
    <3>1. CASE m \notin DOMAIN minute
      BY <1>11, <2>1, <3>1 DEF HInv, Settled
    <3>2. CASE m \in DOMAIN minute
      <4>1. Clean(H, Bucket(m, H)) /\ Bucket(m, H) + H + Month <= now
        BY <1>0, <2>1, <3>2
      <4>2. ASSUME NEW n \in Minutes, Bucket(n, H) = Bucket(m, H), ~ Clean(M, n) PROVE FALSE
        <5>1. now < Bucket(m, H) + H + Month
          BY <1>0, <1>11, <4>2 DEF RepairedInTime
        <5>2. now \in Int /\ Bucket(m, H) \in Int
          BY MinuteFacts, TypesFacts DEF IInv
        <5> QED BY <4>1, <5>1, <5>2, Sizes
      <4> QED BY <4>1, <4>2
    <3> QED BY <3>1, <3>2
  <2>2. Settled'
    BY <1>1, <1>7, <2>1 DEF Settled
  <2>3. HourIsExact'
    BY <1>0, <1>1, <1>2, <1>11 DEF HInv, HourIsExact
  <2> QED BY <2>2, <2>3 DEF HInv
<1> QED BY <1>3, <1>4, <1>5, <1>6, <1>8, <1>9, <1>10, <1>11 DEF IInv
-----------------------------------------------------------------------------
(* The invariant.                                                          *)

\* It holds at first, of no rows at all.
LEMMA Initially == Init => IInv /\ HInv
<1> SUFFICES ASSUME Init PROVE IInv /\ HInv
  OBVIOUS
<1>1. \A s \in Slots : ~ Row(s)
  BY DEF Init, Row
<1>2. \A m \in Minutes : ~ Seen(m)
  BY <1>1 DEF Init, Seen
<1>3. Types
  <2>1. 0 \in Slots /\ NoSample \in Rows
    BY Sizes DEF Slots, NoSample, Rows
  <2>2. sample \in [Slots -> Rows] /\ \A s \in Slots : sample[s] = NoSample
    BY <2>1 DEF Init
  <2>3. GapsAreSlots
    BY FS_EmptySet DEF Init, GapsAreSlots
  <2>4. DOMAIN minute = {} /\ DOMAIN hour = {}
    BY DEF Init
  <2> QED BY <2>1, <2>2, <2>3, <2>4 DEF Init, Types, TypeOK
<1>4. Prompt /\ Apart /\ GoneRows /\ GoneGaps
  BY <1>1 DEF Init, Prompt, Apart, GoneRows, GoneGaps
<1>5. Kept /\ Settled
  BY <1>2 DEF Kept, Settled
<1>6. Answered /\ MinuteIsExact /\ HourIsExact
  BY DEF Init, Answered, MinuteIsExact, HourIsExact
<1> QED BY <1>3, <1>4, <1>5, <1>6 DEF IInv, HInv

\* Every step keeps it, and, if it deletes in time, what is known of the hours.
LEMMA StepKeeps ==
  ASSUME IInv, [Next]_vars
  PROVE  IInv' /\ (HInv /\ RepairedInTime => HInv')
<1>1. CASE \E s \in Slots : InsertProbe(s) \/ AttachReply(s)
  <2>1. PICK s \in Slots : InsertProbe(s) \/ AttachReply(s)
    BY <1>1
  <2>2. Types' /\ Prompt' /\ Apart' /\ Noted({Bucket(s, M)})
    BY <2>1, InsertProbeNoted, AttachReplyNoted
  <2>3. IInv'
    BY <2>2, NotedKeeps DEF IInv
  <2> QED BY <2>2, <2>3, NotedKeepsHours
<1>2. CASE \E g \in Gaps : InsertGap(g)
  <2>1. PICK g \in Gaps : InsertGap(g)
    BY <1>2
  <2>2. Types' /\ Prompt' /\ Apart' /\ Noted(Span(g))
    BY <2>1, InsertGapNoted
  <2>3. IInv'
    BY <2>2, NotedKeeps DEF IInv
  <2> QED BY <2>2, <2>3, NotedKeepsHours
<1>3. CASE Tick \/ Suspend
  BY <1>3, TimePasses
<1>4. CASE StartSweep \/ RecoverFull \/ EndSweep \/ Crash \/ UNCHANGED vars
  BY <1>4, SweepSteps
<1>5. CASE \E m \in Minutes : RecomputePingMinute(m)
  BY <1>5, RecomputeMinuteKeeps
<1>6. CASE \E h \in Hours : RecomputePingHour(h)
  BY <1>6, RecomputeHourKeeps
<1>7. CASE \E i \in 1 .. 8 : Delete(i)
  BY <1>7, DeleteKeeps
<1> QED BY <1>1, <1>2, <1>3, <1>4, <1>5, <1>6, <1>7 DEF Next, Maintain

\* The invariant holds of every behaviour.
LEMMA Inductive == Spec => []IInv
<1>1. Init => IInv
  BY Initially
<1>2. IInv /\ [Next]_vars => IInv'
  BY StepKeeps
<1> QED BY <1>1, <1>2, PTL DEF Spec

\* The tables are well typed: only slots that were used have rows, every rollup is
\* of counts, and a sweep works only on what is dirty (see TypeOK).
THEOREM TypeCorrect == Spec => []TypeOK
<1>1. IInv => TypeOK
  BY DEF IInv, Types
<1> QED BY <1>1, Inductive, PTL

\* A minute that is summed and clean holds all that was ever observed in it, late
\* replies and deleted rows included, although the disk fills, the process ends in
\* the middle of a sweep and the machine sleeps (rollup.go:330, retention.go:29).
THEOREM MinutesExact == Spec => []MinuteIsExact
<1>1. IInv => MinuteIsExact
  BY DEF IInv
<1> QED BY <1>1, Inductive, PTL

\* The maintenance recomputes first what may be recomputed.
InOrder ==
  /\ mode # "recovery"
  /\ mode = "maintenance" =>
       \A m \in Minutes : ~ Clean(M, m) => <<M, m>> \in todo \/ ~ MinuteEligible(m)

\* The oldest of a set are all of it when it is small enough.
LEMMA AllAreOldest ==
  ASSUME NEW S \in SUBSET Minutes, NEW n \in Nat, Cardinality(S) <= n
  PROVE  Oldest(S, n) = S
<1>1. ASSUME NEW b \in S PROVE Cardinality({c \in S : c < b}) < n
  <2>1. IsFiniteSet(S) /\ b \in Nat
    BY FinitelyMany, FS_Subset, MinuteFacts
  <2>2. PICK T : T = {c \in S : c < b}
    OBVIOUS
  <2>3. T \in SUBSET S /\ b \notin T
    BY <2>1, <2>2
  <2>4. Cardinality(T) <= Cardinality(S) /\ (Cardinality(S) = Cardinality(T) => S = T)
    BY <2>1, <2>3, FS_Subset
  <2>5. Cardinality(T) \in Nat /\ Cardinality(S) \in Nat
    BY <2>1, <2>3, FS_Subset, FS_CardinalityType
  <2> QED BY <2>2, <2>3, <2>4, <2>5
<1> QED BY <1>1 DEF Oldest

\* It does so as long as it keeps up.
LEMMA InOrderKept ==
  ASSUME IInv, InOrder, KeepsUp, [Next]_vars, mode' # "recovery"
  PROVE  InOrder'
<1>0. M # H /\ Quota \in Nat
  BY Sizes, BoundAssumption
<1>1. CASE StartSweep
  <2>1. PICK S : S = {m \in Minutes : <<M, m>> \in dirty /\ MinuteEligible(m)}
    OBVIOUS
  <2>2. Oldest(S, Quota) = S
    BY <1>0, <2>1, AllAreOldest DEF KeepsUp
  <2>3. \A m \in Minutes : ~ Clean(M, m) => <<M, m>> \in Due \/ ~ MinuteEligible(m)
    BY <2>1, <2>2 DEF Due, Clean
  <2>4. todo' = Due /\ mode' = "maintenance" /\ UNCHANGED <<now, sample, raw, dirty>>
    BY <1>1 DEF StartSweep, history, tables
  <2>5. \A m : MinuteEligible(m)' <=> MinuteEligible(m)
    BY <2>4 DEF MinuteEligible, Awaited
  <2> QED BY <2>3, <2>4, <2>5 DEF InOrder, Clean
<1>2. CASE \E m \in Minutes : RecomputePingMinute(m)
  <2>1. PICK m \in Minutes : RecomputePingMinute(m)
    BY <1>2
  <2>2. /\ dirty' = (dirty \ {<<M, m>>}) \cup {<<H, Bucket(m, H)>>}
        /\ todo' = todo \ {<<M, m>>} /\ UNCHANGED <<now, sample, raw, mode>>
    BY <2>1 DEF RecomputePingMinute, history
  <2>3. \A n : MinuteEligible(n)' <=> MinuteEligible(n)
    BY <2>2 DEF MinuteEligible, Awaited
  <2>4. \A n : ~ Clean(M, n)' => ~ Clean(M, n) /\ n # m
    BY <1>0, <2>2 DEF Clean
  <2>5. \A n : <<M, n>> \in todo /\ n # m => <<M, n>> \in todo'
    BY <2>2
  <2> QED BY <2>2, <2>3, <2>4, <2>5 DEF InOrder
<1>3. CASE \E h \in Hours : RecomputePingHour(h)
  <2>1. PICK h \in Hours : RecomputePingHour(h)
    BY <1>3
  <2>2. /\ dirty' \subseteq dirty /\ todo' = todo \ {<<H, h>>} /\ UNCHANGED <<now, sample, raw, mode>>
    BY <2>1 DEF RecomputePingHour, history
  <2>3. \A n : MinuteEligible(n)' <=> MinuteEligible(n)
    BY <2>2 DEF MinuteEligible, Awaited
  <2>4. \A n : <<M, n>> \in todo => <<M, n>> \in todo'
    BY <1>0, <2>2
  <2> QED BY <2>2, <2>3, <2>4 DEF InOrder, Clean
<1>4. CASE \E i \in 1 .. 8 : Delete(i)
  <2>1. PICK i \in 1 .. 8 : Delete(i)
    BY <1>4
  <2>2. /\ UNCHANGED <<now, sample, dirty, todo>> /\ raw' \subseteq raw /\ mode' \in {mode, "idle"}
        /\ \A s \in raw \ raw' : Clean(M, Bucket(s, M))
    BY <2>1, DeleteFacts
  <2>3. \A m : ~ Clean(M, m) => (MinuteEligible(m)' <=> MinuteEligible(m))
    BY <2>2 DEF MinuteEligible, Awaited
  <2>4. \A m : Clean(M, m)' <=> Clean(M, m)
    BY <2>2 DEF Clean
  <2> QED BY <2>2, <2>3, <2>4 DEF InOrder
<1>5. CASE mode' = "idle"
  BY <1>5 DEF InOrder
<1>6. CASE UNCHANGED vars
  <2>1. UNCHANGED <<now, sample, raw, dirty, todo, mode>>
    BY <1>6 DEF vars, history, tables, sweep
  <2>2. \A m : MinuteEligible(m)' <=> MinuteEligible(m)
    BY <2>1 DEF MinuteEligible, Awaited
  <2> QED BY <2>1, <2>2 DEF InOrder, Clean
<1>7. ~ RecoverFull
  BY DEF RecoverFull
<1>8. ASSUME NEW s \in Slots, InsertProbe(s) \/ AttachReply(s) PROVE mode' = "idle"
  BY <1>8 DEF InsertProbe, AttachReply, sweeping, sweep
<1>9. ASSUME NEW g \in Gaps, InsertGap(g) PROVE mode' = "idle"
  BY <1>9 DEF InsertGap, sweeping, sweep
<1>10. Tick \/ Suspend => mode' = "idle"
  BY DEF Tick, Suspend, sweeping, sweep
<1>11. EndSweep \/ Crash => mode' = "idle"
  BY DEF EndSweep, Crash
<1> QED BY <1>1, <1>2, <1>3, <1>4, <1>5, <1>6, <1>7, <1>8, <1>9, <1>10, <1>11 DEF Next, Maintain

\* What may not be recomputed yet is not old enough for its hour to be deleted.
LEMMA InOrderIsInTime ==
  ASSUME IInv, InOrder
  PROVE  RepairedInTime
<1>1. SUFFICES ASSUME sweeping, todo = {}, NEW m \in Minutes, ~ Clean(M, m)
               PROVE  now < Bucket(m, H) + H + Month
  BY DEF RepairedInTime
<1>2. mode = "maintenance"
  BY <1>1 DEF InOrder, sweeping, IInv, Types, TypeOK
<1>3. ~ MinuteEligible(m)
  BY <1>1, <1>2 DEF InOrder
<1>4. /\ m \in Nat /\ Bucket(m, H) \in Nat /\ m + M <= Bucket(m, H) + H
      /\ \A s \in Int : Bucket(s, M) = m => s < m + M
  BY MinuteFacts
<1>5. now \in Nat
  BY TypesFacts DEF IInv
<1>6. CASE ~ (m + M <= now)
  BY <1>4, <1>5, <1>6, Sizes
<1>7. CASE Awaited(m) # {}
  <2>1. PICK s \in raw : Bucket(s, M) = m /\ sample[s].sent + Timeout > now
    BY <1>7 DEF Awaited
  <2>2. s \in Slots /\ s \in Nat /\ Row(s) /\ sample[s].sent \in Nat
    BY TypesFacts, SlotFacts DEF IInv
  <2>3. sample[s].sent <= s + Sleep
    BY <2>2 DEF IInv, Prompt
  <2>4. s < m + M
    BY <1>4, <2>1, <2>2
  <2> QED BY <1>4, <1>5, <2>1, <2>2, <2>3, <2>4, Sizes
<1> QED BY <1>3, <1>6, <1>7 DEF MinuteEligible

\* So do the hours (rollup.go:443) while no batch finds the disk full and the
\* maintenance keeps up: minutes are deleted only from hours of which none is dirty.
THEOREM HoursExact == Spec => HoursAreExact
<1> DEFINE All == IInv /\ HInv /\ InOrder
<1>1. Init => All
  BY Initially DEF Init, InOrder
<1>2. All /\ KeepsUp /\ [Next]_vars /\ (mode # "recovery")' => All'
  BY StepKeeps, InOrderKept, InOrderIsInTime
<1>3. All => HourIsExact
  BY DEF HInv
<1> HIDE DEF All
<1> QED BY <1>1, <1>2, <1>3, PTL DEF Spec, HoursAreExact

\* Both tiers are exact together, each under its own premises.
THEOREM RollupsExact == Spec => RollupsAreExact
BY MinutesExact, HoursExact DEF RollupsAreExact
-----------------------------------------------------------------------------
(* What the queries find.                                                  *)

\* The least of some numbers.
LEMMA LeastIs ==
  ASSUME NEW S \in SUBSET Nat, S # {}
  PROVE  Min(S) \in S /\ \A x \in S : Min(S) <= x
<1>1. PICK n \in S : \A m \in S : ~ (<<m, n>> \in OpToRel(<, Nat))
  BY WFMin, NatLessThanWellFounded
<1>2. ASSUME NEW m \in S PROVE n <= m
  <2>1. m \in Nat /\ n \in Nat
    OBVIOUS
  <2>2. ~ (m < n)
    BY <1>1, <2>1 DEF OpToRel
  <2> QED BY <2>1, <2>2
<1> QED BY <1>2 DEF Min

\* The greatest of some bounded ones.
LEMMA GreatestIs ==
  ASSUME NEW S \in SUBSET Nat, S # {}, NEW n \in Nat, \A x \in S : x <= n
  PROVE  Max(S) \in S /\ \A x \in S : x <= Max(S)
<1>1. PICK T : T = {n - x : x \in S}
  OBVIOUS
<1>2. T \in SUBSET Nat /\ T # {}
  <2>1. \A x \in S : n - x \in Nat
    <3>1. SUFFICES ASSUME NEW x \in S PROVE n - x \in Nat
      OBVIOUS
    <3>2. x \in Nat /\ x <= n
      OBVIOUS
    <3> QED BY <3>2
  <2> QED BY <1>1, <2>1
<1>3. PICK t \in T : \A u \in T : t <= u
  BY <1>2, LeastIs
<1>4. PICK x \in S : t = n - x
  BY <1>1
<1>5. \A y \in S : n - x <= n - y
  BY <1>1, <1>3, <1>4
<1>6. \A y \in S : y <= x
  BY <1>5
<1> QED BY <1>6 DEF Max

\* An hour begins with a minute.
LEMMA HourIsMinute ==
  ASSUME NEW t \in Int
  PROVE  Bucket(Bucket(t, H), M) = Bucket(t, H)
<1>1. PICK n \in Nat : H = n * M
  BY Sizes, WholeFactor
<1>2. PICK q \in Int : Bucket(t, H) = q * H
  BY BucketHolds
<1>3. q * n \in Int /\ q * H = (q * n) * M /\ (q * n) * M \in Int
  BY <1>1, Sizes
<1>4. PICK a \in Int : a = (q * n) * M
  BY <1>3
<1>5. a <= a /\ a < a + M
  BY Sizes
<1>6. Base(a, M) = (q * n) * M
  BY <1>3, <1>4, <1>5, Sizes, FloorIsOne
<1> QED BY <1>2, <1>3, <1>4, <1>6 DEF Base, Bucket

\* Counts that are the same in each field are the same; nothing is the least.
LEMMA CountsFacts ==
  /\ \A a, b \in Counts : (\A f \in Fields : a[f] = b[f]) => a = b
  /\ Zero \in Counts /\ \A f \in Fields : Zero[f] = 0
  /\ \A a \in Counts : Plus(Zero, a) = a /\ Plus(a, Zero) = a
<1>1. \A a, b \in Counts : (\A f \in Fields : a[f] = b[f]) => a = b
  BY DEF Counts
<1>2. Zero \in Counts /\ \A f \in Fields : Zero[f] = 0
  BY DEF Counts, Zero
<1>3. ASSUME NEW a \in Counts PROVE Plus(Zero, a) = a /\ Plus(a, Zero) = a
  <2>1. \A f \in Fields : a[f] \in Nat /\ Plus(Zero, a)[f] = a[f] /\ Plus(a, Zero)[f] = a[f]
    BY <1>2 DEF Counts, Plus
  <2>2. Plus(Zero, a) \in Counts /\ Plus(a, Zero) \in Counts
    BY <2>1 DEF Counts, Plus
  <2> QED BY <1>1, <2>1, <2>2
<1> QED BY <1>1, <1>2, <1>3

\* A tally of finitely many rows.
LEMMA TallyCounts ==
  ASSUME NEW S, IsFiniteSet(S), NEW given, IsFiniteSet(given), NEW missed \in Nat
  PROVE  Tally(S, given, missed) \in Counts
<1>1. PICK t : t = Tally(S, given, missed)
  OBVIOUS
<1>2. IsTally(t, S, given, missed)
  BY <1>1, TallyFields
<1>3. ASSUME NEW R, IsFiniteSet(R), NEW T \in SUBSET R PROVE Cardinality(T) \in Nat
  BY <1>3, FS_Subset, FS_CardinalityType
<1>4. \A f \in Fields : t[f] \in Nat
  BY <1>2, <1>3 DEF IsTally, Fields
<1>5. t = [f \in Fields |-> t[f]]
  BY <1>2 DEF IsTally
<1> QED BY <1>1, <1>4, <1>5 DEF Counts

\* A tally of nothing.
LEMMA TallyOfNothing == Tally({}, {}, 0) = Zero
<1>1. PICK t : t = Tally({}, {}, 0)
  OBVIOUS
<1>2. IsTally(t, {}, {}, 0)
  BY <1>1, TallyFields
<1>3. \A f \in Fields : t[f] = 0
  BY <1>2, FS_EmptySet DEF IsTally, Fields
<1>4. t = [f \in Fields |-> t[f]]
  BY <1>2 DEF IsTally
<1> QED BY <1>1, <1>3, <1>4 DEF Zero

\* A total of one rollup.
LEMMA TotalOfOne ==
  ASSUME NEW b, NEW table, table[b] \in Counts
  PROVE  Total({b}, table) = table[b]
<1>1. IsFiniteSet({b}) /\ \A x \in {b} : table[x] \in Counts
  BY FS_Singleton
<1>2. PICK t : t = Total({b}, table)
  OBVIOUS
<1>3. t \in Counts
  BY <1>1, <1>2, TotalAdds
<1>4. ASSUME NEW f \in Fields PROVE t[f] = table[b][f]
  <2>1. PICK e : e = [x \in {b} |-> table[x][f]]
    OBVIOUS
  <2>2. PICK g : Adds(e, {b}, g) /\ t[f] = g[{b}]
    BY <1>1, <1>2, <2>1, TotalAdds
  <2>3. Unfolds(e, {b}, g)
    BY <2>2, SolutionsUnfold
  <2>4. {b} # {} /\ {b} \in SUBSET {b} /\ {} \in SUBSET {b}
    OBVIOUS
  <2>5. Pick({b}) = b /\ g[{b}] = e[Pick({b})] + g[{b} \ {Pick({b})}] /\ g[{}] = 0
    BY <2>3, <2>4 DEF Unfolds
  <2>6. {b} \ {b} = {} /\ e[b] = table[b][f] /\ table[b][f] \in Nat
    BY <1>1, <2>1 DEF Counts
  <2> QED BY <2>2, <2>5, <2>6
<1> QED BY <1>2, <1>3, <1>4, CountsFacts

\* The rows of a range.
In(from, to) == {s \in Slots : from <= s /\ s < to /\ sample[s] # NoSample}

\* What was observed in a range, in counts; nothing is after now.
LEMMA ObservedFacts ==
  ASSUME IInv, NEW from \in Int, NEW to \in Int
  PROVE  /\ Observed(from, to) =
              Tally(In(from, to), Overdue(In(from, to)),
                    Cardinality(MissedBy(gapLog) \cap (from .. to - 1)))
         /\ Observed(from, to) \in Counts
         /\ to > now => Observed(from, to) = Observed(from, now + 1)
<1>0. now \in Nat
  BY TypesFacts DEF IInv
<1>1. \A u : Observed(from, u) =
              Tally(In(from, u), Overdue(In(from, u)),
                    Cardinality(MissedBy(gapLog) \cap (from .. u - 1)))
  BY DEF Observed, In, Overdue
<1>2. IsFiniteSet(In(from, to)) /\ IsFiniteSet(Overdue(In(from, to)))
  <2>1. In(from, to) \subseteq Slots /\ Overdue(In(from, to)) \subseteq Slots
    BY DEF In, Overdue
  <2> QED BY <2>1, FinitelyMany, FS_Subset
<1>3. Cardinality(MissedBy(gapLog) \cap (from .. to - 1)) \in Nat
  <2>1. IsFiniteSet(from .. to - 1) /\ MissedBy(gapLog) \cap (from .. to - 1) \subseteq from .. to - 1
    BY FS_Interval
  <2> QED BY <2>1, FS_Subset, FS_CardinalityType
<1>4. Observed(from, to) \in Counts
  BY <1>1, <1>2, <1>3, TallyCounts
<1>5. ASSUME to > now PROVE Observed(from, to) = Observed(from, now + 1)
  <2>1. \A s \in Slots : Row(s) => s < now + 1 /\ s < to
    <3>1. SUFFICES ASSUME NEW s \in Slots, Row(s) PROVE s < now + 1 /\ s < to
      OBVIOUS
    <3>2. s \in Nat /\ sample[s].sent \in Nat /\ s <= sample[s].sent /\ sample[s].sent <= now
      BY <3>1, TypesFacts, SlotFacts DEF IInv
    <3> QED BY <1>0, <1>5, <3>2
  <2>2. In(from, to) = In(from, now + 1)
    BY <2>1 DEF In, Row
  <2>3. \A s \in MissedBy(gapLog) : s \in Int /\ s <= now
    <3>1. SUFFICES ASSUME NEW g \in gapLog, NEW s \in Missed(g) PROVE s \in Int /\ s <= now
      BY DEF MissedBy
    <3>2. g \in Gaps /\ Last(g) <= now
      BY TypesFacts DEF IInv
    <3> QED BY <1>0, <3>2, GapFacts
  <2>4. \A s \in MissedBy(gapLog) : s \in from .. to - 1 <=> s \in from .. (now + 1) - 1
    BY <1>0, <1>5, <2>3
  <2>5. MissedBy(gapLog) \cap (from .. to - 1) = MissedBy(gapLog) \cap (from .. (now + 1) - 1)
    BY <2>4
  <2> QED BY <1>1, <2>2, <2>5
<1> QED BY <1>1, <1>4, <1>5

\* A range of a minute in which nothing was seen.
LEMMA UnseenIsZero ==
  ASSUME IInv, NEW m \in Minutes, ~ Seen(m), NEW from \in Int, NEW to \in Int,
         m <= from, to <= m + M
  PROVE  Observed(from, to) = Zero
<1>1. m \in Int /\ M \in Int /\ \A s \in Int : Bucket(s, M) = m <=> m <= s /\ s < m + M
  BY MinuteFacts, Sizes
<1>2. In(from, to) = {}
  BY <1>1, SlotFacts DEF In, Seen, Row
<1>3. MissedBy(gapLog) \cap (from .. to - 1) = {}
  <2>1. SUFFICES ASSUME NEW g \in gapLog, NEW s \in Missed(g), s \in from .. to - 1 PROVE FALSE
    BY DEF MissedBy
  <2>2. s \in Int /\ Bucket(s, M) \in Span(g) /\ from <= s /\ s < to
    BY <2>1, MissedIsSpanned
  <2>3. Bucket(s, M) = m
    BY <1>1, <2>2
  <2> QED BY <2>2, <2>3 DEF Seen
<1>4. Overdue({}) = {}
  BY DEF Overdue
<1>5. Observed(from, to) =
        Tally(In(from, to), Overdue(In(from, to)),
              Cardinality(MissedBy(gapLog) \cap (from .. to - 1)))
  BY ObservedFacts
<1>6. Cardinality({}) = 0
  BY FS_EmptySet
<1>7. Observed(from, to) = Tally({}, {}, 0)
  BY <1>2, <1>3, <1>4, <1>5, <1>6
<1> QED BY <1>7, TallyOfNothing

\* A clean minute that is summed says what was observed in it.
LEMMA CleanIsObserved ==
  ASSUME IInv, NEW m \in DOMAIN minute, Clean(M, m)
  PROVE  minute[m] = Observed(m, m + M) /\ minute[m] \in Counts
<1>0. m \in Minutes /\ m \in Nat /\ m + M \in Int /\ now \in Nat
  BY TypesFacts, MinuteFacts, Sizes DEF IInv
<1>1. minute[m] = Truth(m, m + M)
  BY DEF IInv, MinuteIsExact
<1>2. Awaited(m) = {}
  BY DEF IInv, Answered
<1>3. ASSUME NEW s \in In(m, m + M), sample[s].outcome = "pending"
      PROVE  sample[s].sent + Timeout <= now
  <2>1. /\ s \in Slots /\ s \in Nat /\ m <= s /\ s < m + M /\ Row(s)
        /\ sample[s].sent \in Nat /\ sample[s].sent <= s + Sleep
    BY TypesFacts, SlotFacts DEF In, Row, IInv, Prompt
  <2>2. Bucket(s, M) = m
    BY <1>0, <2>1, MinuteFacts
  <2>3. CASE s \in raw
    BY <1>0, <1>2, <1>3, <2>1, <2>2, <2>3, Sizes DEF Awaited
  <2>4. CASE s \notin raw
    <3>1. m + M + RawFloor <= now
      BY <2>1, <2>2, <2>4 DEF IInv, GoneRows
    <3> QED BY <1>0, <2>1, <3>1, Sizes
  <2> QED BY <2>3, <2>4
<1>4. {s \in In(m, m + M) : sample[s].outcome = "pending"}
        = {s \in Overdue(In(m, m + M)) : sample[s].outcome = "pending"}
  BY <1>3 DEF Overdue
<1>5. Truth(m, m + M) = Tally(In(m, m + M), In(m, m + M),
                              Cardinality(MissedBy(gapLog) \cap (m .. (m + M) - 1)))
  BY DEF Truth, In
<1>6. \A S, P, Q, k : {s \in P : sample[s].outcome = "pending"} = {s \in Q : sample[s].outcome = "pending"}
                        => Tally(S, P, k) = Tally(S, Q, k)
  BY DEF Tally
<1> QED BY <1>0, <1>1, <1>4, <1>5, <1>6, ObservedFacts

\* Minutes do not overlap.
LEMMA MinutesAreApart ==
  ASSUME NEW m \in Minutes, NEW n \in Minutes, m < n
  PROVE  m + M <= n
<1>1. m \in Nat /\ n \in Nat /\ M \in Nat /\ M > 0
  BY MinuteFacts, Sizes
<1>2. Bucket(n, M) = n /\ \A s \in Int : Bucket(s, M) = m <=> m <= s /\ s < m + M
  BY MinuteFacts
<1> QED BY <1>1, <1>2

\* Nothing is gone of a minute that is dirty or recent.
LEMMA NothingIsGone ==
  ASSUME IInv, NEW m \in Minutes, ~ Clean(M, m) \/ m + M + RawFloor > now,
         NEW from \in Int, NEW to \in Int, m <= from, to <= m + M
  PROVE  /\ \A s \in Slots : from <= s /\ s < to /\ Row(s) => s \in raw
         /\ \A g \in gapLog \ gaps : \A s \in Missed(g) : ~ (from <= s /\ s < to)
<1>1. m \in Nat /\ M \in Nat /\ \A s \in Int : Bucket(s, M) = m <=> m <= s /\ s < m + M
  BY MinuteFacts, Sizes
<1>2. ASSUME NEW s \in Slots, from <= s, s < to, Row(s) PROVE s \in raw
  <2>1. s \in Int
    BY SlotFacts
  <2>2. Bucket(s, M) = m
    BY <1>1, <1>2, <2>1
  <2>3. now \in Nat /\ RawFloor \in Nat
    BY TypesFacts, Sizes DEF IInv
  <2> QED BY <1>1, <1>2, <2>2, <2>3 DEF IInv, GoneRows
<1>3. ASSUME NEW g \in gapLog \ gaps, NEW s \in Missed(g), from <= s, s < to PROVE FALSE
  <2>1. g \in Gaps /\ now \in Nat /\ RawFloor \in Nat
    BY TypesFacts, Sizes DEF IInv
  <2>2. s \in Int /\ Bucket(s, M) \in Span(g) /\ s <= Last(g) /\ Last(g) \in Int
    BY <2>1, MissedIsSpanned, GapFacts
  <2>3. Bucket(s, M) = m
    BY <1>1, <1>3, <2>2
  <2>4. Clean(M, m) /\ Bucket(Last(g), M) + M + RawFloor <= now
    BY <2>2, <2>3 DEF IInv, GoneGaps
  <2>5. m <= Bucket(Last(g), M) /\ Bucket(Last(g), M) \in Int
    BY <2>2, <2>3, BucketsOrdered, BucketHolds
  <2> QED BY <1>1, <2>1, <2>4, <2>5
<1> QED BY <1>2, <1>3

\* What a minute allows it allows of all its slots.
LEMMA AllowsMinute ==
  ASSUME NEW m \in Minutes, NEW s \in Int, Bucket(s, M) = m, NEW allowed
  PROVE  Allows(allowed, s) <=> Allows(allowed, m)
<1>1. Bucket(m, M) = m
  BY MinuteFacts
<1>2. Bucket(m, H) = Bucket(s, H)
  BY MinutesNest
<1> QED BY <1>1, <1>2 DEF Allows

\* A query of the raw rows by the minute: what it answers for a minute, of the
\* part [start, end) of it that was asked for, when nothing of that is gone.
LEMMA RawIsExact ==
  ASSUME IInv, NEW from \in Int, NEW to \in Int, NEW allowed, NEW m \in Minutes,
         Allows(allowed, m), NEW start \in Int, NEW end \in Int, start < end,
         start = (IF m > from THEN m ELSE from), end = (IF m + M < to THEN m + M ELSE to),
         ~ Clean(M, m) \/ m + M + RawFloor > now
  PROVE  At(QueryRaw(from, to, M, allowed), m) = Observed(start, end)
<1> DEFINE rows == {s \in raw : from <= s /\ s < to /\ Allows(allowed, s)}
           Upto(p) == IF p + M < to THEN p + M ELSE to
           From(p) == IF p > from THEN p ELSE from
           missed == [p \in {Bucket(s, M) : s \in Slots} |->
                        IF Allows(allowed, p) /\ p < to /\ From(p) < Upto(p)
                          THEN MissedIn(From(p), Upto(p)) ELSE 0]
           points == {Bucket(s, M) : s \in rows} \cup {p \in DOMAIN missed : missed[p] > 0}
           Of(p) == {s \in rows : Bucket(s, M) = p}
           answer == [p \in points |-> Tally(Of(p), Overdue(Of(p)), missed[p])]
<1>1. QueryRaw(from, to, M, allowed) = answer
  BY DEF QueryRaw
<1>2. m \in Nat /\ M \in Nat /\ M > 0 /\ \A s \in Int : Bucket(s, M) = m <=> m <= s /\ s < m + M
  BY MinuteFacts, Sizes
<1>3. m <= start /\ end <= m + M
  BY <1>2
<1>4. /\ \A s \in Slots : start <= s /\ s < end /\ Row(s) => s \in raw
      /\ \A g \in gapLog \ gaps : \A s \in Missed(g) : ~ (start <= s /\ s < end)
  BY <1>3, NothingIsGone
<1>5. Of(m) = In(start, end)
  <2>1. ASSUME NEW s \in Slots
        PROVE  s \in Of(m) <=> s \in In(start, end)
    <3>1. s \in Int
      BY SlotFacts
    <3>2. Bucket(s, M) = m => Allows(allowed, s)
      BY <3>1, AllowsMinute
    <3>3. s \in raw => Row(s)
      BY TypesFacts DEF IInv
    <3>4. (from <= s /\ s < to /\ Bucket(s, M) = m) <=> (start <= s /\ s < end)
      BY <1>2, <3>1
    <3> QED BY <1>4, <3>2, <3>3, <3>4 DEF In, Row
  <2>2. Of(m) \subseteq Slots /\ In(start, end) \subseteq Slots
    BY TypesFacts DEF In, IInv
  <2> QED BY <2>1, <2>2
<1>6. missed[m] = Cardinality(MissedBy(gapLog) \cap (start .. end - 1)) /\ missed[m] \in Nat
  <2>1. m \in {Bucket(s, M) : s \in Slots}
    BY DEF Minutes
  <2>2. From(m) = start /\ Upto(m) = end /\ m < to
    BY <1>2, <1>3
  <2>3. missed[m] = MissedIn(start, end)
    BY <2>1, <2>2
  <2> QED BY <1>4, <2>3, GapsAreThere
<1>7. Observed(start, end) = Tally(Of(m), Overdue(Of(m)), missed[m])
  <2>1. Observed(start, end) =
          Tally(In(start, end), Overdue(In(start, end)),
                Cardinality(MissedBy(gapLog) \cap (start .. end - 1)))
    BY ObservedFacts
  <2> HIDE DEF Of, missed
  <2> QED BY <1>5, <1>6, <2>1
<1>8. CASE m \in points
  BY <1>1, <1>7, <1>8 DEF At
<1>9. CASE m \notin points
  <2>1. Of(m) = {}
    BY <1>9
  <2>2. m \in DOMAIN missed
    BY DEF Minutes
  <2>3. missed[m] = 0
    BY <1>6, <1>9, <2>2
  <2>4. Overdue({}) = {}
    BY DEF Overdue
  <2>5. Observed(start, end) = Tally({}, {}, 0)
    BY <1>7, <2>1, <2>3, <2>4
  <2>6. m \notin DOMAIN answer
    BY <1>9
  <2> HIDE DEF answer
  <2> QED BY <1>1, <2>5, <2>6, TallyOfNothing DEF At
<1> QED BY <1>8, <1>9

\* For which minutes it answers.
LEMMA RawDomain ==
  ASSUME IInv, NEW from \in Int, NEW to \in Int, NEW allowed,
         NEW m \in DOMAIN QueryRaw(from, to, M, allowed)
  PROVE  m \in Minutes /\ Allows(allowed, m) /\ m < to /\ from < m + M
<1> DEFINE rows == {s \in raw : from <= s /\ s < to /\ Allows(allowed, s)}
           Upto(p) == IF p + M < to THEN p + M ELSE to
           From(p) == IF p > from THEN p ELSE from
           missed == [p \in {Bucket(s, M) : s \in Slots} |->
                        IF Allows(allowed, p) /\ p < to /\ From(p) < Upto(p)
                          THEN MissedIn(From(p), Upto(p)) ELSE 0]
           points == {Bucket(s, M) : s \in rows} \cup {p \in DOMAIN missed : missed[p] > 0}
           Of(p) == {s \in rows : Bucket(s, M) = p}
           answer == [p \in points |-> Tally(Of(p), Overdue(Of(p)), missed[p])]
<1>1. QueryRaw(from, to, M, allowed) = answer
  BY DEF QueryRaw
<1>2. m \in points
  BY <1>1
<1>3. CASE m \in {Bucket(s, M) : s \in rows}
  <2>1. PICK s \in raw : m = Bucket(s, M) /\ from <= s /\ s < to /\ Allows(allowed, s)
    BY <1>3
  <2>2. s \in Slots /\ s \in Int /\ m \in Minutes
    BY <2>1, TypesFacts, SlotFacts DEF IInv
  <2>3. m \in Int /\ m <= s /\ s < m + M
    BY <2>1, <2>2, BucketHolds
  <2>4. Allows(allowed, m)
    BY <2>1, <2>2, AllowsMinute
  <2> QED BY <2>1, <2>2, <2>3, <2>4, Sizes
<1>4. CASE m \in DOMAIN missed /\ missed[m] > 0
  <2>1. m \in Minutes
    BY <1>4 DEF Minutes
  <2>2. Allows(allowed, m) /\ m < to /\ From(m) < Upto(m)
    BY <1>4
  <2>3. m \in Nat /\ M \in Nat /\ M > 0
    BY <2>1, MinuteFacts, Sizes
  <2> QED BY <2>1, <2>2, <2>3
<1> QED BY <1>2, <1>3, <1>4

\* The minutes of a range, but for some, as they are.
Stored(from, to, skip) ==
  [m \in {b \in DOMAIN minute : Bucket(from, M) <= b /\ b < to /\ b \notin skip} |-> minute[m]]

\* A query of the minutes by the minute answers with them.
LEMMA MinutesAsStored ==
  ASSUME IInv, NEW from \in Int, NEW to, NEW skip
  PROVE  QueryRollups(from, to, M, M, skip, Anything) = Stored(from, to, skip)
<1> DEFINE buckets == {b \in DOMAIN minute : /\ Bucket(from, M) <= b /\ b < to
                                             /\ b \notin skip
                                             /\ Anything = Anything \/ Bucket(b, H) \in Anything}
           plain == {b \in DOMAIN minute : Bucket(from, M) <= b /\ b < to /\ b \notin skip}
<1>1. Table(M) = minute
  BY DEF Table
<1>2. QueryRollups(from, to, M, M, skip, Anything)
        = [p \in {Bucket(b, M) : b \in buckets} |-> Total({b \in buckets : Bucket(b, M) = p}, minute)]
  <2> DEFINE held == {b \in DOMAIN Table(M) : /\ Bucket(from, M) <= b /\ b < to
                                              /\ b \notin skip
                                              /\ Anything = Anything \/ Bucket(b, H) \in Anything}
  <2>1. QueryRollups(from, to, M, M, skip, Anything)
          = [p \in {Bucket(b, M) : b \in held} |->
               Total({b \in held : Bucket(b, M) = p}, Table(M))]
    BY Zenon DEF QueryRollups
  <2> QED BY <1>1, <2>1, Zenon
<1>3. buckets = plain
  <2>1. \A b : b \in buckets <=> b \in plain
    BY Zenon
  <2> QED BY <2>1, Zenon
<1>4. \A b \in plain : b \in Minutes /\ Bucket(b, M) = b /\ minute[b] \in Counts
  BY TypesFacts, MinuteFacts DEF IInv, Types, TypeOK, Counts
<1> HIDE DEF buckets, plain
<1>5. {Bucket(b, M) : b \in plain} = plain
  BY <1>4
<1>6. ASSUME NEW p \in plain
      PROVE  Total({b \in plain : Bucket(b, M) = p}, minute) = minute[p]
  <2>1. {b \in plain : Bucket(b, M) = p} = {p}
    BY <1>4
  <2>2. Total({p}, minute) = minute[p]
    BY <1>4, TotalOfOne
  <2> QED BY <2>1, <2>2
<1>7. QueryRollups(from, to, M, M, skip, Anything) = [p \in plain |-> minute[p]]
  BY <1>2, <1>3, <1>5, <1>6
<1> QED BY <1>7 DEF plain, Stored

\* The parts of a range that its minutes cut it into.
LEMMA PartOfMinute ==
  ASSUME NEW from \in Nat, NEW to \in Int, NEW t \in from .. to - 1, to - 1 <= MaxTime,
         NEW m, m = Bucket(t, M),
         NEW start, start = (IF m > from THEN m ELSE from),
         NEW end, end = (IF m + M < to THEN m + M ELSE to)
  PROVE  /\ m \in Minutes /\ m \in Nat /\ start \in Nat /\ end \in Int
         /\ m <= t /\ t < m + M /\ start <= t /\ t < end /\ m <= start /\ end <= m + M
         /\ from <= start /\ end <= to /\ Bucket(from, M) <= m
<1>1. t \in Nat /\ t <= MaxTime /\ t \in Slots /\ M \in Nat
  BY Sizes DEF Slots
<1>2. m \in Minutes
  BY <1>1 DEF Minutes
<1>3. m \in Nat /\ m <= t /\ t < m + M
  BY <1>1, <1>2, MinuteFacts, BucketHolds
<1>4. Bucket(from, M) <= m
  BY <1>1, BucketsOrdered
<1> QED BY <1>1, <1>2, <1>3, <1>4

\* The overview of a window that ends now: the raw rows of its dirty minutes, and
\* of those that are not whole, are all there still.
LEMMA OverviewCounts ==
  ASSUME IInv, NEW from \in Nat, from <= now, now < from + RawFloor
  PROVE  Exact(OverviewPing(from, now + 1), M, from, now + 1)
<1> DEFINE to == now + 1
           whole == IF Bucket(from, M) < from THEN Bucket(from, M) + M ELSE from
           minutes == QueryRollups(whole, Bucket(to - 1, M), M, M, DirtyMinutes(to), Anything)
           stretch == {m \in Minutes : Bucket(from, M) <= m /\ m < to} \ DOMAIN minutes
           piece == [m \in stretch |-> QueryRaw(IF m > from THEN m ELSE from,
                                               IF m + M < to THEN m + M ELSE to, M, Anything)]
           answer == [m \in DOMAIN minutes \cup {n \in stretch : piece[n] # NoPoints} |->
                        IF m \in DOMAIN minutes THEN minutes[m] ELSE piece[m][m]]
<1>1. OverviewPing(from, to) = answer
  BY DEF OverviewPing
<1>2. now \in Nat /\ now <= MaxTime /\ to \in Nat /\ to - 1 = now /\ M \in Nat /\ M > 0
      /\ RawFloor \in Nat
  BY TypesFacts, Sizes DEF IInv
<1>3. /\ Bucket(from, M) \in Int /\ Bucket(from, M) <= from /\ from < Bucket(from, M) + M
      /\ Bucket(now, M) \in Int /\ Bucket(now, M) <= now
  <2>1. from \in Int /\ now \in Int /\ M \in {M, H}
    BY <1>2
  <2> QED BY <2>1, BucketHolds, Zenon
<1>4. whole \in Int /\ from <= whole
  BY <1>3, <1>2
<1>5. Bucket(whole, M) = whole
  <2>1. CASE Bucket(from, M) < from
    <3>1. PICK q \in Int : Bucket(from, M) = q * M
      BY BucketHolds
    <3>2. (q + 1) * M = q * M + M /\ (q + 1) * M \in Int
      BY <1>2, <3>1
    <3>3. PICK w \in Int : w = whole
      BY <1>4
    <3>4. w = (q + 1) * M /\ (q + 1) * M <= w /\ w < (q + 1) * M + M
      BY <1>2, <2>1, <3>1, <3>2, <3>3
    <3>5. q + 1 \in Int
      OBVIOUS
    <3>6. Base(w, M) = (q + 1) * M
      BY <1>2, <3>3, <3>4, <3>5, FloorIsOne
    <3> QED BY <3>3, <3>4, <3>6 DEF Base, Bucket
  <2>2. CASE ~ (Bucket(from, M) < from)
    BY <1>3, <2>2
  <2> QED BY <2>1, <2>2
<1> DEFINE B == {b \in DOMAIN minute : /\ whole <= b /\ b < Bucket(now, M)
                                       /\ b \notin DirtyMinutes(to)}
<1>6. minutes = [b \in B |-> minute[b]]
  <2>1. minutes = Stored(whole, Bucket(now, M), DirtyMinutes(to))
    <3>1. minutes = QueryRollups(whole, Bucket(now, M), M, M, DirtyMinutes(to), Anything)
      BY <1>2
    <3> HIDE DEF minutes, whole, to
    <3> QED BY <1>4, <3>1, MinutesAsStored
  <2>2. B = {b \in DOMAIN minute : Bucket(whole, M) <= b /\ b < Bucket(now, M)
                                  /\ b \notin DirtyMinutes(to)}
    BY <1>5
  <2> QED BY <2>1, <2>2, Zenon DEF Stored
<1>7. ASSUME NEW b \in B
      PROVE  /\ b \in Minutes /\ b \in Nat /\ from <= b /\ b + M < to
             /\ minute[b] = Observed(b, b + M)
  <2>1. b \in DOMAIN minute /\ b \in Minutes /\ b \in Nat
    BY TypesFacts, MinuteFacts DEF IInv
  <2>2. b < Bucket(now, M) /\ Bucket(now, M) \in Minutes
    BY <1>2 DEF Minutes, Slots
  <2>3. b + M <= Bucket(now, M)
    BY <2>1, <2>2, MinutesAreApart
  <2>4. Clean(M, b)
    BY <1>2, <1>3, <2>1, <2>2 DEF DirtyMinutes, Clean
  <2> QED BY <1>2, <1>3, <1>4, <2>1, <2>3, <2>4, CleanIsObserved
<1> HIDE DEF whole, minutes, B
<1>8. ASSUME NEW t \in from .. to - 1, NEW m, m = Bucket(t, M),
             NEW start, start = (IF m > from THEN m ELSE from),
             NEW end, end = (IF m + M < to THEN m + M ELSE to)
      PROVE  At(answer, m) = Observed(start, end)
  <2>1. /\ m \in Minutes /\ m \in Nat /\ start \in Nat /\ end \in Int
        /\ m <= t /\ t < m + M /\ start <= t /\ t < end /\ m <= start /\ end <= m + M
        /\ from <= start /\ end <= to /\ Bucket(from, M) <= m
    BY <1>2, <1>8, PartOfMinute
  <2>2. CASE m \in B
    <3>1. start = m /\ end = m + M /\ minute[m] = Observed(m, m + M)
      BY <1>2, <1>7, <1>8, <2>1, <2>2
    <3>2. m \in DOMAIN minutes /\ minutes[m] = minute[m]
      BY <1>6, <2>2
    <3> QED BY <3>1, <3>2 DEF At
  <2>3. CASE m \notin B
    <3>1. m \in stretch
      BY <1>2, <1>6, <2>1, <2>3
    <3>2. piece[m] = QueryRaw(start, end, M, Anything)
      BY <1>8, <3>1
    <3> DEFINE found == QueryRaw(start, end, M, Anything)
    <3>3. Allows(Anything, m)
      <4>1. Bucket(m, M) = m /\ m \in Slots
        BY <2>1, MinuteFacts
      <4> QED BY <4>1 DEF Allows, Anything
    <3>4. m + M + RawFloor > now
      BY <1>2, <2>1
    <3>5. At(found, m) = Observed(start, end)
      <4>1. start = (IF m > start THEN m ELSE start) /\ end = (IF m + M < end THEN m + M ELSE end)
        BY <1>2, <2>1
      <4>2. start < end /\ start \in Int
        BY <2>1
      <4> QED BY <2>1, <3>3, <3>4, <4>1, <4>2, RawIsExact
    <3>6. DOMAIN found \subseteq {m}
      <4>1. SUFFICES ASSUME NEW q \in DOMAIN found PROVE q = m
        OBVIOUS
      <4>2. q \in Minutes /\ q < end /\ start < q + M
        BY <2>1, <4>1, RawDomain
      <4>3. q \in Nat
        BY <4>2, MinuteFacts
      <4>4. q < m + M /\ m < q + M
        BY <1>2, <2>1, <4>2, <4>3
      <4>5. ~ (q < m) /\ ~ (m < q)
        BY <1>2, <2>1, <4>2, <4>3, <4>4, MinutesAreApart
      <4> QED BY <2>1, <4>3, <4>5
    <3>7. found = [p \in DOMAIN found |-> found[p]]
      BY DEF QueryRaw
    <3> HIDE DEF found
    <3>8. DOMAIN found = {} => found = NoPoints
      BY <3>7 DEF NoPoints
    <3>9. DOMAIN NoPoints = {}
      BY DEF NoPoints
    <3>10. m \notin DOMAIN minutes
      BY <1>6, <2>3
    <3>11. piece[m] = found
      BY <3>2 DEF found
    <3> HIDE DEF piece, stretch
    <3>12. CASE found = NoPoints
      <4>1. m \notin DOMAIN answer
        BY <3>10, <3>11, <3>12
      <4>2. At(answer, m) = Zero
        BY <4>1 DEF At
      <4>3. At(found, m) = Zero
        BY <3>9, <3>12 DEF At
      <4> QED BY <3>5, <4>2, <4>3
    <3>13. CASE found # NoPoints
      <4>1. m \in DOMAIN found
        BY <3>6, <3>8, <3>13
      <4>2. m \in DOMAIN answer /\ answer[m] = found[m]
        BY <3>1, <3>10, <3>11, <3>13
      <4> HIDE DEF answer
      <4> QED BY <3>5, <4>1, <4>2 DEF At
    <3> QED BY <3>12, <3>13
  <2> QED BY <2>2, <2>3
<1> HIDE DEF answer
<1> QED BY <1>1, <1>8 DEF Exact

\* The overview counts every observation of its window once, although some of its
\* minutes are dirty, being summed, or not over (overview.go:134).
THEOREM OverviewExact == Spec => []OverviewIsExact
<1>1. IInv => OverviewIsExact
  <2> SUFFICES ASSUME IInv PROVE OverviewIsExact
    OBVIOUS
  <2>1. PICK from : from = (IF now >= OverviewWindow THEN now + 1 - OverviewWindow ELSE 0)
    OBVIOUS
  <2>2. now \in Nat /\ OverviewWindow \in Nat /\ 1 <= OverviewWindow
        /\ OverviewWindow <= RawFloor /\ RawFloor \in Nat
    BY TypesFacts, OverviewAssumption, Sizes DEF IInv
  <2>3. from \in Nat /\ from <= now /\ now < from + RawFloor
    BY <2>1, <2>2
  <2> QED BY <2>1, <2>3, OverviewCounts DEF OverviewIsExact
<1> QED BY <1>1, Inductive, PTL

\* The greater of two numbers.
LEMMA MaxOfTwo ==
  ASSUME NEW a \in Int, NEW b \in Int
  PROVE  Max({a, b}) = IF a >= b THEN a ELSE b
BY DEF Max

\* A merged point is the sum of two.
LEMMA AtMerge ==
  ASSUME NEW a, NEW b, NEW p
  PROVE  At(Merge(a, b), p) = Plus(At(a, p), At(b, p))
<1>1. CASE p \in DOMAIN a \cup DOMAIN b
  BY <1>1 DEF Merge, At
<1>2. CASE p \notin DOMAIN a \cup DOMAIN b
  <2>1. At(Merge(a, b), p) = Zero /\ At(a, p) = Zero /\ At(b, p) = Zero
    BY <1>2 DEF Merge, At
  <2> QED BY <2>1, CountsFacts
<1> QED BY <1>1, <1>2

\* overlayDirty of a series of minutes: a minute that is dirty, and the one that
\* is not over, is answered from the raw rows, and the others as they were.
LEMMA MinutesOverlaid ==
  ASSUME IInv, NEW from \in Minutes, from <= now, NEW result, NEW m \in Minutes,
         from <= m, m <= now
  PROVE  At(OverlayDirty(from, now + 1, M, M, result), m)
           = IF ~ Clean(M, m) \/ m = Bucket(now, M) THEN Observed(m, m + M) ELSE At(result, m)
<1> DEFINE to == now + 1
           current(unit, since) == {b \in {Bucket(now, unit)} : since <= b /\ b < to}
           marked == {d \in dirty : d[1] <= M /\ d[2] < to}
           replace == current(M, from)
                        \cup {b \in {Bucket(d[2], M) : d \in marked} : from - M <= b}
           dirtyMinutes == current(M, from - M) \cup DirtyMinutes(to)
           affected == {Bucket(b, M) : b \in replace}
           start == Min(affected)
           end == Max(affected) + M
           clean == QueryRollups(start, end, M, M, replace, Anything)
           finer == IF M = H
                      THEN QueryRollups(start, end, M, M, dirtyMinutes, replace) ELSE NoPoints
           rows == QueryRaw(start, end, M, dirtyMinutes)
           rebuilt == IF dirtyMinutes = {} THEN Merge(clean, finer)
                      ELSE Merge(Merge(clean, finer), rows)
           overlaid == [p \in (DOMAIN result \ affected) \cup (affected \cap DOMAIN rebuilt) |->
                          IF p \in affected THEN rebuilt[p] ELSE result[p]]
<1>1. OverlayDirty(from, to, M, M, result) = IF replace = {} THEN result ELSE overlaid
  BY DEF OverlayDirty
<1>2. now \in Nat /\ now <= MaxTime /\ to \in Nat /\ now < to /\ M \in Nat /\ M > 0 /\ H \in Nat
      /\ M < H /\ from \in Nat /\ m \in Nat /\ now \in Slots /\ MaxTime \in Nat
  BY TypesFacts, Sizes, MinuteFacts DEF IInv, Slots
<1>3. PICK c : c = Bucket(now, M)
  OBVIOUS
<1>4. c \in Minutes /\ c \in Nat /\ c <= now /\ now < c + M /\ from <= c
  <2>1. c \in Minutes /\ c <= now /\ now < c + M
    BY <1>2, <1>3, BucketHolds DEF Minutes
  <2>2. Bucket(from, M) = from
    BY MinuteFacts
  <2>3. from <= c
    BY <1>2, <1>3, <2>2, BucketsOrdered
  <2> QED BY <2>1, <2>3, MinuteFacts
<1>5. current(M, from) = {c} /\ current(M, from - M) = {c}
  BY <1>2, <1>3, <1>4
<1>6. ASSUME NEW d \in marked PROVE d[2] \in Minutes /\ d = <<M, d[2]>> /\ d[2] < to
  <2>1. d \in ({M} \X Minutes) \cup ({H} \X Hours)
    BY <1>6 DEF IInv, Types, TypeOK
  <2>2. d[1] # H
    BY <1>2, <1>6
  <2> QED BY <1>6, <2>1, <2>2
<1>7. \A b : b \in replace <=> b = c \/ (b \in Minutes /\ ~ Clean(M, b) /\ b < to /\ from - M <= b)
  <2>1. ASSUME NEW b \in Minutes, ~ Clean(M, b), b < to, from - M <= b PROVE b \in replace
    <3>1. <<M, b>> \in marked
      BY <1>2, <2>1 DEF Clean
    <3>2. Bucket(b, M) = b /\ <<M, b>>[2] = b
      BY <2>1, MinuteFacts
    <3>3. b \in {Bucket(d[2], M) : d \in marked}
      BY <3>1, <3>2
    <3> QED BY <2>1, <3>3
  <2>2. ASSUME NEW b \in replace, b # c
        PROVE  b \in Minutes /\ ~ Clean(M, b) /\ b < to /\ from - M <= b
    <3>1. b \in {Bucket(d[2], M) : d \in marked} /\ from - M <= b
      BY <1>5, <2>2
    <3>2. PICK d \in marked : b = Bucket(d[2], M)
      BY <3>1
    <3>3. d[2] \in Minutes /\ d = <<M, d[2]>> /\ d[2] < to
      BY <1>6, <3>2
    <3>4. b = d[2]
      BY <3>2, <3>3, MinuteFacts
    <3>5. d \in dirty
      BY <3>2
    <3> QED BY <3>1, <3>3, <3>4, <3>5 DEF Clean
  <2>3. c \in replace
    BY <1>5
  <2> QED BY <2>1, <2>2, <2>3
<1>8. \A b : b \in replace => b \in Minutes /\ b < to /\ b \in dirtyMinutes
  BY <1>2, <1>4, <1>5, <1>7 DEF DirtyMinutes, Clean
<1>9. c \in replace
  BY <1>7
<1> HIDE DEF replace, marked
<1>10. affected = replace
  BY <1>8, MinuteFacts
<1>11. /\ start \in replace /\ start \in Nat /\ \A b \in replace : start <= b
       /\ end \in Nat /\ \A b \in replace : b + M <= end
  <2>1. affected \in SUBSET Nat /\ affected # {} /\ \A b \in affected : b <= MaxTime
    <3>1. ASSUME NEW b \in replace PROVE b \in Nat /\ b <= MaxTime
      <4>1. b \in Nat /\ b < to
        BY <1>8, <3>1, MinuteFacts
      <4> QED BY <1>2, <4>1
    <3> QED BY <1>9, <1>10, <3>1
  <2> HIDE DEF affected
  <2>2. Min(affected) \in affected /\ \A b \in affected : Min(affected) <= b
    BY <2>1, LeastIs
  <2>3. Max(affected) \in affected /\ \A b \in affected : b <= Max(affected)
    BY <1>2, <2>1, GreatestIs
  <2>4. start \in replace /\ start \in Nat /\ \A b \in replace : start <= b
    BY <1>10, <2>1, <2>2
  <2>5. Max(affected) \in Nat
    BY <2>1, <2>3
  <2>6. end \in Nat
    BY <1>2, <2>5
  <2>7. ASSUME NEW b \in replace PROVE b + M <= end
    BY <1>2, <1>10, <2>1, <2>3, <2>5
  <2> QED BY <2>4, <2>6, <2>7
<1>12. m \in replace <=> ~ Clean(M, m) \/ m = c
  BY <1>2, <1>7
<1>13. CASE m \in replace
  <2>1. At(rows, m) = Observed(m, m + M) /\ At(rows, m) \in Counts
    <3>1. Allows(dirtyMinutes, m)
      BY <1>8, <1>13, MinuteFacts DEF Allows
    <3>2. ~ Clean(M, m) \/ m + M + RawFloor > now
      BY <1>2, <1>4, <1>12, <1>13, Sizes
    <3>3. m = (IF m > start THEN m ELSE start) /\ m + M = (IF m + M < end THEN m + M ELSE end)
          /\ m < m + M /\ m + M \in Int
      BY <1>2, <1>11, <1>13
    <3>4. start \in Int /\ end \in Int /\ m \in Int
      BY <1>2, <1>11
    <3> HIDE DEF start, end, dirtyMinutes
    <3>5. At(rows, m) = Observed(m, m + M)
      BY <3>1, <3>2, <3>3, <3>4, RawIsExact
    <3>6. Observed(m, m + M) \in Counts
      BY <3>3, <3>4, ObservedFacts
    <3> QED BY <3>5, <3>6
  <2>2. At(clean, m) = Zero
    <3>1. start \in Int
      BY <1>11
    <3> HIDE DEF start, end
    <3>2. clean = Stored(start, end, replace)
      BY <3>1, MinutesAsStored
    <3>3. m \notin DOMAIN clean
      BY <1>13, <3>2 DEF Stored
    <3> QED BY <3>3 DEF At
  <2>3. finer = NoPoints /\ At(NoPoints, m) = Zero
    BY <1>2 DEF NoPoints, At
  <2>4. dirtyMinutes # {}
    BY <1>5
  <2>5. rebuilt = Merge(Merge(clean, finer), rows)
    BY <2>4
  <2> HIDE DEF clean, finer, rows, rebuilt, dirtyMinutes
  <2>6. At(Merge(clean, finer), m) = Zero
    <3>1. At(Merge(clean, finer), m) = Plus(Zero, Zero)
      BY <2>2, <2>3, AtMerge
    <3> QED BY <3>1, CountsFacts
  <2>7. At(rebuilt, m) = Plus(Zero, At(rows, m))
    BY <2>5, <2>6, AtMerge
  <2>8. At(rebuilt, m) = Observed(m, m + M)
    BY <2>1, <2>7, CountsFacts
  <2>9. At(overlaid, m) = At(rebuilt, m)
    BY <1>10, <1>13 DEF At
  <2> QED BY <1>1, <1>3, <1>9, <1>12, <1>13, <2>8, <2>9
<1>14. CASE m \notin replace
  <2>1. At(overlaid, m) = At(result, m)
    BY <1>10, <1>14 DEF At
  <2> QED BY <1>1, <1>3, <1>9, <1>12, <1>14, <2>1
<1> QED BY <1>13, <1>14

\* Minutes are asked for by the minute.
LEMMA MinutesPlanned ==
  ASSUME NEW from, Start(M) <= from
  PROVE  PlanSeriesResolution(M, from) = <<M, M>>
<1>1. M \in Nat /\ M > 0 /\ H \in Nat /\ M < H
  BY Sizes
<1>2. RoundWidth(M, M) = M
  <2>1. PICK a \in Nat : a = M + M - 1
    BY <1>1
  <2>2. PICK q : q = a \div M
    OBVIOUS
  <2>3. q \in Nat /\ \A k \in Nat : k * M <= a <=> k <= q
    <3>1. 0 \in Nat
      OBVIOUS
    <3> QED BY <1>1, <2>2, <3>1, RoundDown
  <2>4. 1 * M = M /\ 2 * M = M + M
    BY <1>1
  <2>5. 1 <= q /\ ~ (2 <= q)
    BY <1>1, <2>1, <2>3, <2>4
  <2>6. q = 1
    BY <2>3, <2>5
  <2> QED BY <2>1, <2>2, <2>4, <2>6 DEF RoundWidth
<1> QED BY <1>1, <1>2 DEF PlanSeriesResolution

\* A minute of the last month in which nothing is summed was not seen, or is dirty.
LEMMA RecentIsSummed ==
  ASSUME IInv, NEW m \in Minutes, Bucket(now - Month, H) <= m, Clean(M, m), m \notin DOMAIN minute
  PROVE  ~ Seen(m)
<1>1. now \in Nat /\ Month \in Nat /\ H \in Nat /\ H > 0 /\ m \in Nat /\ Bucket(m, H) \in Nat
  BY TypesFacts, Sizes, MinuteFacts DEF IInv
<1>2. PICK t \in Int : t = now - Month
  BY <1>1
<1>3. PICK h \in Int : h = Bucket(t, H)
  BY BucketHolds
<1>4. h <= t /\ t < h + H
  BY <1>3, BucketHolds
<1>5. Bucket(h, H) = h
  BY <1>1, <1>3, <1>4, BucketStarts
<1>6. h <= Bucket(m, H)
  BY <1>1, <1>2, <1>3, <1>5, BucketsOrdered
<1>7. ~ (Bucket(m, H) + H + Month <= now)
  BY <1>1, <1>2, <1>3, <1>4, <1>6
<1> QED BY <1>7 DEF IInv, Kept

\* From the start of a minute it answers with all that follow.
LEMMA MinutesFrom ==
  ASSUME IInv, NEW from \in Minutes, NEW to
  PROVE  QueryRollups(from, to, M, M, {}, Anything)
           = [m \in {b \in DOMAIN minute : from <= b /\ b < to} |-> minute[m]]
<1>1. from \in Int /\ Bucket(from, M) = from
  BY MinuteFacts
<1>2. QueryRollups(from, to, M, M, {}, Anything) = Stored(from, to, {})
  BY <1>1, MinutesAsStored
<1>3. {b \in DOMAIN minute : Bucket(from, M) <= b /\ b < to /\ b \notin {}}
        = {b \in DOMAIN minute : from <= b /\ b < to}
  BY <1>1
<1> QED BY <1>2, <1>3 DEF Stored

\* What a series of minutes answers.
LEMMA MinuteSeriesCounts ==
  ASSUME IInv, NEW from \in Minutes, Start(M) <= from, Bucket(now - Month, H) <= from, from <= now
  PROVE  Exact(PingSeries(M, from, now + 1), M, from, now + 1)
<1> DEFINE to == now + 1
           result == QueryRollups(from, to, M, M, {}, Anything)
<1>1. now \in Nat /\ now <= MaxTime /\ to \in Nat /\ to - 1 = now /\ M \in Nat /\ M > 0
      /\ MaxTime \in Nat /\ Month \in Nat
  BY TypesFacts, Sizes DEF IInv
<1>2. from \in Nat /\ from \in Int /\ Bucket(from, M) = from
  BY MinuteFacts
<1>3. Bucket(now - Month, H) \in Int
  BY <1>1, BucketHolds
<1>4. PingSeries(M, from, to) = OverlayDirty(from, to, M, M, result)
  <2>1. PlanSeriesResolution(M, from) = <<M, M>>
    BY MinutesPlanned
  <2>2. M # 0
    BY <1>1
  <2> QED BY <2>1, <2>2 DEF PingSeries
<1>5. result = [m \in {b \in DOMAIN minute : from <= b /\ b < to} |-> minute[m]]
  BY MinutesFrom
<1> HIDE DEF result
<1>6. ASSUME NEW t \in from .. to - 1, NEW m, m = Bucket(t, M),
             NEW start, start = (IF m > from THEN m ELSE from),
             NEW end, end = (IF m + M < to THEN m + M ELSE to)
      PROVE  At(PingSeries(M, from, to), m) = Observed(start, end)
  <2>1. /\ m \in Minutes /\ m \in Nat /\ m <= t /\ t < m + M /\ t <= now /\ Bucket(from, M) <= m
    BY <1>1, <1>2, <1>6, PartOfMinute
  <2>2. from <= m /\ start = m
    BY <1>2, <1>6, <2>1
  <2>3. t \in Int /\ m <= now
    BY <1>1, <1>6, <2>1
  <2>4. Observed(start, end) = Observed(m, m + M)
    <3>1. CASE m + M < to
      BY <1>6, <2>2, <3>1
    <3>2. CASE ~ (m + M < to)
      <4>1. end = to
        BY <1>6, <3>2
      <4>2. m + M = to \/ m + M > now
        BY <1>1, <2>1, <3>2
      <4>3. m \in Int /\ m + M \in Int
        BY <1>1, <2>1
      <4>4. m + M > now => Observed(m, m + M) = Observed(m, now + 1)
        BY <4>3, ObservedFacts
      <4> QED BY <2>2, <4>1, <4>2, <4>4
    <3> QED BY <3>1, <3>2
  <2>5. At(PingSeries(M, from, to), m)
          = IF ~ Clean(M, m) \/ m = Bucket(now, M) THEN Observed(m, m + M) ELSE At(result, m)
    BY <1>4, <2>1, <2>2, <2>3, MinutesOverlaid
  <2>6. CASE ~ Clean(M, m) \/ m = Bucket(now, M)
    BY <2>4, <2>5, <2>6
  <2>7. CASE Clean(M, m) /\ m # Bucket(now, M) /\ m \in DOMAIN minute
    <3>1. minute[m] = Observed(m, m + M)
      BY <2>7, CleanIsObserved
    <3>2. m \in DOMAIN result /\ result[m] = minute[m]
      <4>1. m < to
        BY <1>1, <2>1, <2>3
      <4>2. m \in {b \in DOMAIN minute : from <= b /\ b < to}
        BY <2>2, <2>7, <4>1
      <4> HIDE DEF to
      <4> QED BY <1>5, <4>2
    <3> QED BY <2>4, <2>5, <2>7, <3>1, <3>2 DEF At
  <2>8. CASE Clean(M, m) /\ m # Bucket(now, M) /\ m \notin DOMAIN minute
    <3>1. Bucket(now - Month, H) <= m
      BY <1>2, <1>3, <2>1, <2>2
    <3>2. ~ Seen(m)
      BY <2>1, <2>8, <3>1, RecentIsSummed
    <3>3. m \in Int /\ m + M \in Int /\ m <= m /\ m + M <= m + M
      BY <1>1, <2>1
    <3>4. Observed(m, m + M) = Zero
      BY <2>1, <3>2, <3>3, UnseenIsZero
    <3>5. m \notin DOMAIN result
      BY <1>5, <2>8
    <3> QED BY <2>4, <2>5, <2>8, <3>4, <3>5 DEF At
  <2> QED BY <2>6, <2>7, <2>8
<1> QED BY <1>6 DEF Exact

\* Where it starts.
LEMMA SeriesStart ==
  ASSUME IInv, NEW from, from = Max({Start(M), Bucket(now - Month, H)}), from <= now
  PROVE  from \in Minutes /\ Start(M) <= from /\ Bucket(now - Month, H) <= from
<1>1. now \in Nat /\ now <= MaxTime /\ MaxTime \in Nat /\ Month \in Nat
  BY TypesFacts, Sizes DEF IInv
<1>2. Start(M) \in Nat /\ (Start(M) \in DOMAIN minute \/ Start(M) = MaxTime + 1)
  <2>1. PICK S : S = DOMAIN minute \cup {MaxTime + 1}
    OBVIOUS
  <2>2. S \in SUBSET Nat /\ S # {}
    <3>1. \A m \in DOMAIN minute : m \in Nat
      BY TypesFacts, MinuteFacts DEF IInv
    <3> QED BY <1>1, <2>1, <3>1
  <2>3. Start(M) = Min(S)
    BY <1>1, <2>1, Sizes DEF Start, Table
  <2>4. Min(S) \in S
    BY <2>2, LeastIs
  <2> QED BY <2>1, <2>2, <2>3, <2>4
<1>3. PICK h \in Int : h = Bucket(now - Month, H)
  BY <1>1, BucketHolds
<1>4. from = IF Start(M) >= h THEN Start(M) ELSE h
  <2>1. Start(M) \in Int
    BY <1>2
  <2> QED BY <1>3, <2>1, MaxOfTwo
<1>5. from \in Nat /\ Start(M) <= from /\ h <= from
  BY <1>2, <1>3, <1>4
<1>6. from \in Minutes
  <2>1. CASE from = h
    <3>1. Bucket(from, M) = from
      BY <1>1, <1>3, <2>1, HourIsMinute
    <3>2. from \in Slots
      BY <1>1, <1>5 DEF Slots
    <3> QED BY <3>1, <3>2 DEF Minutes
  <2>2. CASE from # h
    <3>1. from \in DOMAIN minute
      BY <1>1, <1>2, <1>4, <2>2
    <3> QED BY <3>1, TypesFacts DEF IInv
  <2> QED BY <2>1, <2>2
<1> QED BY <1>3, <1>5, <1>6

\* A series of minutes counts every observation once, from the first minute there
\* is or the start of the month that is kept, however old the dirty minutes are
\* (query.go:530).
THEOREM MinuteSeriesExact == Spec => []MinuteSeriesIsExact
<1>1. IInv => MinuteSeriesIsExact
  BY SeriesStart, MinuteSeriesCounts DEF MinuteSeriesIsExact
<1> QED BY <1>1, Inductive, PTL
-----------------------------------------------------------------------------
(* The event bus.                                                          *)

Holding == {"granted", "reserved", "releasing"}

\* The part of the bound on events that a step needs to stay within it.
RoomToPublish ==
  \A p \in Producers :
    pc[p] \in {"waiting", "granted", "reserved"} => published[p] < MaxEvents

BusInv == BusTypeOK /\ SlotAccounting /\ RoomToPublish

\* The number of slot holders is a natural number.
LEMMA HoldersFinite ==
  /\ IsFiniteSet(SlotHolders)
  /\ Cardinality(SlotHolders) \in Nat
BY FS_Subset, FS_CardinalityType, ProducersAssumption DEF SlotHolders

\* What a step of one producer does to the number of slot holders.
LEMMA HoldersChange ==
  ASSUME pc \in [Producers -> ProducerStates], NEW p \in Producers,
         NEW from, NEW to, Goto(p, from, to)
  PROVE  /\ (from \in Holding <=> to \in Holding)
              => Cardinality(SlotHolders)' = Cardinality(SlotHolders)
         /\ from \notin Holding /\ to \in Holding
              => Cardinality(SlotHolders)' = Cardinality(SlotHolders) + 1
         /\ from \in Holding /\ to \notin Holding
              => Cardinality(SlotHolders)' = Cardinality(SlotHolders) - 1
<1>1. (from \in Holding <=> to \in Holding)
        => Cardinality(SlotHolders)' = Cardinality(SlotHolders)
  BY DEF SlotHolders, Goto, Holding
<1>2. ASSUME from \notin Holding, to \in Holding
      PROVE  Cardinality(SlotHolders)' = Cardinality(SlotHolders) + 1
  <2>1. p \notin SlotHolders /\ SlotHolders' = SlotHolders \cup {p}
    BY <1>2 DEF SlotHolders, Goto, Holding
  <2> QED BY <2>1, HoldersFinite, FS_AddElement
<1>3. ASSUME from \in Holding, to \notin Holding
      PROVE  Cardinality(SlotHolders)' = Cardinality(SlotHolders) - 1
  <2>1. p \in SlotHolders /\ SlotHolders' = SlotHolders \ {p}
    BY <1>3 DEF SlotHolders, Goto, Holding
  <2> QED BY <2>1, HoldersFinite, FS_RemoveElement
<1> QED BY <1>1, <1>2, <1>3

\* Types, the slots' accounting and the bound hold initially.
LEMMA BusInitInv == BusInit => BusInv
<1> SUFFICES ASSUME BusInit PROVE BusInv
  OBVIOUS
<1>1. BusTypeOK
  <2>1. slots \in 0 .. Capacity /\ depth \in Int
    BY CapacityAssumption DEF BusInit
  <2>2. queue \in Seq(Events) /\ delivered \in Seq(Events)
    BY DEF BusInit
  <2>3. published \in [Producers -> 0 .. MaxEvents]
    BY EventsAssumption DEF BusInit
  <2>4. /\ pc \in [Producers -> ProducerStates]
        /\ wpc \in WriterStates
    BY DEF BusInit, ProducerStates, WriterStates
  <2>5. /\ closed \in BOOLEAN
        /\ cancelled \subseteq {"producer", "writer"}
        /\ hand \in Events \cup {<<>>}
    BY DEF BusInit
  <2> QED BY <2>1, <2>2, <2>3, <2>4, <2>5 DEF BusTypeOK
<1>2. SlotHolders = {}
  BY DEF BusInit, SlotHolders
<1>3. SlotAccounting
  BY <1>2, FS_EmptySet DEF BusInit, SlotAccounting, WriterHolds
<1>4. RoomToPublish
  BY DEF BusInit, RoomToPublish
<1> QED BY <1>1, <1>3, <1>4 DEF BusInv
\* Every step of a producer, of the writer and of the owner preserves it.
LEMMA BusStepInv == BusInv /\ [BusNext]_busVars => BusInv'
<1> SUFFICES ASSUME BusInv, [BusNext]_busVars PROVE BusInv'
  OBVIOUS
<1> USE DEF BusInv
<1>0. /\ Cardinality(SlotHolders) \in Nat
      /\ Len(queue) \in Nat
      /\ Capacity \in Nat \ {0}
  BY HoldersFinite, CapacityAssumption DEF BusTypeOK
<1>1. ASSUME NEW p \in Producers, CallReserve(p) PROVE BusInv'
  <2>1. Goto(p, "idle", "waiting")
    BY <1>1 DEF CallReserve
  <2>2. BusTypeOK'
    BY <1>1, <1>0 DEF CallReserve, Goto, BusTypeOK, ProducerStates, RoomToPublish
  <2>3. Cardinality(SlotHolders)' = Cardinality(SlotHolders)
    BY <2>1, HoldersChange, SMTT(30) DEF BusTypeOK, Holding
  <2>4. SlotAccounting'
    BY <1>1, <1>0, <2>3 DEF CallReserve, BusTypeOK, SlotAccounting, WriterHolds
  <2>5. RoomToPublish'
    BY <1>1 DEF CallReserve, Goto, BusTypeOK, RoomToPublish
  <2> QED BY <2>2, <2>4, <2>5
<1>2. ASSUME NEW p \in Producers, AcquireSlot(p) PROVE BusInv'
  <2>1. Goto(p, "waiting", "granted")
    BY <1>2 DEF AcquireSlot
  <2>2. BusTypeOK'
    BY <1>2, <1>0 DEF AcquireSlot, Goto, BusTypeOK, ProducerStates, RoomToPublish
  <2>3. Cardinality(SlotHolders)' = Cardinality(SlotHolders) + 1
    BY <2>1, HoldersChange, SMTT(30) DEF BusTypeOK, Holding
  <2>4. SlotAccounting'
    BY <1>2, <1>0, <2>3, SMTT(30) DEF AcquireSlot, BusTypeOK, SlotAccounting, WriterHolds
  <2>5. RoomToPublish'
    BY <1>2 DEF AcquireSlot, Goto, BusTypeOK, RoomToPublish
  <2> QED BY <2>2, <2>4, <2>5
<1>3. ASSUME NEW p \in Producers, ReserveRefused(p) PROVE BusInv'
  <2>1. Goto(p, "waiting", "idle")
    BY <1>3 DEF ReserveRefused
  <2>2. BusTypeOK'
    BY <1>3, <1>0 DEF ReserveRefused, Goto, BusTypeOK, ProducerStates, RoomToPublish
  <2>3. Cardinality(SlotHolders)' = Cardinality(SlotHolders)
    BY <2>1, HoldersChange, SMTT(30) DEF BusTypeOK, Holding
  <2>4. SlotAccounting'
    BY <1>3, <1>0, <2>3 DEF ReserveRefused, BusTypeOK, SlotAccounting, WriterHolds
  <2>5. RoomToPublish'
    BY <1>3 DEF ReserveRefused, Goto, BusTypeOK, RoomToPublish
  <2> QED BY <2>2, <2>4, <2>5
<1>4. ASSUME NEW p \in Producers, Recheck(p) PROVE BusInv'
  <2>1. Goto(p, "granted", IF closed THEN "releasing" ELSE "reserved")
    BY <1>4 DEF Recheck
  <2>2. BusTypeOK'
    BY <1>4, <1>0 DEF Recheck, Goto, BusTypeOK, ProducerStates, RoomToPublish
  <2>3. Cardinality(SlotHolders)' = Cardinality(SlotHolders)
    BY <2>1, HoldersChange, SMTT(30) DEF BusTypeOK, Holding
  <2>4. SlotAccounting'
    BY <1>4, <1>0, <2>3 DEF Recheck, BusTypeOK, SlotAccounting, WriterHolds
  <2>5. RoomToPublish'
    BY <1>4 DEF Recheck, Goto, BusTypeOK, RoomToPublish
  <2> QED BY <2>2, <2>4, <2>5
<1>5. ASSUME NEW p \in Producers, Enqueue(p) PROVE BusInv'
  <2>1. Goto(p, "reserved", "queued")
    BY <1>5 DEF Enqueue
  <2>2. BusTypeOK'
    <3>1. published[p] + 1 \in 1 .. MaxEvents
      BY <1>5, EventsAssumption DEF Enqueue, Goto, BusTypeOK, RoomToPublish
    <3>2. queue' \in Seq(Events)
      BY <1>5, <3>1 DEF Enqueue, BusTypeOK, Events
    <3>3. published' \in [Producers -> 0 .. MaxEvents]
      BY <1>5, <3>1, EventsAssumption DEF Enqueue, BusTypeOK
    <3> QED BY <1>5, <3>2, <3>3 DEF Enqueue, Goto, BusTypeOK, ProducerStates
  <2>3. Cardinality(SlotHolders)' = Cardinality(SlotHolders) - 1
    BY <2>1, HoldersChange, SMTT(30) DEF BusTypeOK, Holding
  <2>4. SlotAccounting'
    BY <1>5, <1>0, <2>3 DEF Enqueue, BusTypeOK, SlotAccounting, WriterHolds
  <2>5. RoomToPublish'
    BY <1>5 DEF Enqueue, Goto, BusTypeOK, RoomToPublish
  <2> QED BY <2>2, <2>4, <2>5
<1>6. ASSUME NEW p \in Producers, CountIn(p) PROVE BusInv'
  <2>1. Goto(p, "queued", "idle")
    BY <1>6 DEF CountIn
  <2>2. BusTypeOK'
    BY <1>6, <1>0 DEF CountIn, Goto, BusTypeOK, ProducerStates, RoomToPublish
  <2>3. Cardinality(SlotHolders)' = Cardinality(SlotHolders)
    BY <2>1, HoldersChange, SMTT(30) DEF BusTypeOK, Holding
  <2>4. SlotAccounting'
    BY <1>6, <1>0, <2>3 DEF CountIn, BusTypeOK, SlotAccounting, WriterHolds
  <2>5. RoomToPublish'
    BY <1>6 DEF CountIn, Goto, BusTypeOK, RoomToPublish
  <2> QED BY <2>2, <2>4, <2>5
<1>7. ASSUME NEW p \in Producers, PublishRefused(p) PROVE BusInv'
  <2>1. Goto(p, "reserved", "releasing")
    BY <1>7 DEF PublishRefused
  <2>2. BusTypeOK'
    BY <1>7, <1>0 DEF PublishRefused, Goto, BusTypeOK, ProducerStates, RoomToPublish
  <2>3. Cardinality(SlotHolders)' = Cardinality(SlotHolders)
    BY <2>1, HoldersChange, SMTT(30) DEF BusTypeOK, Holding
  <2>4. SlotAccounting'
    BY <1>7, <1>0, <2>3 DEF PublishRefused, BusTypeOK, SlotAccounting, WriterHolds
  <2>5. RoomToPublish'
    BY <1>7 DEF PublishRefused, Goto, BusTypeOK, RoomToPublish
  <2> QED BY <2>2, <2>4, <2>5
<1>8. ASSUME NEW p \in Producers, Cancel(p) PROVE BusInv'
  <2>1. Goto(p, "reserved", "releasing")
    BY <1>8 DEF Cancel
  <2>2. BusTypeOK'
    BY <1>8, <1>0 DEF Cancel, Goto, BusTypeOK, ProducerStates, RoomToPublish
  <2>3. Cardinality(SlotHolders)' = Cardinality(SlotHolders)
    BY <2>1, HoldersChange, SMTT(30) DEF BusTypeOK, Holding
  <2>4. SlotAccounting'
    BY <1>8, <1>0, <2>3 DEF Cancel, BusTypeOK, SlotAccounting, WriterHolds
  <2>5. RoomToPublish'
    BY <1>8 DEF Cancel, Goto, BusTypeOK, RoomToPublish
  <2> QED BY <2>2, <2>4, <2>5
<1>9. ASSUME NEW p \in Producers, ReleaseSlot(p) PROVE BusInv'
  <2>1. Goto(p, "releasing", "idle")
    BY <1>9 DEF ReleaseSlot
  <2>2. BusTypeOK'
    BY <1>9, <1>0 DEF ReleaseSlot, Goto, BusTypeOK, ProducerStates, RoomToPublish
  <2>3. Cardinality(SlotHolders)' = Cardinality(SlotHolders) - 1
    BY <2>1, HoldersChange, SMTT(30) DEF BusTypeOK, Holding
  <2>4. SlotAccounting'
    BY <1>9, <1>0, <2>3, SMTT(30) DEF ReleaseSlot, BusTypeOK, SlotAccounting, WriterHolds
  <2>5. RoomToPublish'
    BY <1>9 DEF ReleaseSlot, Goto, BusTypeOK, RoomToPublish
  <2> QED BY <2>2, <2>4, <2>5
<1>10. ASSUME NEW p \in Producers, Exit(p) PROVE BusInv'
  <2>1. Goto(p, "idle", "exited")
    BY <1>10 DEF Exit
  <2>2. BusTypeOK'
    BY <1>10, <1>0 DEF Exit, Goto, BusTypeOK, ProducerStates, RoomToPublish
  <2>3. Cardinality(SlotHolders)' = Cardinality(SlotHolders)
    BY <2>1, HoldersChange, SMTT(30) DEF BusTypeOK, Holding
  <2>4. SlotAccounting'
    BY <1>10, <1>0, <2>3 DEF Exit, BusTypeOK, SlotAccounting, WriterHolds
  <2>5. RoomToPublish'
    BY <1>10 DEF Exit, Goto, BusTypeOK, RoomToPublish
  <2> QED BY <2>2, <2>4, <2>5
<1>11. CASE Receive
  <2>1. SlotHolders' = SlotHolders
    BY <1>11 DEF Receive, SlotHolders
  <2>2. BusTypeOK'
    BY <1>11, <1>0 DEF Receive, BusTypeOK, WriterStates
  <2>3. SlotAccounting'
    BY <1>11, <1>0, <2>1 DEF Receive, BusTypeOK, SlotAccounting, WriterHolds
  <2>4. RoomToPublish'
    BY <1>11 DEF Receive, RoomToPublish
  <2> QED BY <2>2, <2>3, <2>4
<1>12. CASE CountOut
  <2>1. SlotHolders' = SlotHolders
    BY <1>12 DEF CountOut, SlotHolders
  <2>2. BusTypeOK'
    BY <1>12, <1>0 DEF CountOut, BusTypeOK, WriterStates
  <2>3. SlotAccounting'
    BY <1>12, <1>0, <2>1 DEF CountOut, BusTypeOK, SlotAccounting, WriterHolds
  <2>4. RoomToPublish'
    BY <1>12 DEF CountOut, RoomToPublish
  <2> QED BY <2>2, <2>3, <2>4
<1>13. CASE ReturnEvent
  <2>1. SlotHolders' = SlotHolders
    BY <1>13 DEF ReturnEvent, SlotHolders
  <2>2. BusTypeOK'
    BY <1>13, <1>0 DEF ReturnEvent, BusTypeOK, WriterStates
  <2>3. SlotAccounting'
    BY <1>13, <1>0, <2>1 DEF ReturnEvent, BusTypeOK, SlotAccounting, WriterHolds
  <2>4. RoomToPublish'
    BY <1>13 DEF ReturnEvent, RoomToPublish
  <2> QED BY <2>2, <2>3, <2>4
<1>14. CASE ReturnClosed
  <2>1. SlotHolders' = SlotHolders
    BY <1>14 DEF ReturnClosed, SlotHolders
  <2>2. BusTypeOK'
    BY <1>14, <1>0 DEF ReturnClosed, BusTypeOK, WriterStates
  <2>3. SlotAccounting'
    BY <1>14, <1>0, <2>1 DEF ReturnClosed, BusTypeOK, SlotAccounting, WriterHolds
  <2>4. RoomToPublish'
    BY <1>14 DEF ReturnClosed, RoomToPublish
  <2> QED BY <2>2, <2>3, <2>4
<1>15. CASE ReturnCancelled
  <2>1. SlotHolders' = SlotHolders
    BY <1>15 DEF ReturnCancelled, SlotHolders
  <2>2. BusTypeOK'
    BY <1>15, <1>0 DEF ReturnCancelled, BusTypeOK, WriterStates
  <2>3. SlotAccounting'
    BY <1>15, <1>0, <2>1 DEF ReturnCancelled, BusTypeOK, SlotAccounting, WriterHolds
  <2>4. RoomToPublish'
    BY <1>15 DEF ReturnCancelled, RoomToPublish
  <2> QED BY <2>2, <2>3, <2>4
<1>16. CASE Close
  <2>1. SlotHolders' = SlotHolders
    BY <1>16 DEF Close, SlotHolders
  <2>2. BusTypeOK'
    BY <1>16, <1>0 DEF Close, BusTypeOK, WriterStates
  <2>3. SlotAccounting'
    BY <1>16, <1>0, <2>1 DEF Close, BusTypeOK, SlotAccounting, WriterHolds
  <2>4. RoomToPublish'
    BY <1>16 DEF Close, RoomToPublish
  <2> QED BY <2>2, <2>3, <2>4
<1>17. ASSUME NEW c \in {"producer", "writer"}, CancelContext(c) PROVE BusInv'
  BY <1>17 DEF CancelContext, BusTypeOK, SlotAccounting, RoomToPublish, SlotHolders,
               WriterHolds
<1>18. CASE UNCHANGED busVars
  BY <1>18 DEF busVars, BusTypeOK, SlotAccounting, RoomToPublish, SlotHolders, WriterHolds
<1> QED
  BY <1>1, <1>2, <1>3, <1>4, <1>5, <1>6, <1>7, <1>8, <1>9, <1>10, <1>11, <1>12, <1>13, <1>14, <1>15, <1>16, <1>17, <1>18
     DEF BusNext, ProducerStep, WriterStep

\* The bus keeps the types of all its variables (see BusTypeOK).
THEOREM BusTypeCorrect == BusSpec => []BusTypeOK
<1>1. BusSpec => []BusInv
  BY BusInitInv, BusStepInv, PTL DEF BusSpec
<1>2. BusInv => BusTypeOK
  BY DEF BusInv
<1> QED BY <1>1, <1>2, PTL

\* No slot of the bus is leaked or returned twice (see SlotAccounting), for
\* every number of producers, capacity and order of closing and cancelling.
THEOREM SlotsAccounted == BusSpec => []SlotAccounting
<1>1. BusSpec => []BusInv
  BY BusInitInv, BusStepInv, PTL DEF BusSpec
<1>2. BusInv => SlotAccounting
  BY DEF BusInv
<1> QED BY <1>1, <1>2, PTL

\* One holder of a reservation is enough for the queue to have room: the slots
\* bound holders and queued events together.
LEMMA RoomForHolder == BusInv => PublishNeverBlocks
<1> SUFFICES ASSUME BusInv, NEW p \in Producers, pc[p] = "reserved"
             PROVE  Len(queue) < Capacity
  BY DEF PublishNeverBlocks
<1>1. Cardinality(SlotHolders) \in Nat \ {0}
  <2>1. p \in SlotHolders
    BY DEF SlotHolders
  <2> QED BY <2>1, HoldersFinite, FS_EmptySet
<1> QED
  BY <1>1, CapacityAssumption
     DEF BusInv, BusTypeOK, SlotAccounting, WriterHolds

\* A goroutine that holds a Reservation never blocks in Publish (see
\* PublishNeverBlocks): eventbus.go may send on queue outside any lock.
THEOREM HolderNeverBlocks == BusSpec => []PublishNeverBlocks
<1>1. BusSpec => []BusInv
  BY BusInitInv, BusStepInv, PTL DEF BusSpec
<1> QED BY <1>1, RoomForHolder, PTL
\* Each step is a step of the abstract stream or leaves its state alone.
LEMMA StepImplementsStream == BusInv /\ [BusNext]_busVars => [Stream!Next]_(Stream!vars)
<1> SUFFICES ASSUME BusInv, [BusNext]_busVars PROVE [Stream!Next]_(Stream!vars)
  OBVIOUS
<1>0. /\ Cardinality(SlotHolders) \in Nat
      /\ Len(queue) \in Nat
      /\ slots = Cardinality(SlotHolders) + Len(queue) + WriterHolds
      /\ WriterHolds \in Nat
      /\ BusTypeOK
  BY HoldersFinite DEF BusInv, BusTypeOK, SlotAccounting, WriterHolds
<1>1. ASSUME NEW p \in Producers, AcquireSlot(p) PROVE Stream!Claim
  <2>1. Goto(p, "waiting", "granted")
    BY <1>1 DEF AcquireSlot
  <2>2. Cardinality(SlotHolders)' = Cardinality(SlotHolders) + 1
    BY <2>1, HoldersChange, SMTT(30) DEF BusInv, BusTypeOK, Holding
  <2>3. Cardinality(SlotHolders) + Len(queue) < Capacity
    BY <1>0, <1>1, CapacityAssumption, SMTT(30) DEF AcquireSlot, BusTypeOK
  <2> QED BY <1>1, <2>2, <2>3 DEF AcquireSlot, Stream!Claim
<1>2. ASSUME NEW p \in Producers, Enqueue(p)
      PROVE  \E e \in Events : Stream!Accept(e)
  <2>1. Goto(p, "reserved", "queued")
    BY <1>2 DEF Enqueue
  <2>2. Cardinality(SlotHolders)' = Cardinality(SlotHolders) - 1
    BY <2>1, HoldersChange, SMTT(30) DEF BusInv, BusTypeOK, Holding
  <2>3. <<p, published[p] + 1>> \in Events
    BY <1>2, EventsAssumption
       DEF BusInv, Enqueue, Goto, BusTypeOK, RoomToPublish, Events
  <2>4. Cardinality(SlotHolders) > 0
    <3>1. p \in SlotHolders
      BY <2>1 DEF Goto, SlotHolders
    <3> QED BY <1>0, <3>1, HoldersFinite, FS_EmptySet
  <2>5. Stream!Accept(<<p, published[p] + 1>>)
    BY <1>2, <2>2, <2>4 DEF Enqueue, Stream!Accept
  <2> QED BY <2>3, <2>5
<1>3. ASSUME NEW p \in Producers, ReleaseSlot(p) PROVE Stream!GiveBack
  <2>1. Goto(p, "releasing", "idle")
    BY <1>3 DEF ReleaseSlot
  <2>2. Cardinality(SlotHolders)' = Cardinality(SlotHolders) - 1
    BY <2>1, HoldersChange, SMTT(30) DEF BusInv, BusTypeOK, Holding
  <2>3. Cardinality(SlotHolders) > 0
    <3>1. p \in SlotHolders
      BY <2>1 DEF Goto, SlotHolders
    <3> QED BY <1>0, <3>1, HoldersFinite, FS_EmptySet
  <2> QED BY <1>3, <2>2, <2>3 DEF ReleaseSlot, Stream!GiveBack
<1>4. ASSUME Receive PROVE Stream!Deliver
  <2>1. SlotHolders' = SlotHolders
    BY <1>4 DEF Receive, SlotHolders
  <2> QED BY <1>4, <2>1 DEF Receive, Stream!Deliver
<1>5. ASSUME NEW p \in Producers, CallReserve(p) PROVE UNCHANGED Stream!vars
  <2>1. Goto(p, "idle", "waiting")
    BY <1>5 DEF CallReserve
  <2>2. Cardinality(SlotHolders)' = Cardinality(SlotHolders)
    BY <2>1, HoldersChange, SMTT(30) DEF BusInv, BusTypeOK, Holding
  <2> QED BY <1>5, <2>2 DEF CallReserve, Stream!vars
<1>6. ASSUME NEW p \in Producers, ReserveRefused(p) PROVE UNCHANGED Stream!vars
  <2>1. Goto(p, "waiting", "idle")
    BY <1>6 DEF ReserveRefused
  <2>2. Cardinality(SlotHolders)' = Cardinality(SlotHolders)
    BY <2>1, HoldersChange, SMTT(30) DEF BusInv, BusTypeOK, Holding
  <2> QED BY <1>6, <2>2 DEF ReserveRefused, Stream!vars
<1>7. ASSUME NEW p \in Producers, Recheck(p) PROVE UNCHANGED Stream!vars
  <2>1. Goto(p, "granted", IF closed THEN "releasing" ELSE "reserved")
    BY <1>7 DEF Recheck
  <2>2. Cardinality(SlotHolders)' = Cardinality(SlotHolders)
    BY <2>1, HoldersChange, SMTT(30) DEF BusInv, BusTypeOK, Holding
  <2> QED BY <1>7, <2>2 DEF Recheck, Stream!vars
<1>8. ASSUME NEW p \in Producers, CountIn(p) PROVE UNCHANGED Stream!vars
  <2>1. Goto(p, "queued", "idle")
    BY <1>8 DEF CountIn
  <2>2. Cardinality(SlotHolders)' = Cardinality(SlotHolders)
    BY <2>1, HoldersChange, SMTT(30) DEF BusInv, BusTypeOK, Holding
  <2> QED BY <1>8, <2>2 DEF CountIn, Stream!vars
<1>9. ASSUME NEW p \in Producers, PublishRefused(p) PROVE UNCHANGED Stream!vars
  <2>1. Goto(p, "reserved", "releasing")
    BY <1>9 DEF PublishRefused
  <2>2. Cardinality(SlotHolders)' = Cardinality(SlotHolders)
    BY <2>1, HoldersChange, SMTT(30) DEF BusInv, BusTypeOK, Holding
  <2> QED BY <1>9, <2>2 DEF PublishRefused, Stream!vars
<1>10. ASSUME NEW p \in Producers, Cancel(p) PROVE UNCHANGED Stream!vars
  <2>1. Goto(p, "reserved", "releasing")
    BY <1>10 DEF Cancel
  <2>2. Cardinality(SlotHolders)' = Cardinality(SlotHolders)
    BY <2>1, HoldersChange, SMTT(30) DEF BusInv, BusTypeOK, Holding
  <2> QED BY <1>10, <2>2 DEF Cancel, Stream!vars
<1>11. ASSUME NEW p \in Producers, Exit(p) PROVE UNCHANGED Stream!vars
  <2>1. Goto(p, "idle", "exited")
    BY <1>11 DEF Exit
  <2>2. Cardinality(SlotHolders)' = Cardinality(SlotHolders)
    BY <2>1, HoldersChange, SMTT(30) DEF BusInv, BusTypeOK, Holding
  <2> QED BY <1>11, <2>2 DEF Exit, Stream!vars
<1>12. ASSUME \/ CountOut \/ ReturnEvent \/ ReturnClosed \/ ReturnCancelled
              \/ Close \/ (\E c \in {"producer", "writer"} : CancelContext(c))
              \/ UNCHANGED busVars
      PROVE  UNCHANGED Stream!vars
  <2>1. UNCHANGED <<pc, queue, delivered>>
    BY <1>12 DEF CountOut, ReturnEvent, ReturnClosed, ReturnCancelled, Close,
                CancelContext, busVars
  <2> QED BY <2>1 DEF SlotHolders, Stream!vars
<1> QED
  BY <1>1, <1>2, <1>3, <1>4, <1>5, <1>6, <1>7, <1>8, <1>9, <1>10, <1>11, <1>12
     DEF BusNext, ProducerStep, WriterStep, Stream!Next

\* The bus, with all its intermediate steps, is the abstract lossless stream
\* (see StreamSafe): capacity is claimed before an event exists, and events
\* are delivered once and in the order of their acceptance.
THEOREM BusImplementsStream == BusSpec => StreamSafe
<1>1. BusInit => Stream!Init
  <2> SUFFICES ASSUME BusInit PROVE Stream!Init
    OBVIOUS
  <2>1. SlotHolders = {}
    BY DEF BusInit, SlotHolders
  <2> QED BY <2>1, FS_EmptySet DEF BusInit, Stream!Init
<1>2. BusSpec => []BusInv
  BY BusInitInv, BusStepInv, PTL DEF BusSpec
<1> QED BY <1>1, <1>2, StepImplementsStream, PTL DEF BusSpec, StreamSafe, Stream!SafeSpec
=============================================================================
