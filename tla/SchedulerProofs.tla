-------------------------- MODULE SchedulerProofs --------------------------
(***************************************************************************)
(* Proofs about Scheduler, for any targets, cadences and bounds: the       *)
(* types, that every slot is handed over exactly once, that Run never      *)
(* oversleeps, and that a change keeps its distance to the last submission.*)
(*                                                                         *)
(* The slots of the cadence in force are counted from its first one: k of  *)
(* them are past, and the last c of those wait in the pending gap.         *)
(***************************************************************************)
EXTENDS Scheduler, FiniteSetTheorems, TLAPS

\* The slots i .. j - 1 of a cadence, and those of epoch e as they are handed.
Nth(first, step, n) == first + n * step
Stretch(first, step, i, j) == {Nth(first, step, n) : n \in i .. j - 1}
Marked(e, S) == {<<e, s>> : s \in S}
\* The gap of the last c of k slots.
Gap(first, step, k, c) ==
  IF c = 0 THEN NoGap
  ELSE [first |-> Nth(first, step, k - c), interval |-> step, count |-> c]
-----------------------------------------------------------------------------
(* Slots and gaps.                                                         *)

\* How many slots a wake skips, and that the one after them is not due.
LEMMA SkippedSlots ==
  ASSUME NEW step \in Nat \ {0}, NEW d \in Nat
  PROVE  /\ d \div step \in Nat
         /\ (d \div step) * step <= d /\ d < (d \div step) * step + step
<1> DEFINE q == d \div step
           r == d % step
<1>1. q \in Nat /\ r \in 0 .. step - 1 /\ d = step * q + r
  OBVIOUS
<1> HIDE DEF q, r
<1>2. step * q = q * step
  BY <1>1
<1> QED BY <1>1, <1>2 DEF q

\* Numbers of slots and slots are in the same order.
LEMMA NthGrows ==
  ASSUME NEW first \in Nat, NEW step \in Nat \ {0}, NEW i \in Nat, NEW j \in Nat
  PROVE  /\ Nth(first, step, i) \in Nat
         /\ Nth(first, step, i + j) = Nth(Nth(first, step, i), step, j)
         /\ i < j => Nth(first, step, i) + step <= Nth(first, step, j)
         /\ i <= j => Nth(first, step, i) <= Nth(first, step, j)
         /\ Nth(first, step, i) = Nth(first, step, j) => i = j
<1>1. i * step \in Nat /\ j * step \in Nat
  OBVIOUS
<1>2. (i + j) * step = i * step + j * step
  OBVIOUS
<1>3. ASSUME i < j PROVE i * step + step <= j * step
  <2>1. (j - (i + 1)) * step >= 0
    BY <1>3
  <2>2. j * step = i * step + step + (j - (i + 1)) * step
    OBVIOUS
  <2> QED BY <2>1, <2>2, <1>1
<1>4. ASSUME j < i PROVE j * step + step <= i * step
  <2>1. (i - (j + 1)) * step >= 0
    BY <1>4
  <2>2. i * step = j * step + step + (i - (j + 1)) * step
    OBVIOUS
  <2> QED BY <2>1, <2>2, <1>1
<1> QED BY <1>1, <1>2, <1>3, <1>4 DEF Nth

\* The multiples of the step up to a time are the slots that were due by then.
LEMMA SlotsUpTo ==
  ASSUME NEW first \in Nat, NEW step \in Nat \ {0}, NEW k \in Nat, NEW end \in Int,
         end < Nth(first, step, k), k > 0 => end >= Nth(first, step, k) - step
  PROVE  {s \in first .. end : (s - first) % step = 0} = Stretch(first, step, 0, k)
<1> DEFINE S == {s \in first .. end : (s - first) % step = 0}
<1>1. ASSUME NEW s \in S PROVE s \in Stretch(first, step, 0, k)
  <2> DEFINE d == s - first
             q == d \div step
  <2>1. d \in Nat /\ d % step = 0 /\ s \in Nat /\ s <= end
    OBVIOUS
  <2>2. q \in Nat /\ d = step * q + 0
    <3> HIDE DEF d
    <3>1. q \in Nat /\ d = (step * q) + (d % step)
      BY <2>1
    <3> QED BY <3>1, <2>1
  <2> HIDE DEF q
  <2>3. s = Nth(first, step, q)
    <3>1. step * q = q * step
      BY <2>2
    <3>2. s = first + d
      BY <2>1
    <3> HIDE DEF d
    <3> QED BY <3>1, <3>2, <2>2 DEF Nth
  <2>4. q < k
    <3> SUFFICES ASSUME k <= q PROVE FALSE
      BY <2>2
    <3>1. Nth(first, step, k) <= Nth(first, step, q)
      BY <2>2, NthGrows
    <3>2. Nth(first, step, k) \in Nat
      BY NthGrows
    <3> QED BY <3>1, <3>2, <2>3, <2>1
  <2> QED BY <2>2, <2>3, <2>4 DEF Stretch
<1>2. ASSUME NEW n \in 0 .. k - 1 PROVE Nth(first, step, n) \in S
  <2>0. n \in Nat /\ n < k
    OBVIOUS
  <2>1. Nth(first, step, n) \in Nat /\ Nth(first, step, k) \in Nat
    BY <2>0, NthGrows
  <2>2. Nth(first, step, n) + step <= Nth(first, step, k)
    BY <2>0, NthGrows
  <2>3. Nth(first, step, n) <= end
    BY <2>1, <2>2
  <2>4. Nth(first, step, n) - first = n * step /\ n * step \in Nat
    BY DEF Nth
  <2>5. (n * step) % step = 0
    <3> DEFINE d == n * step
               q == d \div step
               r == d % step
    <3>1. q \in Nat /\ r \in 0 .. step - 1 /\ d = step * q + r
      OBVIOUS
    <3> HIDE DEF q, r
    <3>2. r = step * (n - q)
      BY <3>1
    <3>3. ASSUME n > q PROVE FALSE
      <4>1. step * (n - q) >= step
        BY <3>1, <3>3
      <4> QED BY <4>1, <3>2, <3>1
    <3>4. ASSUME n < q PROVE FALSE
      <4>1. step * (n - q) <= -step
        BY <3>1, <3>4
      <4> QED BY <4>1, <3>2, <3>1
    <3>5. n = q
      BY <3>1, <3>3, <3>4
    <3> QED BY <3>5, <3>2, <3>1 DEF r
  <2> QED BY <2>1, <2>3, <2>4, <2>5
<1> QED BY <1>1, <1>2 DEF Stretch

\* A stretch is cut in two without overlap, and holds as many slots as its
\* numbers say.
LEMMA StretchIsCut ==
  ASSUME NEW first \in Nat, NEW step \in Nat \ {0},
         NEW i \in Nat, NEW j \in Nat, NEW k \in Nat, i <= j, j <= k
  PROVE  /\ Stretch(first, step, i, k) = Stretch(first, step, i, j) \cup Stretch(first, step, j, k)
         /\ Stretch(first, step, i, j) \cap Stretch(first, step, j, k) = {}
<1>1. \A m, n \in Nat : Nth(first, step, m) = Nth(first, step, n) => m = n
  BY NthGrows
<1>2. i .. k - 1 = (i .. j - 1) \cup (j .. k - 1)
  OBVIOUS
<1>3. ASSUME NEW m \in i .. j - 1, NEW n \in j .. k - 1 PROVE Nth(first, step, m) # Nth(first, step, n)
  BY <1>1
<1> QED BY <1>2, <1>3 DEF Stretch

LEMMA StretchSize ==
  ASSUME NEW first \in Nat, NEW step \in Nat \ {0}, NEW e,
         NEW i \in Nat, NEW j \in Nat, i <= j
  PROVE  /\ IsFiniteSet(Marked(e, Stretch(first, step, i, j)))
         /\ Cardinality(Marked(e, Stretch(first, step, i, j))) = j - i
<1> DEFINE T == Marked(e, Stretch(first, step, i, j))
           f == [n \in i .. j - 1 |-> <<e, Nth(first, step, n)>>]
<1>1. f \in Bijection(i .. j - 1, T)
  <2>1. \A m, n \in i .. j - 1 : f[m] = f[n] => m = n
    <3> SUFFICES ASSUME NEW m \in i .. j - 1, NEW n \in i .. j - 1, f[m] = f[n]
                 PROVE  m = n
      OBVIOUS
    <3>1. m \in Nat /\ n \in Nat
      OBVIOUS
    <3>2. Nth(first, step, m) = Nth(first, step, n)
      OBVIOUS
    <3> QED BY <3>1, <3>2, NthGrows
  <2>2. T = {<<e, Nth(first, step, n)>> : n \in i .. j - 1}
    BY DEF Marked, Stretch
  <2>3. f \in [i .. j - 1 -> T] /\ \A x \in T : \E n \in i .. j - 1 : f[n] = x
    BY <2>2
  <2> QED BY <2>1, <2>3 DEF Bijection, Injection, IsInjective, Surjection
<1>2. IsFiniteSet(i .. j - 1) /\ Cardinality(i .. j - 1) = j - i
  <2> DEFINE b == j - 1
  <2>1. b \in Int /\ i \in Int /\ j = b + 1
    OBVIOUS
  <2> HIDE DEF b
  <2>2. IsFiniteSet(i .. b) /\ Cardinality(i .. b) = IF i > b THEN 0 ELSE b - i + 1
    BY <2>1, FS_Interval
  <2>3. (IF i > b THEN 0 ELSE b - i + 1) = j - i
    BY <2>1
  <2>4. i .. j - 1 = i .. b
    BY DEF b
  <2> QED BY <2>2, <2>3, <2>4
<1> QED BY <1>1, <1>2, FS_Bijection DEF ExistsBijection

\* What GapSlots and the count say of a gap that ends before the next deadline.
LEMMA GapHolds ==
  ASSUME NEW first \in Nat, NEW step \in Nat \ {0},
         NEW k \in Nat, NEW c \in 0 .. k
  PROVE  /\ GapSlots(Gap(first, step, k, c)) = Stretch(first, step, k - c, k)
         /\ Gap(first, step, k, c).count = c
         /\ Gap(first, step, k, c) = NoGap <=> c = 0
<1> DEFINE g == Gap(first, step, k, c)
<1>1. g.count = c
  BY DEF Gap, NoGap
<1>2. g = NoGap <=> c = 0
  BY <1>1 DEF Gap, NoGap
<1>3. GapSlots(g) = Stretch(first, step, k - c, k)
  <2>1. CASE c = 0
    BY <2>1, <1>2 DEF GapSlots, Stretch
  <2>2. CASE c # 0
    <3>1. GapSlots(g) = {Nth(first, step, k - c) + n1 * step : n1 \in 0 .. c - 1}
      BY <2>2, <1>2 DEF GapSlots, Slots, Gap
    <3>2. ASSUME NEW m \in 0 .. c - 1
          PROVE  Nth(first, step, k - c) + m * step = Nth(first, step, k - c + m)
      BY NthGrows DEF Nth
    <3>3. \A m \in 0 .. c - 1 : k - c + m \in k - c .. k - 1
      OBVIOUS
    <3>4. \A m \in k - c .. k - 1 : m - (k - c) \in 0 .. c - 1 /\ k - c + (m - (k - c)) = m
      OBVIOUS
    <3>5. GapSlots(g) = {Nth(first, step, k - c + m) : m \in 0 .. c - 1}
      BY <3>1, <3>2
    <3> QED BY <3>3, <3>4, <3>5 DEF Stretch
  <2> QED BY <2>1, <2>2
<1> QED BY <1>1, <1>2, <1>3

\* addGap makes it longer.
LEMMA GapsGrow ==
  ASSUME NEW first \in Nat, NEW step \in Nat \ {0},
         NEW k \in Nat, NEW c \in 0 .. k, NEW n \in Nat
  PROVE  GapAfter(Gap(first, step, k, c), Nth(first, step, k), step, n)
           = Gap(first, step, k + n, c + n)
<1> DEFINE g == Gap(first, step, k, c)
<1>1. g = NoGap <=> c = 0
  BY GapHolds
<1>2. GapAfter(g, Nth(first, step, k), step, n) = Gap(first, step, k + n, c + n)
  <2>1. CASE n = 0
    BY <2>1 DEF GapAfter
  <2>2. CASE n # 0 /\ c = 0
    BY <2>2, <1>1 DEF GapAfter, Gap
  <2>3. CASE n # 0 /\ c # 0
    <3>1. (k + n) - (c + n) = k - c
      OBVIOUS
    <3> QED BY <2>3, <3>1, <1>1 DEF GapAfter, Gap
  <2> QED BY <2>1, <2>2, <2>3
<1> QED BY <1>2

\* Handed over in two parts, the slots of an epoch do not overlap.
LEMMA MarkedIsCut ==
  ASSUME NEW e \in Nat, NEW first \in Nat, NEW step \in Nat \ {0},
         NEW i \in Nat, NEW j \in Nat, i <= j
  PROVE  /\ Marked(e, Stretch(first, step, 0, j))
              = Marked(e, Stretch(first, step, 0, i)) \cup Marked(e, Stretch(first, step, i, j))
         /\ Marked(e, Stretch(first, step, 0, i)) \cap Marked(e, Stretch(first, step, i, j)) = {}
         /\ \A x \in Marked(e, Stretch(first, step, i, j)) : x[1] = e
         /\ IsFiniteSet(Marked(e, Stretch(first, step, 0, i)))
         /\ IsFiniteSet(Marked(e, Stretch(first, step, i, j)))
         /\ Cardinality(Marked(e, Stretch(first, step, i, j))) = j - i
<1>1. /\ IsFiniteSet(Marked(e, Stretch(first, step, 0, i)))
      /\ IsFiniteSet(Marked(e, Stretch(first, step, i, j)))
      /\ Cardinality(Marked(e, Stretch(first, step, i, j))) = j - i
  BY StretchSize
<1>2. /\ Stretch(first, step, 0, j) = Stretch(first, step, 0, i) \cup Stretch(first, step, i, j)
      /\ Stretch(first, step, 0, i) \cap Stretch(first, step, i, j) = {}
  BY StretchIsCut
<1> QED BY <1>1, <1>2 DEF Marked

-----------------------------------------------------------------------------
(* The invariant.                                                          *)

Gaps == {NoGap} \cup [first : Nat, interval : Nat \ {0}, count : Nat \ {0}]

Typed ==
  /\ clock \in 0 .. MaxTime /\ loopNow \in 0 .. clock
  /\ pc \in Stages
  /\ next \in [Targets -> Nat] /\ interval \in [Targets -> Nat \ {0}]
  /\ last \in [Targets -> 0 .. MaxTime \cup {None}]
  /\ pending \in [Targets -> Gaps]
  /\ updates \in [Targets -> Cadences \cup {0}]
  /\ taken \in [Targets -> Cadences \cup {0}]
  /\ timerAt \in Nat \cup {None} /\ lastFlush \in 0 .. MaxTime
  /\ wake \in BOOLEAN /\ cancelled \in BOOLEAN /\ stopped \in BOOLEAN
  /\ handed \in [Targets -> SUBSET (Nat \X Nat)] /\ handedCount \in [Targets -> Nat]
  /\ ended \in [Targets -> SUBSET (Nat \X Nat)]
  /\ epoch \in [Targets -> Nat] /\ start \in [Targets -> Nat]
  /\ sent \in [Targets -> {0, 1}]

\* Of the cadence in force k slots are past, and all but the last c are the
\* sink's, like all slots of the earlier ones.
SlotsInv(t, k, c) ==
  /\ c <= k
  /\ next[t] = Nth(start[t], interval[t], k)
  /\ k > 0 => next[t] - interval[t] <= loopNow
  /\ pending[t] = Gap(start[t], interval[t], k, c)
  /\ IsFiniteSet(ended[t]) /\ \A x \in ended[t] : x[1] < epoch[t]
  /\ handed[t] = ended[t] \cup Marked(epoch[t], Stretch(start[t], interval[t], 0, k - c))
  /\ handedCount[t] = Cardinality(handed[t])
Accounted == \A t \in Targets : \E k, c \in Nat : SlotsInv(t, k, c)

\* A target submitted in this wake is not due again in it, whatever cadence it
\* is given, and applyUpdates begins when none is due.
NotDue ==
  /\ \A t \in Targets : sent[t] = 1 =>
       last[t] # None /\ last[t] >= loopNow /\ next[t] > loopNow
  /\ pc = "take" => \A t \in Targets : next[t] > loopNow
  /\ pc = "apply" => \A t \in Targets : taken[t] # 0 => next[t] > loopNow

Ended ==
  /\ stopped <=> pc = "returned"
  /\ stopped => (\A t \in Targets : pending[t] = NoGap /\ updates[t] = 0)

IInv == Typed /\ Accounted /\ NotDue /\ Ended /\ NeverOversleeps
-----------------------------------------------------------------------------
(* What the invariant says.                                                *)

\* It implies the properties that are checked.
LEMMA IInvProperties == IInv => TypeOK /\ SlotsAccounted /\ NeverOversleeps
<1> SUFFICES ASSUME IInv PROVE TypeOK /\ SlotsAccounted
  BY DEF IInv
<1> USE DEF IInv
<1>1. TypeOK
  <2>1. \A t \in Pending : pending[t] \in [first : Nat, interval : Nat \ {0}, count : Nat \ {0}]
    BY DEF Typed, Pending, Gaps
  <2>2. loopNow \in 0 .. MaxTime
    BY BoundAssumption DEF Typed
  <2>3. {wake, cancelled, stopped} \subseteq BOOLEAN
    BY DEF Typed
  <2> QED BY <2>1, <2>2, <2>3 DEF Typed, TypeOK
<1>2. ASSUME NEW t \in Targets
      PROVE  LET now == {<<epoch[t], s>> : s \in {s \in start[t] .. next[t] - 1 :
                                                   (s - start[t]) % interval[t] = 0}}
                 waiting == {<<epoch[t], s>> : s \in GapSlots(pending[t])}
             IN  /\ handed[t] \cup waiting = ended[t] \cup now
                 /\ handed[t] \cap waiting = {}
                 /\ handedCount[t] = Cardinality(handed[t])
                 /\ pending[t] # NoGap =>
                      /\ pending[t].interval = interval[t]
                      /\ pending[t].first + pending[t].count * pending[t].interval = next[t]
  <2> DEFINE f == start[t]
             i == interval[t]
             e == epoch[t]
  <2>0. f \in Nat /\ i \in Nat \ {0} /\ e \in Nat /\ next[t] \in Nat
    BY DEF Typed
  <2>1. PICK k \in Nat, c \in Nat : SlotsInv(t, k, c)
    BY DEF Accounted
  <2>2. c \in 0 .. k /\ k - c \in Nat /\ k - c <= k
    BY <2>1 DEF SlotsInv
  <2>3. next[t] = Nth(f, i, k) /\ pending[t] = Gap(f, i, k, c)
    BY <2>1 DEF SlotsInv
  <2>4. handed[t] = ended[t] \cup Marked(e, Stretch(f, i, 0, k - c))
    BY <2>1 DEF SlotsInv
  <2>5. \A x \in ended[t] : x[1] # e
    <3>1. \A x \in ended[t] : x[1] \in Nat /\ x[1] < e
      BY <2>1 DEF SlotsInv, Typed
    <3> QED BY <3>1, <2>0
  <2> HIDE DEF f, i, e
  <2>6. {s \in f .. next[t] - 1 : (s - f) % i = 0} = Stretch(f, i, 0, k)
    <3> DEFINE l == next[t] - 1
    <3>1. l \in Int /\ l < Nth(f, i, k) /\ l >= Nth(f, i, k) - i
      BY <2>0, <2>3
    <3> HIDE DEF l
    <3>2. {s \in f .. l : (s - f) % i = 0} = Stretch(f, i, 0, k)
      BY <2>0, <3>1, SlotsUpTo
    <3> QED BY <3>2 DEF l
  <2>7. GapSlots(pending[t]) = Stretch(f, i, k - c, k)
    <3>1. GapSlots(Gap(f, i, k, c)) = Stretch(f, i, k - c, k)
      BY <2>0, <2>2, GapHolds
    <3> QED BY <2>3, <3>1
  <2>8. /\ Stretch(f, i, 0, k) = Stretch(f, i, 0, k - c) \cup Stretch(f, i, k - c, k)
        /\ Stretch(f, i, 0, k - c) \cap Stretch(f, i, k - c, k) = {}
    BY <2>0, <2>2, StretchIsCut
  <2>9. /\ pending[t] # NoGap => pending[t].interval = i
        /\ pending[t] # NoGap => pending[t].first + pending[t].count * pending[t].interval = next[t]
    <3> SUFFICES ASSUME pending[t] # NoGap
                 PROVE  /\ pending[t].interval = i
                        /\ pending[t].first + pending[t].count * pending[t].interval = next[t]
      OBVIOUS
    <3>1. pending[t] = [first |-> Nth(f, i, k - c), interval |-> i, count |-> c]
      BY <2>3 DEF Gap
    <3>2. Nth(Nth(f, i, k - c), i, c) = Nth(f, i, k)
      <4> DEFINE m == k - c
      <4>1. m + c = k /\ m \in Nat
        BY <2>2
      <4> HIDE DEF m
      <4>2. Nth(Nth(f, i, m), i, c) = Nth(f, i, m + c)
        BY <4>1, <2>0, NthGrows
      <4> QED BY <4>1, <4>2 DEF m
    <3> QED BY <3>1, <3>2, <2>3 DEF Nth
  <2>10. handedCount[t] = Cardinality(handed[t])
    BY <2>1 DEF SlotsInv
  <2>11. /\ handed[t] \cup Marked(e, GapSlots(pending[t])) = ended[t] \cup Marked(e, Stretch(f, i, 0, k))
         /\ handed[t] \cap Marked(e, GapSlots(pending[t])) = {}
    BY <2>4, <2>5, <2>7, <2>8 DEF Marked
  <2> QED BY <2>6, <2>9, <2>10, <2>11 DEF Marked, f, i, e
<1>3. EverySlotOnce
  BY <1>2 DEF EverySlotOnce
<1>4. GapsAreContiguous
  BY <1>2 DEF GapsAreContiguous, Pending
<1>5. NoCatchUpBurst
  BY DEF NoCatchUpBurst, Typed
<1>6. StoppedIsClean
  BY DEF StoppedIsClean, Ended, Pending
<1> QED BY <1>1, <1>3, <1>4, <1>5, <1>6 DEF SlotsAccounted
-----------------------------------------------------------------------------
(* The steps that hand slots over or put them off.                         *)

\* The slots of a target are accounted for as long as nothing of them changes
\* and time does not go back.
LEMMA SlotsKept ==
  ASSUME Typed, NEW t \in Targets, NEW k \in Nat, NEW c \in Nat, SlotsInv(t, k, c),
         next'[t] = next[t], interval'[t] = interval[t], pending'[t] = pending[t],
         handed'[t] = handed[t], handedCount'[t] = handedCount[t], ended'[t] = ended[t],
         epoch'[t] = epoch[t], start'[t] = start[t], loopNow' \in Nat, loopNow <= loopNow'
  PROVE  SlotsInv(t, k, c)'
<1>1. next[t] - interval[t] <= loopNow => next'[t] - interval'[t] <= loopNow'
  BY DEF Typed
<1> QED BY <1>1 DEF SlotsInv

\* One iteration of submitDue, of a target with k slots past, c of them waiting:
\* it skips n, offers the one after them, and is not due again.
LEMMA DueSlots ==
  ASSUME IInv, NEW t \in Targets, Due(t), NEW k \in Nat, NEW c \in Nat, SlotsInv(t, k, c)
  PROVE  \E n \in Nat :
             /\ Slot(t) = Nth(start[t], interval[t], k + n)
             /\ GapBefore(t) = Gap(start[t], interval[t], k + n, c + n)
             /\ next' = [next EXCEPT ![t] = Nth(start[t], interval[t], k + n + 1)]
             /\ next'[t] \in Nat /\ next'[t] > loopNow /\ next'[t] - interval[t] <= loopNow
<1> DEFINE n == Skipped(t)
           f == start[t]
           i == interval[t]
<1>1. /\ f \in Nat /\ i \in Nat \ {0} /\ next[t] \in Nat /\ loopNow \in Nat
      /\ next[t] <= loopNow /\ next \in [Targets -> Nat]
  BY DEF IInv, Typed, Due
<1>2. next[t] = Nth(f, i, k) /\ pending[t] = Gap(f, i, k, c) /\ c \in 0 .. k
  BY DEF SlotsInv
<1>3. n = (loopNow - next[t]) \div i
  BY DEF Skipped
<1>4. next' = [next EXCEPT ![t] = Slot(t) + i] /\ Slot(t) = next[t] + n * i
  BY DEF Due, Slot
<1>5. GapBefore(t) = GapAfter(pending[t], next[t], i, n)
  BY DEF GapBefore
<1> HIDE DEF n, f, i
<1>6. n \in Nat /\ n * i <= loopNow - next[t] /\ loopNow - next[t] < n * i + i
  <2> DEFINE d == loopNow - next[t]
  <2>1. d \in Nat
    BY <1>1
  <2>2. n = d \div i
    BY <1>3
  <2> HIDE DEF d
  <2>3. n \in Nat /\ n * i <= d /\ d < n * i + i
    BY <1>1, <2>1, <2>2, SkippedSlots
  <2> QED BY <2>3 DEF d
<1>7. Slot(t) = Nth(f, i, k + n)
  <2>1. Nth(f, i, k + n) = Nth(Nth(f, i, k), i, n)
    BY <1>1, <1>6, NthGrows
  <2> QED BY <1>2, <1>4, <2>1 DEF Nth
<1>8. Slot(t) + i = Nth(f, i, k + n + 1)
  <2> DEFINE m == k + n
  <2>1. m \in Nat
    BY <1>6
  <2>2. Slot(t) = Nth(f, i, m)
    BY <1>7
  <2> HIDE DEF m
  <2>3. Nth(f, i, m + 1) = Nth(Nth(f, i, m), i, 1)
    BY <1>1, <2>1, NthGrows
  <2>4. Nth(Slot(t), i, 1) = Slot(t) + i
    BY <1>1 DEF Nth
  <2> QED BY <2>2, <2>3, <2>4 DEF m
<1>9. GapBefore(t) = Gap(f, i, k + n, c + n)
  BY <1>1, <1>2, <1>5, <1>6, GapsGrow
<1>10. Slot(t) \in Nat /\ Slot(t) <= loopNow /\ Slot(t) + i > loopNow
  <2>1. n * i \in Nat
    BY <1>1, <1>6
  <2> QED BY <1>1, <1>4, <1>6, <2>1
<1>11. next'[t] = Slot(t) + i
  BY <1>1, <1>4
<1>12. next'[t] \in Nat /\ next'[t] > loopNow /\ next'[t] - i <= loopNow
  BY <1>1, <1>10, <1>11
<1>13. next' = [next EXCEPT ![t] = Nth(f, i, k + n + 1)]
  BY <1>4, <1>8
<1> QED BY <1>6, <1>7, <1>9, <1>12, <1>13 DEF f, i

\* The waiting slots of the k past ones, and n more, go to the sink.
LEMMA HandSlots ==
  ASSUME IInv, NEW t \in Targets, NEW k \in Nat, NEW c \in Nat, SlotsInv(t, k, c),
         NEW m \in Nat, k <= m,
         Hand(t, Stretch(start[t], interval[t], k - c, m), m - (k - c))
  PROVE  /\ handed'[t] = ended[t] \cup Marked(epoch[t], Stretch(start[t], interval[t], 0, m))
         /\ handedCount'[t] = Cardinality(handed'[t])
         /\ handed' \in [Targets -> SUBSET (Nat \X Nat)] /\ handedCount' \in [Targets -> Nat]
<1> DEFINE f == start[t]
           i == interval[t]
           e == epoch[t]
           b == k - c
<1>1. /\ f \in Nat /\ i \in Nat \ {0} /\ e \in Nat /\ b \in Nat /\ b <= m
      /\ handed \in [Targets -> SUBSET (Nat \X Nat)] /\ handedCount \in [Targets -> Nat]
  BY DEF IInv, Typed, SlotsInv
<1>2. /\ handed[t] = ended[t] \cup Marked(e, Stretch(f, i, 0, b))
      /\ handedCount[t] = Cardinality(handed[t]) /\ IsFiniteSet(ended[t])
  BY DEF SlotsInv
<1>3. \A x \in ended[t] : x[1] # e
  <2>1. \A x \in ended[t] : x[1] \in Nat /\ x[1] < e
    BY DEF SlotsInv, IInv, Typed
  <2> QED BY <2>1, <1>1
<1>4. /\ handed' = [handed EXCEPT ![t] = @ \cup Marked(e, Stretch(f, i, b, m))]
      /\ handedCount' = [handedCount EXCEPT ![t] = @ + (m - b)]
  BY DEF Hand, Marked
<1> HIDE DEF f, i, e, b
<1>5. /\ handed[t] \cup Marked(e, Stretch(f, i, b, m)) = ended[t] \cup Marked(e, Stretch(f, i, 0, m))
      /\ Cardinality(handed[t] \cup Marked(e, Stretch(f, i, b, m))) = Cardinality(handed[t]) + (m - b)
  <2> DEFINE P == Marked(e, Stretch(f, i, 0, b))
             N == Marked(e, Stretch(f, i, b, m))
  <2>1. /\ Marked(e, Stretch(f, i, 0, m)) = P \cup N /\ P \cap N = {}
        /\ \A x \in N : x[1] = e
        /\ IsFiniteSet(P) /\ IsFiniteSet(N) /\ Cardinality(N) = m - b
    BY <1>1, MarkedIsCut, SMTT(30)
  <2>2. handed[t] = ended[t] \cup P
    BY <1>2
  <2> HIDE DEF P, N
  <2>3. IsFiniteSet(handed[t])
    <3>1. IsFiniteSet(ended[t]) /\ IsFiniteSet(P)
      BY <1>2, <2>1
    <3>2. IsFiniteSet(ended[t] \cup P)
      BY <3>1, FS_Union
    <3> QED BY <2>2, <3>2
  <2>4. handed[t] \cap N = {}
    BY <1>3, <2>1, <2>2
  <2>5. Cardinality(handed[t] \cup N) = Cardinality(handed[t]) + (m - b)
    <3>1. Cardinality(handed[t] \cup N)
            = Cardinality(handed[t]) + Cardinality(N) - Cardinality(handed[t] \cap N)
      BY <2>1, <2>3, FS_Union
    <3>2. Cardinality(handed[t] \cap N) = 0
      BY <2>4, FS_EmptySet
    <3>3. Cardinality(handed[t]) \in Nat
      BY <2>3, FS_CardinalityType
    <3> QED BY <1>1, <2>1, <3>1, <3>2, <3>3
  <2> QED BY <2>1, <2>2, <2>5 DEF N
<1>6. Marked(e, Stretch(f, i, b, m)) \subseteq Nat \X Nat
  <2>1. \A n \in Nat : Nth(f, i, n) \in Nat
    BY <1>1, NthGrows
  <2>2. b .. m - 1 \subseteq Nat
    BY <1>1
  <2> QED BY <2>1, <2>2, <1>1 DEF Marked, Stretch
<1>7. /\ handed'[t] = handed[t] \cup Marked(e, Stretch(f, i, b, m))
      /\ handedCount'[t] = handedCount[t] + (m - b)
  BY <1>1, <1>4
<1>8. handed' \in [Targets -> SUBSET (Nat \X Nat)]
  BY <1>1, <1>4, <1>6
<1>9. handedCount' \in [Targets -> Nat]
  BY <1>1, <1>4
<1>10. handedCount'[t] = Cardinality(handed'[t])
  BY <1>2, <1>5, <1>7
<1> QED BY <1>5, <1>7, <1>8, <1>9, <1>10 DEF f, i, e

\* The gap of a cadence that is in Gaps.
LEMMA GapTyped ==
  ASSUME NEW first \in Nat, NEW step \in Nat \ {0}, NEW k \in Nat, NEW c \in 0 .. k
  PROVE  Gap(first, step, k, c) \in Gaps
<1>1. Nth(first, step, k - c) \in Nat
  <2>1. k - c \in Nat
    OBVIOUS
  <2> QED BY <2>1, NthGrows
<1> QED BY <1>1 DEF Gap, Gaps

\* An accepted slot is handed over with the gap before it.
LEMMA SubmitAcceptedKeepsInv ==
  ASSUME IInv, NEW t \in Targets, SubmitAccepted(t)
  PROVE  IInv'
<1>1. Due(t)
  BY DEF SubmitAccepted
<1>2. PICK k \in Nat, c \in Nat : SlotsInv(t, k, c)
  BY DEF IInv, Accounted
<1> DEFINE f == start[t]
           i == interval[t]
<1>3. PICK n \in Nat :
        /\ Slot(t) = Nth(f, i, k + n) /\ GapBefore(t) = Gap(f, i, k + n, c + n)
        /\ next' = [next EXCEPT ![t] = Nth(f, i, k + n + 1)]
        /\ next'[t] \in Nat /\ next'[t] > loopNow /\ next'[t] - i <= loopNow
  <2>1. \E n \in Nat :
          /\ Slot(t) = Nth(start[t], interval[t], k + n)
          /\ GapBefore(t) = Gap(start[t], interval[t], k + n, c + n)
          /\ next' = [next EXCEPT ![t] = Nth(start[t], interval[t], k + n + 1)]
          /\ next'[t] \in Nat /\ next'[t] > loopNow /\ next'[t] - interval[t] <= loopNow
    BY <1>1, <1>2, DueSlots
  <2> QED BY <2>1
<1>0. PICK m \in Nat : m = k + n + 1
  OBVIOUS
<1>4. /\ f \in Nat /\ i \in Nat \ {0} /\ c \in 0 .. k
  BY <1>2 DEF IInv, Typed, SlotsInv
<1>5. /\ UNCHANGED <<clock, pc, loopNow, interval, taken, lastFlush, callVars,
                     timerAt, cancelled, stopped, ended, epoch, start>>
      /\ pc \in {"submit", "resubmit"}
      /\ last' = [last EXCEPT ![t] = clock] /\ sent' = [sent EXCEPT ![t] = @ + 1]
      /\ pending' = [pending EXCEPT ![t] = NoGap]
      /\ Hand(t, {Slot(t)} \cup GapSlots(GapBefore(t)), 1 + GapBefore(t).count)
  BY <1>1 DEF SubmitAccepted, Due
<1>6. sent[t] = 0
  BY <1>1 DEF IInv, Typed, NotDue, Due
<1> HIDE DEF f, i
<1>7. Hand(t, Stretch(f, i, k - c, m), m - (k - c))
  <2>1. c + n \in 0 .. k + n /\ k + n \in Nat /\ (k + n) - (c + n) = k - c /\ k - c \in Nat
    BY <1>3, <1>4
  <2>2. /\ GapSlots(GapBefore(t)) = Stretch(f, i, k - c, k + n)
        /\ GapBefore(t).count = c + n
    <3> DEFINE k2 == k + n
               c2 == c + n
    <3>1. k2 \in Nat /\ c2 \in 0 .. k2 /\ GapBefore(t) = Gap(f, i, k2, c2) /\ k2 - c2 = k - c
      BY <1>3, <2>1
    <3> HIDE DEF k2, c2
    <3>2. GapSlots(Gap(f, i, k2, c2)) = Stretch(f, i, k2 - c2, k2) /\ Gap(f, i, k2, c2).count = c2
      BY <3>1, <1>4, GapHolds
    <3> QED BY <3>1, <3>2 DEF k2, c2
  <2>3. Stretch(f, i, k - c, m) = Stretch(f, i, k - c, k + n) \cup Stretch(f, i, k + n, m)
    <3>1. k - c <= k + n /\ k + n <= m
      BY <1>0, <1>4
    <3> QED BY <1>4, <2>1, <3>1, StretchIsCut
  <2>4. Stretch(f, i, k + n, m) = {Slot(t)}
    <3>1. k + n .. m - 1 = {k + n}
      BY <1>0
    <3> QED BY <3>1, <1>3 DEF Stretch
  <2>5. 1 + (c + n) = m - (k - c)
    BY <1>0, <1>4
  <2>6. {Slot(t)} \cup GapSlots(GapBefore(t)) = Stretch(f, i, k - c, m)
    BY <2>2, <2>3, <2>4
  <2> QED BY <1>5, <2>2, <2>5, <2>6
<1>8. k <= m
  BY <1>0
<1>9. /\ handed'[t] = ended[t] \cup Marked(epoch[t], Stretch(f, i, 0, m))
      /\ handedCount'[t] = Cardinality(handed'[t])
      /\ handed' \in [Targets -> SUBSET (Nat \X Nat)] /\ handedCount' \in [Targets -> Nat]
  BY <1>2, <1>7, <1>8, HandSlots DEF f, i
<1>10. Typed'
  <2>1. sent' \in [Targets -> {0, 1}] /\ last' \in [Targets -> 0 .. MaxTime \cup {None}]
    BY <1>5, <1>6 DEF IInv, Typed
  <2>2. pending' \in [Targets -> Gaps] /\ next' \in [Targets -> Nat]
    BY <1>3, <1>5 DEF IInv, Typed, Gaps
  <2> QED BY <2>1, <2>2, <1>5, <1>9 DEF IInv, Typed, callVars
<1>11. Accounted'
  <2>1. SlotsInv(t, m, 0)'
    <3>1. pending'[t] = Gap(f, i, m, 0)
      BY <1>5 DEF IInv, Typed, Gap
    <3>2. next'[t] = Nth(f, i, m) /\ m - 0 = m
      BY <1>0, <1>3 DEF IInv, Typed
    <3>3. 0 <= m
      BY <1>8
    <3> QED BY <1>2, <1>3, <1>5, <1>9, <3>1, <3>2, <3>3 DEF SlotsInv, f, i
  <2>2. ASSUME NEW u \in Targets, u # t PROVE \E k2, c2 \in Nat : SlotsInv(u, k2, c2)'
    <3>1. PICK k2 \in Nat, c2 \in Nat : SlotsInv(u, k2, c2)
      BY DEF IInv, Accounted
    <3>2. /\ next'[u] = next[u] /\ pending'[u] = pending[u] /\ handed'[u] = handed[u]
          /\ handedCount'[u] = handedCount[u] /\ interval'[u] = interval[u]
          /\ ended'[u] = ended[u] /\ epoch'[u] = epoch[u] /\ start'[u] = start[u]
      BY <1>3, <1>5, <2>2 DEF IInv, Typed, Hand
    <3>3. loopNow' \in Nat /\ loopNow <= loopNow'
      BY <1>5 DEF IInv, Typed
    <3> QED BY <3>1, <3>2, <3>3, SlotsKept DEF IInv
  <2> QED BY <1>8, <2>1, <2>2 DEF Accounted
<1>12. NotDue'
  <2>1. last'[t] = clock /\ clock >= loopNow /\ clock # None
    BY <1>5 DEF IInv, Typed, None
  <2>2. \A u \in Targets : u # t => next'[u] = next[u] /\ last'[u] = last[u] /\ sent'[u] = sent[u]
    BY <1>3, <1>5 DEF IInv, Typed
  <2> QED BY <1>3, <1>5, <2>1, <2>2 DEF IInv, NotDue
<1>13. Ended' /\ NeverOversleeps'
  BY <1>5 DEF IInv, Ended, NeverOversleeps
<1> QED BY <1>10, <1>11, <1>12, <1>13 DEF IInv
\* A refused slot joins the gap, and so do the ones skipped before it.
LEMMA SubmitRejectedKeepsInv ==
  ASSUME IInv, NEW t \in Targets, SubmitRejected(t)
  PROVE  IInv'
<1>1. Due(t)
  BY DEF SubmitRejected
<1>2. PICK k \in Nat, c \in Nat : SlotsInv(t, k, c)
  BY DEF IInv, Accounted
<1> DEFINE f == start[t]
           i == interval[t]
<1>3. PICK n \in Nat :
        /\ Slot(t) = Nth(f, i, k + n) /\ GapBefore(t) = Gap(f, i, k + n, c + n)
        /\ next' = [next EXCEPT ![t] = Nth(f, i, k + n + 1)]
        /\ next'[t] \in Nat /\ next'[t] > loopNow /\ next'[t] - i <= loopNow
  <2>1. \E n \in Nat :
          /\ Slot(t) = Nth(start[t], interval[t], k + n)
          /\ GapBefore(t) = Gap(start[t], interval[t], k + n, c + n)
          /\ next' = [next EXCEPT ![t] = Nth(start[t], interval[t], k + n + 1)]
          /\ next'[t] \in Nat /\ next'[t] > loopNow /\ next'[t] - interval[t] <= loopNow
    BY <1>1, <1>2, DueSlots
  <2> QED BY <2>1
<1>4. /\ f \in Nat /\ i \in Nat \ {0} /\ c \in 0 .. k
  BY <1>2 DEF IInv, Typed, SlotsInv
<1>0. PICK m \in Nat, w \in Nat :
        m = k + n + 1 /\ w = c + n + 1 /\ w \in 0 .. m /\ m - w = k - c /\ m > 0
  <2>1. /\ k + n + 1 \in Nat /\ c + n + 1 \in Nat /\ c + n + 1 \in 0 .. (k + n + 1)
        /\ (k + n + 1) - (c + n + 1) = k - c /\ k + n + 1 > 0
    BY <1>4
  <2> QED BY <2>1
<1>5. /\ UNCHANGED <<clock, pc, loopNow, interval, taken, lastFlush, callVars,
                     timerAt, cancelled, stopped, ended, epoch, start>>
      /\ pc \in {"submit", "resubmit"}
      /\ UNCHANGED <<last, sent, handed, handedCount>>
      /\ pending' = [pending EXCEPT ![t] = GapAfter(GapBefore(t), Slot(t), i, 1)]
  BY <1>1 DEF SubmitRejected, Due
<1>6. sent[t] = 0
  BY <1>1 DEF IInv, Typed, NotDue, Due
<1> HIDE DEF f, i
<1>7. GapAfter(GapBefore(t), Slot(t), i, 1) = Gap(f, i, m, w)
  <2> DEFINE k2 == k + n
             c2 == c + n
  <2>1. k2 \in Nat /\ c2 \in 0 .. k2 /\ k2 + 1 = m /\ c2 + 1 = w
    BY <1>0, <1>4
  <2>2. GapBefore(t) = Gap(f, i, k2, c2) /\ Slot(t) = Nth(f, i, k2)
    BY <1>3
  <2> HIDE DEF k2, c2
  <2>3. GapAfter(Gap(f, i, k2, c2), Nth(f, i, k2), i, 1) = Gap(f, i, k2 + 1, c2 + 1)
    BY <1>4, <2>1, GapsGrow
  <2> QED BY <2>1, <2>2, <2>3
<1>8. Gap(f, i, m, w) \in Gaps
  BY <1>0, <1>4, GapTyped
<1>9. pending' = [pending EXCEPT ![t] = Gap(f, i, m, w)]
  BY <1>5, <1>7
<1>10. Typed'
  <2>1. pending' \in [Targets -> Gaps] /\ next' \in [Targets -> Nat]
    BY <1>3, <1>8, <1>9 DEF IInv, Typed
  <2> QED BY <2>1, <1>5 DEF IInv, Typed, callVars
<1>11. Accounted'
  <2>1. SlotsInv(t, m, w)'
    <3>1. pending'[t] = Gap(f, i, m, w)
      BY <1>9 DEF IInv, Typed
    <3>2. next'[t] = Nth(f, i, m)
      BY <1>0, <1>3 DEF IInv, Typed
    <3>3. w <= m
      BY <1>0
    <3> QED BY <1>0, <1>2, <1>3, <1>5, <3>1, <3>2, <3>3 DEF SlotsInv, f, i
  <2>2. ASSUME NEW u \in Targets, u # t PROVE \E k2, c2 \in Nat : SlotsInv(u, k2, c2)'
    <3>1. PICK k2 \in Nat, c2 \in Nat : SlotsInv(u, k2, c2)
      BY DEF IInv, Accounted
    <3>2. /\ next'[u] = next[u] /\ pending'[u] = pending[u] /\ handed'[u] = handed[u]
          /\ handedCount'[u] = handedCount[u] /\ interval'[u] = interval[u]
          /\ ended'[u] = ended[u] /\ epoch'[u] = epoch[u] /\ start'[u] = start[u]
      BY <1>3, <1>5, <1>9, <2>2 DEF IInv, Typed
    <3>3. loopNow' \in Nat /\ loopNow <= loopNow'
      BY <1>5 DEF IInv, Typed
    <3> QED BY <3>1, <3>2, <3>3, SlotsKept DEF IInv
  <2> QED BY <2>1, <2>2 DEF Accounted
<1>12. NotDue'
  <2>2. \A u \in Targets : u # t => next'[u] = next[u]
    BY <1>3 DEF IInv, Typed
  <2> QED BY <1>3, <1>5, <1>6, <2>2 DEF IInv, NotDue
<1>13. Ended' /\ NeverOversleeps'
  BY <1>5 DEF IInv, Ended, NeverOversleeps
<1> QED BY <1>10, <1>11, <1>12, <1>13 DEF IInv

\* A recorded gap is the sink's, once.
LEMMA RecordPendingKeepsInv ==
  ASSUME IInv, NEW t \in Targets, RecordPending(t)
  PROVE  IInv'
<1>1. PICK k \in Nat, c \in Nat : SlotsInv(t, k, c)
  BY DEF IInv, Accounted
<1> DEFINE f == start[t]
           i == interval[t]
<1>2. /\ f \in Nat /\ i \in Nat \ {0} /\ c \in 0 .. k
  BY <1>1 DEF IInv, Typed, SlotsInv
<1>3. /\ UNCHANGED <<clock, pc, loopNow, next, interval, last, taken, lastFlush,
                     callVars, timerAt, cancelled, stopped, ended, epoch, start, sent>>
      /\ pc \in {"flush", "stopping"}
      /\ pending' = [pending EXCEPT ![t] = NoGap]
      /\ Hand(t, GapSlots(pending[t]), pending[t].count)
  BY DEF RecordPending
<1>4. pending[t] = Gap(f, i, k, c)
  BY <1>1 DEF SlotsInv
<1> HIDE DEF f, i
<1>5. Hand(t, Stretch(f, i, k - c, k), k - (k - c))
  <2>1. GapSlots(Gap(f, i, k, c)) = Stretch(f, i, k - c, k) /\ Gap(f, i, k, c).count = c
    BY <1>2, GapHolds
  <2>2. k - (k - c) = c
    BY <1>2
  <2> QED BY <1>3, <1>4, <2>1, <2>2
<1>6. /\ handed'[t] = ended[t] \cup Marked(epoch[t], Stretch(f, i, 0, k))
      /\ handedCount'[t] = Cardinality(handed'[t])
      /\ handed' \in [Targets -> SUBSET (Nat \X Nat)] /\ handedCount' \in [Targets -> Nat]
  BY <1>1, <1>5, HandSlots DEF f, i
<1>7. Typed'
  <2>1. pending' \in [Targets -> Gaps]
    BY <1>3 DEF IInv, Typed, Gaps
  <2> QED BY <2>1, <1>3, <1>6 DEF IInv, Typed, callVars
<1>8. Accounted'
  <2>1. SlotsInv(t, k, 0)'
    <3>1. pending'[t] = Gap(f, i, k, 0)
      BY <1>3 DEF IInv, Typed, Gap
    <3>2. k - 0 = k /\ 0 <= k
      OBVIOUS
    <3> QED BY <1>1, <1>3, <1>6, <3>1, <3>2 DEF SlotsInv, f, i
  <2>2. ASSUME NEW u \in Targets, u # t PROVE \E k2, c2 \in Nat : SlotsInv(u, k2, c2)'
    <3>1. PICK k2 \in Nat, c2 \in Nat : SlotsInv(u, k2, c2)
      BY DEF IInv, Accounted
    <3>2. /\ next'[u] = next[u] /\ pending'[u] = pending[u] /\ handed'[u] = handed[u]
          /\ handedCount'[u] = handedCount[u] /\ interval'[u] = interval[u]
          /\ ended'[u] = ended[u] /\ epoch'[u] = epoch[u] /\ start'[u] = start[u]
      BY <1>3, <2>2 DEF IInv, Typed, Hand
    <3>3. loopNow' \in Nat /\ loopNow <= loopNow'
      BY <1>3 DEF IInv, Typed
    <3> QED BY <3>1, <3>2, <3>3, SlotsKept DEF IInv
  <2> QED BY <2>1, <2>2 DEF Accounted
<1>9. NotDue'
  BY <1>3 DEF IInv, NotDue
<1>10. Ended' /\ NeverOversleeps'
  <2>1. pc' \notin {"select", "returned"} /\ pc \notin {"select", "returned"}
    BY <1>3
  <2> QED BY <1>3, <2>1 DEF IInv, Ended, NeverOversleeps
<1> QED BY <1>7, <1>8, <1>9, <1>10 DEF IInv
\* A target that keeps its cadence is left alone.
LEMMA SameCadenceKeepsInv ==
  ASSUME IInv, NEW t \in Targets, ApplyUpdate(t), taken[t] = interval[t]
  PROVE  IInv'
<1>1. /\ UNCHANGED <<next, interval, pending, history, clock, pc, loopNow, last, lastFlush,
                     callVars, timerAt, cancelled, stopped>>
      /\ pc = "apply" /\ taken' = [taken EXCEPT ![t] = 0]
  BY DEF ApplyUpdate
<1>2. Typed'
  <2>1. taken' \in [Targets -> Cadences \cup {0}]
    BY <1>1 DEF IInv, Typed
  <2> QED BY <2>1, <1>1 DEF IInv, Typed, callVars, history
<1>3. Accounted'
  <2> SUFFICES ASSUME NEW u \in Targets PROVE \E k, c \in Nat : SlotsInv(u, k, c)'
    BY DEF Accounted
  <2>1. PICK k \in Nat, c \in Nat : SlotsInv(u, k, c)
    BY DEF IInv, Accounted
  <2>2. SlotsInv(u, k, c)'
    BY <2>1, <1>1 DEF SlotsInv, history
  <2> QED BY <2>2
<1>4. NotDue'
  <2>1. \A u \in Targets : taken'[u] # 0 => taken[u] # 0
    BY <1>1 DEF IInv, Typed
  <2> QED BY <1>1, <2>1 DEF IInv, NotDue, history
<1>5. Ended' /\ NeverOversleeps'
  BY <1>1 DEF IInv, Ended, NeverOversleeps, callVars
<1> QED BY <1>2, <1>3, <1>4, <1>5 DEF IInv

\* The first slot under a new cadence: one interval after the last submission
\* at least, and after the wake if there was a submission in it.
LEMMA FirstSlotIsLate ==
  ASSUME IInv, NEW t \in Targets, NEW j \in Nat \ {0}
  PROVE  /\ FirstSlot(t, j) \in Nat
         /\ last[t] # None => FirstSlot(t, j) - last[t] >= j
         /\ sent[t] = 1 => FirstSlot(t, j) > loopNow
<1>1. /\ loopNow \in Nat /\ next[t] \in Nat /\ (last[t] = None \/ last[t] \in Nat)
  BY BoundAssumption DEF IInv, Typed
<1>2. CASE last[t] # None
  <2>1. FirstSlot(t, j) = Larger(last[t] + j, loopNow)
    BY <1>2 DEF FirstSlot
  <2>2. sent[t] = 1 => last[t] >= loopNow
    BY DEF IInv, NotDue
  <2> QED BY <1>1, <1>2, <2>1, <2>2 DEF Larger
<1>3. CASE last[t] = None
  <2>1. sent[t] # 1
    BY <1>3 DEF IInv, NotDue
  <2>2. FirstSlot(t, j) \in {Larger(next[t], loopNow), loopNow + j}
    BY <1>3 DEF FirstSlot
  <2>3. Larger(next[t], loopNow) \in Nat
    BY <1>1 DEF Larger
  <2> QED BY <1>1, <1>3, <2>1, <2>2, <2>3
<1> QED BY <1>2, <1>3

\* A new cadence: the slots of the old one are all the sink's when it ends.
LEMMA NewCadenceKeepsInv ==
  ASSUME IInv, NEW t \in Targets, ApplyUpdate(t), taken[t] # interval[t]
  PROVE  IInv'
<1>1. PICK k \in Nat, c \in Nat : SlotsInv(t, k, c)
  BY DEF IInv, Accounted
<1> DEFINE f == start[t]
           i == interval[t]
           e == epoch[t]
           first == FirstSlot(t, taken[t])
<1>2. /\ f \in Nat /\ i \in Nat \ {0} /\ e \in Nat /\ c \in 0 .. k /\ loopNow \in Nat
      /\ next[t] = Nth(f, i, k) /\ pending[t] = Gap(f, i, k, c)
  BY <1>1 DEF IInv, Typed, SlotsInv
<1>3. /\ UNCHANGED <<clock, pc, loopNow, last, lastFlush, callVars, timerAt,
                     cancelled, stopped, sent>>
      /\ pc = "apply" /\ taken' = [taken EXCEPT ![t] = 0]
      /\ taken[t] # 0
      /\ Hand(t, GapSlots(pending[t]), pending[t].count)
      /\ pending' = [pending EXCEPT ![t] = NoGap]
      /\ interval' = [interval EXCEPT ![t] = taken[t]]
      /\ next' = [next EXCEPT ![t] = first]
      /\ ended' = [ended EXCEPT ![t] = @ \cup
           Marked(e, {s \in f .. loopNow : (s - f) % i = 0})]
      /\ epoch' = [epoch EXCEPT ![t] = @ + 1]
      /\ start' = [start EXCEPT ![t] = next'[t]]
  BY DEF ApplyUpdate, Marked
<1>4. taken[t] \in Nat \ {0}
  BY <1>3, IntervalAssumption DEF IInv, Typed
<1>5. /\ first \in Nat /\ (sent[t] = 1 => first > loopNow)
  BY <1>4, FirstSlotIsLate
<1>6. {s \in f .. loopNow : (s - f) % i = 0} = Stretch(f, i, 0, k)
  <2>1. next[t] > loopNow /\ next[t] \in Nat
    BY <1>3 DEF IInv, NotDue, Typed
  <2>2. k > 0 => next[t] - i <= loopNow
    BY <1>1 DEF SlotsInv
  <2>3. loopNow \in Int /\ loopNow < Nth(f, i, k) /\ (k > 0 => loopNow >= Nth(f, i, k) - i)
    BY <1>2, <2>1, <2>2
  <2> HIDE DEF f, i
  <2> QED BY <1>2, <2>3, SlotsUpTo
<1> HIDE DEF f, i, e, first
<1>7. Hand(t, Stretch(f, i, k - c, k), k - (k - c))
  <2>1. GapSlots(Gap(f, i, k, c)) = Stretch(f, i, k - c, k) /\ Gap(f, i, k, c).count = c
    BY <1>2, GapHolds
  <2>2. k - (k - c) = c
    BY <1>2
  <2> QED BY <1>2, <1>3, <2>1, <2>2
<1>8. /\ handed'[t] = ended[t] \cup Marked(e, Stretch(f, i, 0, k))
      /\ handedCount'[t] = Cardinality(handed'[t])
      /\ handed' \in [Targets -> SUBSET (Nat \X Nat)] /\ handedCount' \in [Targets -> Nat]
  BY <1>1, <1>7, HandSlots DEF f, i, e
<1>9. ended' = [ended EXCEPT ![t] = @ \cup Marked(e, Stretch(f, i, 0, k))]
  BY <1>3, <1>6
<1>10. /\ next'[t] = first /\ start'[t] = first /\ interval'[t] = taken[t]
       /\ pending'[t] = NoGap /\ epoch'[t] = e + 1 /\ taken'[t] = 0
       /\ ended'[t] = handed'[t]
       /\ start' = [start EXCEPT ![t] = first]
  BY <1>3, <1>8, <1>9 DEF IInv, Typed, e
<1>11. Typed'
  <2>1. /\ next' \in [Targets -> Nat] /\ start' \in [Targets -> Nat]
        /\ interval' \in [Targets -> Nat \ {0}] /\ epoch' \in [Targets -> Nat]
    BY <1>3, <1>4, <1>5, <1>10 DEF IInv, Typed
  <2>2. pending' \in [Targets -> Gaps] /\ taken' \in [Targets -> Cadences \cup {0}]
    BY <1>3 DEF IInv, Typed, Gaps
  <2>3. ended' \in [Targets -> SUBSET (Nat \X Nat)]
    <3>1. ended'[t] \subseteq Nat \X Nat
      BY <1>8, <1>10
    <3> QED BY <1>9, <1>10, <3>1 DEF IInv, Typed
  <2> QED BY <2>1, <2>2, <2>3, <1>3, <1>8 DEF IInv, Typed, callVars
<1>12. Accounted'
  <2>1. SlotsInv(t, 0, 0)'
    <3>1. IsFiniteSet(ended'[t])
      <4>1. IsFiniteSet(ended[t])
        BY <1>1 DEF SlotsInv
      <4>2. IsFiniteSet(Marked(e, Stretch(f, i, 0, k)))
        BY <1>2, StretchSize
      <4>3. IsFiniteSet(ended[t] \cup Marked(e, Stretch(f, i, 0, k)))
        BY <4>1, <4>2, FS_Union
      <4> QED BY <4>3, <1>8, <1>10
    <3>2. \A x \in ended'[t] : x[1] < epoch'[t]
      <4>1. \A x \in Marked(e, Stretch(f, i, 0, k)) : x[1] = e
        BY DEF Marked
      <4>2. \A x \in ended[t] : x[1] \in Nat /\ x[1] < e
        BY <1>1 DEF SlotsInv, IInv, Typed, e
      <4>3. \A x \in ended'[t] : x[1] \in Nat /\ x[1] <= e
        BY <1>2, <1>8, <1>10, <4>1, <4>2
      <4> QED BY <1>2, <1>10, <4>3
    <3>3. next'[t] = Nth(start'[t], interval'[t], 0)
      BY <1>4, <1>5, <1>10 DEF Nth
    <3>4. Marked(epoch'[t], Stretch(start'[t], interval'[t], 0, 0 - 0)) = {}
      BY DEF Marked, Stretch
    <3>5. pending'[t] = Gap(start'[t], interval'[t], 0, 0)
      BY <1>10 DEF Gap
    <3> QED BY <1>8, <1>10, <3>1, <3>2, <3>3, <3>4, <3>5 DEF SlotsInv
  <2>2. ASSUME NEW u \in Targets, u # t PROVE \E k2, c2 \in Nat : SlotsInv(u, k2, c2)'
    <3>1. PICK k2 \in Nat, c2 \in Nat : SlotsInv(u, k2, c2)
      BY DEF IInv, Accounted
    <3>2. /\ next'[u] = next[u] /\ pending'[u] = pending[u] /\ handed'[u] = handed[u]
          /\ handedCount'[u] = handedCount[u] /\ interval'[u] = interval[u]
          /\ ended'[u] = ended[u] /\ epoch'[u] = epoch[u] /\ start'[u] = start[u]
      BY <1>3, <2>2 DEF IInv, Typed, Hand
    <3>3. loopNow' \in Nat /\ loopNow <= loopNow'
      BY <1>2, <1>3
    <3> QED BY <3>1, <3>2, <3>3, SlotsKept DEF IInv
  <2> QED BY <2>1, <2>2 DEF Accounted
<1>13. NotDue'
  <2>1. \A u \in Targets : u # t => next'[u] = next[u] /\ taken'[u] = taken[u]
    BY <1>3 DEF IInv, Typed
  <2>2. sent'[t] = 1 => last'[t] # None /\ last'[t] >= loopNow' /\ next'[t] > loopNow'
    BY <1>3, <1>5, <1>10 DEF IInv, NotDue
  <2> QED BY <1>3, <1>10, <2>1, <2>2 DEF IInv, NotDue
<1>14. Ended' /\ NeverOversleeps'
  BY <1>3 DEF IInv, Ended, NeverOversleeps, callVars
<1> QED BY <1>11, <1>12, <1>13, <1>14 DEF IInv
-----------------------------------------------------------------------------
(* The other steps, and the theorems.                                      *)

\* Slots are accounted for by a step that does not touch them.
LEMMA QuietKeepsSlots ==
  ASSUME IInv, loopNow' \in Nat, loopNow <= loopNow',
         UNCHANGED <<next, interval, pending, handed, handedCount, ended, epoch, start>>
  PROVE  Accounted'
<1> SUFFICES ASSUME NEW t \in Targets PROVE \E k, c \in Nat : SlotsInv(t, k, c)'
  BY DEF Accounted
<1>1. PICK k \in Nat, c \in Nat : SlotsInv(t, k, c)
  BY DEF IInv, Accounted
<1>2. SlotsInv(t, k, c)'
  BY <1>1, SlotsKept DEF IInv
<1> QED BY <1>2

\* The timer that Run sleeps on is not later than what it sleeps for.
LEMMA ArmTimerKeepsInv ==
  ASSUME IInv, ArmTimer
  PROVE  IInv'
<1>1. PICK t \in Earliest(Targets) : timerAt' = Larger(NextWake(t), clock)
  BY DEF ArmTimer
<1>2. /\ UNCHANGED <<clock, runVars, callVars, cancelled, stopped, history>>
      /\ pc = "arm" /\ pc' = "select"
  BY DEF ArmTimer, Stage
<1>3. t \in Targets /\ \A u \in Targets : next[t] <= next[u]
  BY <1>1 DEF Earliest
<1>4. /\ next \in [Targets -> Nat] /\ lastFlush + GapFlushInterval \in Nat
      /\ clock \in Nat /\ next[t] \in Nat
  BY <1>3, IntervalAssumption, BoundAssumption DEF IInv, Typed
<1>5. /\ NextWake(t) \in Nat /\ NextWake(t) <= next[t]
      /\ Pending # {} => NextWake(t) <= lastFlush + GapFlushInterval
  BY <1>4 DEF NextWake
<1>6. timerAt' \in Nat
  BY <1>1, <1>4, <1>5 DEF Larger
<1>7. Typed'
  BY <1>2, <1>6 DEF IInv, Typed, runVars, callVars, history, Stages
<1>8. Accounted'
  <2>1. loopNow' \in Nat /\ loopNow <= loopNow'
    BY <1>2 DEF IInv, Typed, runVars
  <2> QED BY <1>2, <2>1, QuietKeepsSlots DEF runVars, history
<1>9. NotDue' /\ Ended'
  BY <1>2 DEF IInv, NotDue, Ended, runVars, callVars, history
<1>10. NeverOversleeps'
  <2>1. timerAt' # None
    BY <1>6 DEF None
  <2>2. ASSUME NEW u \in Targets PROVE timerAt' <= Larger(next[u], clock)
    <3>1. next[u] \in Nat /\ NextWake(t) <= next[u]
      BY <1>3, <1>4, <1>5
    <3> QED BY <1>1, <1>4, <1>5, <3>1 DEF Larger
  <2>3. Pending # {} => timerAt' <= Larger(lastFlush + GapFlushInterval, clock)
    BY <1>1, <1>4, <1>5 DEF Larger
  <2>4. Pending' = Pending /\ next' = next /\ clock' = clock /\ lastFlush' = lastFlush
    BY <1>2 DEF Pending, runVars
  <2> QED BY <2>1, <2>2, <2>3, <2>4 DEF NeverOversleeps
<1> QED BY <1>7, <1>8, <1>9, <1>10 DEF IInv

\* The clock moves on while Run sleeps, and its timer is due sooner.
LEMMA TickKeepsInv ==
  ASSUME IInv, Tick
  PROVE  IInv'
<1>1. /\ UNCHANGED <<pc, runVars, callVars, timerAt, cancelled, stopped, history>>
      /\ clock < MaxTime /\ clock' = clock + 1
  BY DEF Tick
<1>2. Typed'
  <2>1. clock' \in 0 .. MaxTime /\ loopNow' \in 0 .. clock'
    BY <1>1, BoundAssumption DEF IInv, Typed, runVars
  <2> QED BY <1>1, <2>1 DEF IInv, Typed, runVars, callVars, history
<1>3. Accounted'
  <2>1. loopNow' \in Nat /\ loopNow <= loopNow'
    BY <1>1 DEF IInv, Typed, runVars
  <2> QED BY <1>1, <2>1, QuietKeepsSlots DEF runVars, history
<1>4. NotDue' /\ Ended'
  BY <1>1 DEF IInv, NotDue, Ended, runVars, callVars, history
<1>5. NeverOversleeps'
  <2> SUFFICES ASSUME pc = "select" PROVE NeverOversleeps'
    BY <1>1 DEF NeverOversleeps
  <2>1. ASSUME NEW d \in Nat, timerAt <= Larger(d, clock) PROVE timerAt <= Larger(d, clock')
    BY <1>1, <2>1, BoundAssumption DEF Larger, IInv, Typed, None
  <2>2. Pending' = Pending /\ next' = next /\ lastFlush' = lastFlush /\ timerAt' = timerAt
    BY <1>1 DEF Pending, runVars
  <2>3. lastFlush + GapFlushInterval \in Nat /\ \A u \in Targets : next[u] \in Nat
    BY IntervalAssumption, BoundAssumption DEF IInv, Typed
  <2>4. timerAt # None /\ \A u \in Targets : timerAt <= Larger(next[u], clock)
    BY DEF IInv, NeverOversleeps
  <2>5. Pending # {} => timerAt <= Larger(lastFlush + GapFlushInterval, clock)
    BY DEF IInv, NeverOversleeps
  <2>6. \A u \in Targets : timerAt <= Larger(next[u], clock')
    BY <2>1, <2>3, <2>4
  <2>7. Pending # {} => timerAt <= Larger(lastFlush + GapFlushInterval, clock')
    BY <2>1, <2>3, <2>5
  <2> QED BY <2>2, <2>4, <2>6, <2>7 DEF NeverOversleeps
<1> QED BY <1>2, <1>3, <1>4, <1>5 DEF IInv

LEMMA InitIInv == Init => IInv
<1> SUFFICES ASSUME Init PROVE IInv
  OBVIOUS
<1>1. /\ NormalInterval \in [Targets -> Nat \ {0}]
      /\ next \in [Targets -> UNION {0 .. NormalInterval[t] - 1 : t \in Targets}]
  BY IntervalAssumption DEF Init
<1>2. next \in [Targets -> Nat]
  <2>1. UNION {0 .. NormalInterval[t] - 1 : t \in Targets} \subseteq Nat
    OBVIOUS
  <2> QED BY <1>1, <2>1
<1>3. PICK t0 \in Earliest(Targets) : timerAt = next[t0]
  BY DEF Init
<1>4. timerAt \in Nat /\ \A u \in Targets : timerAt <= next[u]
  BY <1>2, <1>3 DEF Earliest
<1>5. Typed
  <2>1. 0 \in 0 .. MaxTime /\ 0 \in 0 .. 0
    BY BoundAssumption
  <2>2. /\ pending \in [Targets -> Gaps] /\ last \in [Targets -> 0 .. MaxTime \cup {None}]
        /\ updates \in [Targets -> Cadences \cup {0}]
        /\ taken \in [Targets -> Cadences \cup {0}]
    BY DEF Init, Gaps
  <2>3. /\ handed \in [Targets -> SUBSET (Nat \X Nat)] /\ handedCount \in [Targets -> Nat]
        /\ ended \in [Targets -> SUBSET (Nat \X Nat)]
        /\ epoch \in [Targets -> Nat] /\ sent \in [Targets -> {0, 1}]
    BY DEF Init
  <2>4. interval \in [Targets -> Nat \ {0}] /\ start \in [Targets -> Nat]
    BY <1>1, <1>2 DEF Init
  <2>5. /\ clock = 0 /\ loopNow = 0 /\ pc \in Stages /\ lastFlush = 0
        /\ wake \in BOOLEAN /\ cancelled \in BOOLEAN /\ stopped \in BOOLEAN
    BY DEF Init, Stages
  <2> QED BY <1>2, <1>4, <2>1, <2>2, <2>3, <2>4, <2>5 DEF Typed
<1>6. Accounted
  <2> SUFFICES ASSUME NEW t \in Targets PROVE SlotsInv(t, 0, 0)
    BY DEF Accounted
  <2>1. next[t] = Nth(start[t], interval[t], 0)
    BY <1>2, <1>5 DEF Init, Nth, Typed
  <2>2. /\ pending[t] = NoGap /\ ended[t] = {} /\ handed[t] = {} /\ handedCount[t] = 0
    BY DEF Init
  <2>3. Marked(epoch[t], Stretch(start[t], interval[t], 0, 0 - 0)) = {}
    BY DEF Marked, Stretch
  <2>4. Gap(start[t], interval[t], 0, 0) = NoGap
    BY DEF Gap
  <2>5. IsFiniteSet({}) /\ Cardinality({}) = 0
    BY FS_EmptySet
  <2> QED BY <2>1, <2>2, <2>3, <2>4, <2>5 DEF SlotsInv
<1>7. NotDue /\ Ended
  BY DEF Init, NotDue, Ended
<1>8. NeverOversleeps
  <2>1. Pending = {} /\ clock = 0 /\ timerAt # None
    BY <1>4 DEF Init, Pending, None
  <2>2. \A u \in Targets : timerAt <= Larger(next[u], clock)
    BY <1>2, <1>4, <2>1 DEF Larger
  <2> QED BY <2>1, <2>2 DEF NeverOversleeps
<1> QED BY <1>5, <1>6, <1>7, <1>8 DEF IInv

\* Every step keeps the invariant.
LEMMA NextIInv == IInv /\ [Next]_vars => IInv'
<1> SUFFICES ASSUME IInv, [Next]_vars PROVE IInv'
  OBVIOUS
<1>1. CASE WakeUp
  <2>1. /\ UNCHANGED <<clock, next, interval, last, pending, taken, lastFlush, updates,
                       calls, requested, cancelled, stopped, handed, handedCount,
                       ended, epoch, start>>
        /\ pc = "select" /\ pc' = "submit" /\ loopNow' = clock
        /\ sent' = [t \in Targets |-> 0]
        /\ timerAt' \in {timerAt, None} /\ wake' \in {wake, FALSE}
    BY <1>1 DEF WakeUp, Stage
  <2>2. loopNow' \in Nat /\ loopNow <= loopNow' /\ loopNow' \in 0 .. clock
    BY <2>1 DEF IInv, Typed
  <2>3. Typed'
    BY <2>1, <2>2 DEF IInv, Typed, Stages
  <2>4. Accounted'
    BY <2>1, <2>2, QuietKeepsSlots
  <2>5. NotDue' /\ Ended' /\ NeverOversleeps'
    BY <2>1 DEF IInv, NotDue, Ended, NeverOversleeps
  <2> QED BY <2>3, <2>4, <2>5 DEF IInv
<1>2. CASE SubmitDone \/ ApplyDone \/ Stop \/ CancelContext
  <2>1. /\ UNCHANGED <<clock, runVars, callVars, timerAt, stopped, history>>
        /\ pc' \in Stages /\ cancelled' \in BOOLEAN
        /\ (pc \notin {"returned"} /\ pc' \notin {"returned"}) \/ pc' = pc
        /\ pc' # "select" \/ pc' = pc
        /\ pc' = "take" => (\A t \in Targets : next[t] > loopNow) \/ pc = "take"
        /\ pc' = "apply" => pc = "apply"
    BY <1>2 DEF SubmitDone, ApplyDone, Stop, CancelContext, Stage, Stages, IInv, Typed
  <2>2. loopNow' \in Nat /\ loopNow <= loopNow'
    BY <2>1 DEF IInv, Typed, runVars
  <2>3. Typed'
    BY <2>1 DEF IInv, Typed, runVars, callVars, history
  <2>4. Accounted'
    BY <2>1, <2>2, QuietKeepsSlots DEF runVars, history
  <2>5. NotDue'
    BY <2>1 DEF IInv, NotDue, runVars, history
  <2>6. Ended' /\ NeverOversleeps'
    BY <2>1 DEF IInv, Ended, NeverOversleeps, Pending, runVars, callVars
  <2> QED BY <2>3, <2>4, <2>5, <2>6 DEF IInv
<1>3. CASE TakeUpdates
  <2>1. /\ UNCHANGED <<clock, loopNow, next, interval, last, pending, lastFlush, wake,
                       calls, requested, timerAt, cancelled, stopped, history>>
        /\ pc = "take" /\ pc' = "apply" /\ taken' = updates
        /\ updates' = [t \in Targets |-> 0]
    BY <1>3 DEF TakeUpdates, Stage
  <2>2. loopNow' \in Nat /\ loopNow <= loopNow'
    BY <2>1 DEF IInv, Typed
  <2>3. Typed'
    BY <2>1 DEF IInv, Typed, Stages, history
  <2>4. Accounted'
    BY <2>1, <2>2, QuietKeepsSlots DEF history
  <2>5. NotDue' /\ Ended' /\ NeverOversleeps'
    BY <2>1 DEF IInv, NotDue, Ended, NeverOversleeps, history
  <2> QED BY <2>3, <2>4, <2>5 DEF IInv
<1>4. CASE FlushDone
  <2>1. /\ UNCHANGED <<clock, loopNow, next, interval, last, pending, taken, callVars,
                       timerAt, cancelled, stopped, history>>
        /\ pc = "flush" /\ pc' = "arm" /\ lastFlush' \in {lastFlush, loopNow}
    BY <1>4 DEF FlushDone, Stage
  <2>2. loopNow' \in Nat /\ loopNow <= loopNow' /\ lastFlush' \in 0 .. MaxTime
    BY <2>1, BoundAssumption DEF IInv, Typed
  <2>3. Typed'
    BY <2>1, <2>2 DEF IInv, Typed, Stages, callVars, history
  <2>4. Accounted'
    BY <2>1, <2>2, QuietKeepsSlots DEF history
  <2>5. NotDue' /\ Ended' /\ NeverOversleeps'
    BY <2>1 DEF IInv, NotDue, Ended, NeverOversleeps, history, callVars
  <2> QED BY <2>3, <2>4, <2>5 DEF IInv
<1>5. CASE ArmTimer
  BY <1>5, ArmTimerKeepsInv
<1>6. CASE Return
  <2>1. /\ UNCHANGED <<clock, runVars, wake, calls, requested, timerAt, cancelled, history>>
        /\ pc = "stopping" /\ pc' = "returned" /\ Pending = {} /\ stopped' = TRUE
        /\ updates' = [t \in Targets |-> 0]
    BY <1>6 DEF Return, Stage
  <2>2. loopNow' \in Nat /\ loopNow <= loopNow'
    BY <2>1 DEF IInv, Typed, runVars
  <2>3. Typed'
    BY <2>1 DEF IInv, Typed, Stages, runVars, history
  <2>4. Accounted'
    BY <2>1, <2>2, QuietKeepsSlots DEF runVars, history
  <2>5. NotDue' /\ Ended' /\ NeverOversleeps'
    BY <2>1 DEF IInv, NotDue, Ended, NeverOversleeps, Pending, runVars, history
  <2> QED BY <2>3, <2>4, <2>5 DEF IInv
<1>7. ASSUME NEW t \in Targets,
             SubmitAccepted(t) \/ SubmitRejected(t) \/ ApplyUpdate(t) \/ RecordPending(t)
      PROVE  IInv'
  <2>1. CASE SubmitAccepted(t)
    BY <2>1, SubmitAcceptedKeepsInv
  <2>2. CASE SubmitRejected(t)
    BY <2>2, SubmitRejectedKeepsInv
  <2>3. CASE ApplyUpdate(t)
    BY <2>3, SameCadenceKeepsInv, NewCadenceKeepsInv
  <2>4. CASE RecordPending(t)
    BY <2>4, RecordPendingKeepsInv
  <2> QED BY <1>7, <2>1, <2>2, <2>3, <2>4
<1>8. ASSUME NEW t \in Targets, NEW i \in Cadences, UpdateInterval(t, i)
      PROVE  IInv'
  <2>1. /\ UNCHANGED <<clock, pc, runVars, timerAt, cancelled, stopped, history>>
        /\ ~stopped /\ updates' = [updates EXCEPT ![t] = i] /\ wake' = TRUE
    BY <1>8 DEF UpdateInterval
  <2>2. loopNow' \in Nat /\ loopNow <= loopNow'
    BY <2>1 DEF IInv, Typed, runVars
  <2>3. Typed'
    BY <2>1 DEF IInv, Typed, runVars, history
  <2>4. Accounted'
    BY <2>1, <2>2, QuietKeepsSlots DEF runVars, history
  <2>5. NotDue' /\ Ended' /\ NeverOversleeps'
    BY <2>1 DEF IInv, NotDue, Ended, NeverOversleeps, Pending, runVars, history
  <2> QED BY <2>3, <2>4, <2>5 DEF IInv
<1>9. CASE Tick
  BY <1>9, TickKeepsInv
<1>10. CASE UNCHANGED vars
  <2>1. loopNow' \in Nat /\ loopNow <= loopNow'
    BY <1>10 DEF IInv, Typed, vars, runVars
  <2>2. Accounted'
    BY <1>10, <2>1, QuietKeepsSlots DEF vars, runVars, history
  <2>3. Typed' /\ NotDue' /\ Ended'
    BY <1>10 DEF IInv, Typed, NotDue, Ended, vars, runVars, callVars, history
  <2>4. NeverOversleeps'
    BY <1>10 DEF IInv, NeverOversleeps, Pending, vars, runVars
  <2> QED BY <2>2, <2>3, <2>4 DEF IInv
<1> QED
  BY <1>1, <1>2, <1>3, <1>4, <1>5, <1>6, <1>7, <1>8, <1>9, <1>10 DEF Next, RunStep

\* A step that changes a cadence puts the next slot one interval after the last
\* submission, or later.
LEMMA NextKeepsDistance == IInv /\ [Next]_vars => [KeepsDistance]_vars
<1> SUFFICES ASSUME IInv, Next, NEW t \in Targets, epoch'[t] # epoch[t], last[t] # None
             PROVE  next'[t] - last[t] >= interval'[t]
  BY DEF KeepsDistance
<1>1. PICK u \in Targets : ApplyUpdate(u) /\ taken[u] # interval[u]
  BY DEF Next, RunStep, WakeUp, SubmitDone, TakeUpdates, ApplyDone, FlushDone, ArmTimer,
         Stop, Return, SubmitAccepted, SubmitRejected, Due, ApplyUpdate, RecordPending,
         UpdateInterval, CancelContext, Tick, history
<1>2. /\ taken[u] # 0 /\ interval' = [interval EXCEPT ![u] = taken[u]]
      /\ next' = [next EXCEPT ![u] = FirstSlot(u, taken[u])]
      /\ epoch' = [epoch EXCEPT ![u] = @ + 1]
  BY <1>1 DEF ApplyUpdate, history
<1>3. u = t
  BY <1>2 DEF IInv, Typed
<1>4. taken[u] \in Nat \ {0}
  BY <1>2, IntervalAssumption DEF IInv, Typed
<1>5. FirstSlot(t, taken[t]) - last[t] >= taken[t]
  BY <1>3, <1>4, FirstSlotIsLate
<1>6. next'[t] = FirstSlot(t, taken[t]) /\ interval'[t] = taken[t]
  BY <1>2, <1>3 DEF IInv, Typed
<1> QED BY <1>5, <1>6

\* Every variable keeps its type, gaps and deadlines included.
THEOREM TypeCorrect == Spec => []TypeOK
BY InitIInv, NextIInv, IInvProperties, PTL DEF Spec

\* submitDue, addGap, the flush, applyUpdates and the way out of Run: every slot
\* that comes due is handed over once or waits in one gap of its own cadence, a
\* wake submits a target at most once, and nothing is left when Run returns.
THEOREM SlotsAreAccounted == Spec => []SlotsAccounted
BY InitIInv, NextIInv, IInvProperties, PTL DEF Spec

\* nextWake: the timer Run sleeps on is not later than any deadline or flush.
THEOREM RunNeverOversleeps == Spec => []NeverOversleeps
BY InitIInv, NextIInv, IInvProperties, PTL DEF Spec

\* applyUpdates: a new cadence begins one interval after the last accepted
\* submission, or later.
THEOREM ChangesKeepDistance == Spec => ChangeKeepsDistance
BY InitIInv, NextIInv, NextKeepsDistance, PTL DEF Spec, ChangeKeepsDistance
=============================================================================
