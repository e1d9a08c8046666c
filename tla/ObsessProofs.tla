---------------------------- MODULE ObsessProofs ----------------------------
(***************************************************************************)
(* Proofs about Obsess, for any targets, policy and bounds: the types, the *)
(* memory bound with the counters it trusts, that the cadence requested is *)
(* that of the mode, that an incident teaches no slow sample, and that it  *)
(* ends only when the probes bear that out.                                *)
(***************************************************************************)
EXTENDS Obsess, Sums, SequenceTheorems

Samples == [at : Instant, rtt : Rtts]
States ==
  [active : BOOLEAN, base : Baseline,
   lastBad : (0 .. MaxTime + Timeout) \cup {None},
   healthySince : Instant \cup {None}, healthyThrough : Instant \cup {None},
   history : Seq(Samples), limited : BOOLEAN]
Worlds == [state : [Targets -> States], samples : Nat]

\* What holds of one target, its fifo aside.
GoodState(s) ==
  /\ s.healthySince = None <=> s.healthyThrough = None
  /\ ~s.active => s.healthySince = None
  /\ s.active => \A i \in 1 .. Len(s.history) : ~Exceeds(s.history[i].rtt, s.base)
\* What all of them hold.
Held(w) == Sum([t \in Targets |-> Len(w.state[t].history)])
Counted(w) == w \in Worlds /\ w.samples = Held(w)
WorldOK(w) == Counted(w) /\ \A t \in Targets : GoodState(w.state[t])

\* v is w but for the state of t, with its samples counted.
Differs(w, v, t) ==
  /\ v.state \in [Targets -> States] /\ v = [state |-> v.state, samples |-> v.samples]
  /\ \A u \in Targets : u # t => v.state[u] = w.state[u]
  /\ v.samples = w.samples + (Len(v.state[t].history) - Len(w.state[t].history))
\* The same mode, baseline and healthy run.
SameHealth(s, r) ==
  /\ r.active = s.active /\ r.base = s.base
  /\ r.healthySince = s.healthySince /\ r.healthyThrough = s.healthyThrough
Put(w, t, s) == [w EXCEPT !.state[t] = s]
Limit(w, t) == [w EXCEPT !.state[t].limited = TRUE]
Learn(w, t, sample) ==
  [w EXCEPT !.samples = @ + 1, !.state[t].history = Append(@, sample)]

\* The same targets are in an incident, with the same baselines.
SameModes(w, v) ==
  \A t \in Targets : /\ v.state[t].active = w.state[t].active
                     /\ v.state[t].base = w.state[t].base
-----------------------------------------------------------------------------
(* Sums.                                                                   *)

\* Sum is a number, and changes with one of its terms.
LEMMA SumChanges ==
  ASSUME NEW e \in [Targets -> Nat], NEW f \in [Targets -> Nat], NEW t \in Targets,
         \A u \in Targets : u # t => f[u] = e[u]
  PROVE  Sum(e) \in Nat /\ Sum(f) \in Nat /\ Sum(f) = Sum(e) + (f[t] - e[t])
<1>1. IsFiniteSet(Targets)
  BY TargetsAssumption
<1> QED BY <1>1, SumFunctionChanges DEF Sum

\* The sum of the round trip times that a baseline begins with is a number.
LEMMA AverageIsBaseline ==
  ASSUME NEW s \in States
  PROVE  Average(s) \in Baseline
<1> DEFINE h == s.history
           S == DOMAIN h
           e == [i \in S |-> h[i].rtt]
           R(g) == g = [r \in SUBSET S |-> IF r = {} THEN 0
                                           ELSE h[Pick(r)].rtt + g[r \ {Pick(r)}]]
           c == CHOOSE g : R(g)
<1>1. h \in Seq(Samples)
  BY DEF States
<1>2. /\ Len(h) \in Nat /\ S = 1 .. Len(h) /\ \A i \in S : h[i] \in Samples
  BY <1>1, LenProperties, ElementOfSeq
<1>3. e \in [S -> Nat]
  BY <1>2, PolicyAssumption DEF Samples
<1>4. IsFiniteSet(S)
  BY <1>2, FS_Interval
<1>5. FoldFunction(LAMBDA x, n : x.rtt + n, 0, h) = c[S]
  BY DEF FoldFunction, FoldFunctionOnSet, MapThenFoldSet, Pick
<1>6. \A g : R(g) <=> Adds(e, S, g)
  <2>1. \A r \in SUBSET S : r # {} => e[Pick(r)] = h[Pick(r)].rtt
    BY PickIsIn
  <2> HIDE DEF e, h, S
  <2>2. \A g : [r \in SUBSET S |-> IF r = {} THEN 0 ELSE h[Pick(r)].rtt + g[r \ {Pick(r)}]]
                 = [r \in SUBSET S |-> Step(e, r, g)]
    BY <2>1 DEF Step
  <2> QED BY <2>2 DEF Adds
<1>7. Adds(e, S, c)
  <2>1. \E g : R(g)
    BY <1>4, <1>6, SumsExist
  <2>2. R(c)
    BY <2>1
  <2> QED BY <1>6, <2>2
<1> HIDE DEF c, e, S
<1>8. \A r \in SUBSET S : c[r] \in Nat
  BY <1>3, <1>4, <1>7, SumsAreNat
<1>9. Average(s) = [sum |-> c[S], count |-> Len(h)]
  BY <1>5 DEF Average
<1> QED BY <1>2, <1>8, <1>9 DEF Baseline
-----------------------------------------------------------------------------
(* The helpers.                                                            *)

\* The counter of samples stays right when one target differs.
LEMMA CountedChanges ==
  ASSUME NEW w, Counted(w), NEW t \in Targets, NEW v, Differs(w, v, t)
  PROVE  Counted(v)
<1> DEFINE e == [u \in Targets |-> Len(w.state[u].history)]
           f == [u \in Targets |-> Len(v.state[u].history)]
<1>1. \A s \in States : Len(s.history) \in Nat
  BY LenProperties DEF States
<1>2. w.state \in [Targets -> States] /\ v.state \in [Targets -> States]
  BY DEF Counted, Worlds, Differs
<1>3. e \in [Targets -> Nat] /\ f \in [Targets -> Nat]
  BY <1>1, <1>2
<1>4. \A u \in Targets : u # t => f[u] = e[u]
  BY DEF Differs
<1>5. /\ Sum(e) = w.samples /\ Sum(f) = Held(v)
      /\ v.samples = w.samples + (f[t] - e[t])
  BY DEF Counted, Held, Differs
<1> HIDE DEF e, f
<1>6. Sum(f) \in Nat /\ Sum(f) = Sum(e) + (f[t] - e[t])
  BY <1>3, <1>4, SumChanges
<1>7. v.samples = Held(v) /\ v.samples \in Nat
  BY <1>5, <1>6
<1>8. v \in Worlds
  BY <1>2, <1>7 DEF Differs, Worlds
<1> QED BY <1>7, <1>8 DEF Counted

\* DropFirst keeps the last samples, in order, and counts them.
LEMMA DropFirstKeeps ==
  ASSUME NEW w, Counted(w), NEW t \in Targets, NEW n \in Nat,
         n <= Len(w.state[t].history)
  PROVE  /\ Counted(DropFirst(w, t, n)) /\ Differs(w, DropFirst(w, t, n), t)
         /\ DropFirst(w, t, n).samples = w.samples - n
         /\ SameHealth(w.state[t], DropFirst(w, t, n).state[t])
         /\ Len(DropFirst(w, t, n).state[t].history) = Len(w.state[t].history) - n
         /\ GoodState(w.state[t]) => GoodState(DropFirst(w, t, n).state[t])
<1> DEFINE s == w.state[t]
           h == SubSeq(s.history, n + 1, Len(s.history))
           v == DropFirst(w, t, n)
<1>1. w \in Worlds /\ s \in States /\ s.history \in Seq(Samples) /\ Len(s.history) \in Nat
  BY LenProperties DEF Counted, Worlds, States
<1>2. /\ h \in Seq(Samples) /\ Len(h) = Len(s.history) - n
      /\ \A i \in 1 .. Len(h) : h[i] = s.history[n + i]
  <2>1. \A i \in n + 1 .. Len(s.history) : s.history[i] \in Samples
    BY <1>1, ElementOfSeq
  <2>2. n + 1 \in Int /\ Len(s.history) \in Int
    BY <1>1
  <2>3. /\ h \in Seq(Samples)
        /\ Len(h) = IF n + 1 <= Len(s.history) THEN Len(s.history) - (n + 1) + 1 ELSE 0
        /\ \A i \in 1 .. Len(s.history) - (n + 1) + 1 : h[i] = s.history[n + 1 + i - 1]
    BY <2>1, <2>2, SubSeqProperties, SMTT(30)
  <2>4. \A i \in Nat : n + 1 + i - 1 = n + i
    BY <2>2
  <2> HIDE DEF h
  <2>5. Len(h) = Len(s.history) - n
    BY <2>2, <2>3
  <2>6. \A i \in 1 .. Len(h) : i \in Nat /\ i \in 1 .. Len(s.history) - (n + 1) + 1
    BY <2>2, <2>5
  <2>7. h \in Seq(Samples)
    BY <2>3
  <2>8. \A i \in 1 .. Len(h) : h[i] = s.history[n + i]
    BY <2>3, <2>4, <2>6
  <2> QED BY <2>5, <2>7, <2>8
<1>3. v = [w EXCEPT !.samples = @ - n, !.state[t].history = h]
  BY DEF DropFirst
<1> HIDE DEF h, v
<1>4. v.samples = w.samples - n /\ v.state = [w.state EXCEPT ![t].history = h]
  BY <1>1, <1>3 DEF Worlds
<1>5. v.state[t] = [s EXCEPT !.history = h] /\ v.state[t].history = h
  BY <1>1, <1>4 DEF Worlds, States
<1>6. v.state \in [Targets -> States]
  BY <1>1, <1>2, <1>4, ZenonT(40) DEF Worlds, States
<1>7. Differs(w, v, t)
  <2>1. v = [state |-> v.state, samples |-> v.samples]
    BY <1>1, <1>3 DEF Worlds
  <2>2. v.samples = w.samples + (Len(h) - Len(s.history))
    BY <1>1, <1>2, <1>4 DEF Worlds
  <2>3. \A u \in Targets : u # t => v.state[u] = w.state[u]
    BY <1>1, <1>4 DEF Worlds
  <2> QED BY <1>5, <1>6, <2>1, <2>2, <2>3 DEF Differs
<1>0. SameHealth(s, v.state[t])
  BY <1>1, <1>5 DEF States, SameHealth
<1>8. GoodState(s) => GoodState(v.state[t])
  <2>1. SameHealth(s, v.state[t])
    BY <1>0
  <2>2. \A i \in 1 .. Len(h) : n + i \in 1 .. Len(s.history)
    BY <1>1, <1>2
  <2> QED BY <1>2, <1>5, <2>1, <2>2 DEF GoodState, SameHealth
<1>9. Counted(v)
  BY <1>7, CountedChanges
<1> QED BY <1>0, <1>2, <1>4, <1>5, <1>7, <1>8, <1>9 DEF v, h

\* Another state with the same samples.
LEMMA PutKeeps ==
  ASSUME NEW w, Counted(w), NEW t \in Targets, NEW s \in States,
         s.history = w.state[t].history
  PROVE  /\ Counted(Put(w, t, s)) /\ Put(w, t, s).samples = w.samples
         /\ Put(w, t, s).state[t] = s
         /\ \A u \in Targets : u # t => Put(w, t, s).state[u] = w.state[u]
<1> DEFINE v == Put(w, t, s)
           m == Len(s.history)
<1>1. w \in Worlds /\ m \in Nat /\ w.samples \in Nat
  BY LenProperties DEF Counted, States, Worlds
<1>2. /\ v.samples = w.samples /\ v.state[t] = s /\ v.state \in [Targets -> States]
      /\ v = [state |-> v.state, samples |-> v.samples]
      /\ \A u \in Targets : u # t => v.state[u] = w.state[u]
  BY <1>1 DEF Worlds, Put
<1> HIDE DEF v
<1>3. v.samples = w.samples + (Len(v.state[t].history) - Len(w.state[t].history))
  <2>1. Len(v.state[t].history) = m /\ Len(w.state[t].history) = m
    BY <1>2
  <2> HIDE DEF m
  <2> QED BY <1>1, <1>2, <2>1
<1>4. Differs(w, v, t)
  BY <1>2, <1>3 DEF Differs
<1>5. Counted(v)
  BY <1>4, CountedChanges
<1> QED BY <1>2, <1>5 DEF v

\* pruneHistory leaves the mode alone.
LEMMA PruneKeeps ==
  ASSUME NEW w, WorldOK(w), NEW t \in Targets, NEW now
  PROVE  /\ WorldOK(Prune(w, t, now)) /\ Prune(w, t, now).samples <= w.samples
         /\ SameModes(w, Prune(w, t, now))
<1> DEFINE h == w.state[t].history
           n == Cardinality(Stale(h, now))
           v == Prune(w, t, now)
<1>1. Counted(w) /\ w.samples \in Nat /\ w.state \in [Targets -> States]
  BY DEF WorldOK, Counted, Worlds
<1>2. Len(h) \in Nat
  BY <1>1, LenProperties DEF States
<1>3. n \in Nat /\ n <= Len(h)
  <2>1. Stale(h, now) \in SUBSET (1 .. Len(h))
    BY DEF Stale
  <2>2. IsFiniteSet(1 .. Len(h)) /\ Cardinality(1 .. Len(h)) = Len(h)
    <3> HIDE DEF h
    <3>1. Len(h) \in Int /\ 1 \in Int
      BY <1>2
    <3>2. /\ IsFiniteSet(1 .. Len(h))
          /\ Cardinality(1 .. Len(h)) = IF 1 > Len(h) THEN 0 ELSE Len(h) - 1 + 1
      BY <3>1, FS_Interval
    <3> QED BY <1>2, <3>2
  <2>3. n \in Nat /\ n <= Len(h)
    BY <2>1, <2>2, FS_Subset, FS_CardinalityType
  <2> QED BY <1>2, <2>3
<1>4. v = DropFirst(w, t, n)
  BY DEF Prune
<1> HIDE DEF n, v
<1>0. /\ Counted(DropFirst(w, t, n)) /\ Differs(w, DropFirst(w, t, n), t)
      /\ DropFirst(w, t, n).samples = w.samples - n
      /\ SameHealth(w.state[t], DropFirst(w, t, n).state[t])
      /\ GoodState(w.state[t]) => GoodState(DropFirst(w, t, n).state[t])
  BY <1>1, <1>3, DropFirstKeeps
<1>5. /\ Counted(v) /\ Differs(w, v, t) /\ v.samples = w.samples - n
      /\ SameHealth(w.state[t], v.state[t])
      /\ GoodState(w.state[t]) => GoodState(v.state[t])
  BY <1>0, <1>4
<1>6. v.state[t].active = w.state[t].active /\ v.state[t].base = w.state[t].base
  BY <1>5 DEF SameHealth
<1>7. WorldOK(v)
  BY <1>5 DEF WorldOK, Differs
<1>8. v.samples <= w.samples
  BY <1>1, <1>3, <1>5
<1>9. SameModes(w, v)
  BY <1>5, <1>6 DEF SameModes, Differs
<1> QED BY <1>7, <1>8, <1>9 DEF v

\* interrupt ends a healthy run, and forgets the samples of the incident.
LEMMA InterruptKeeps ==
  ASSUME NEW w, Counted(w), NEW t \in Targets, NEW at \in 0 .. MaxTime + Timeout,
         \A u \in Targets : u # t => GoodState(w.state[u]),
         ~w.state[t].active => GoodState(w.state[t])
  PROVE  /\ WorldOK(Interrupt(w, t, at)) /\ Interrupt(w, t, at).samples <= w.samples
         /\ SameModes(w, Interrupt(w, t, at))
<1> DEFINE s == w.state[t]
           v == Interrupt(w, t, at)
           x == IF at > s.lastBad THEN at ELSE s.lastBad
           s1 == [s EXCEPT !.lastBad = x]
           raw == [w EXCEPT !.state[t].lastBad = IF at > @ THEN at ELSE @]
           bad == Put(w, t, s1)
           s2 == [s1 EXCEPT !.healthySince = None, !.healthyThrough = None]
           c == Put(bad, t, s2)
<1>1. /\ w \in Worlds /\ w.samples \in Nat /\ w.state \in [Targets -> States] /\ s \in States
      /\ s.active \in BOOLEAN /\ Len(s.history) \in Nat
  BY LenProperties DEF Counted, Worlds, States
<1>2. x \in (0 .. MaxTime + Timeout) \cup {None}
  BY <1>1 DEF States
<1>0. v = IF ~s.active THEN raw
          ELSE ClearHistory([raw EXCEPT !.state[t].healthySince = None,
                                        !.state[t].healthyThrough = None], t)
  BY DEF Interrupt
<1>3. raw = bad
  BY <1>1 DEF Worlds, Put
<1> HIDE DEF x
<1>4. /\ s1 \in States /\ s1.history = s.history /\ s1.active = s.active /\ s1.base = s.base
      /\ s1.healthySince = s.healthySince /\ s1.healthyThrough = s.healthyThrough
  BY <1>1, <1>2 DEF States
<1>5. /\ s2 \in States /\ s2.history = s.history /\ s2.active = s.active /\ s2.base = s.base
      /\ s2.healthySince = None /\ s2.healthyThrough = None
  <2> HIDE DEF s1
  <2> QED BY <1>1, <1>4 DEF States
<1> HIDE DEF s1, s2, v, bad, c, raw
<1>7. /\ Counted(bad) /\ bad.samples = w.samples /\ bad.state[t] = s1
      /\ \A u \in Targets : u # t => bad.state[u] = w.state[u]
  BY <1>4, PutKeeps DEF bad
<1>8. CASE ~s.active
  <2>1. GoodState(bad.state[t])
    BY <1>4, <1>7, <1>8 DEF GoodState
  <2> QED BY <1>0, <1>1, <1>3, <1>4, <1>7, <1>8, <2>1 DEF WorldOK, SameModes, v
<1>9. CASE s.active
  <2>1. [raw EXCEPT !.state[t].healthySince = None, !.state[t].healthyThrough = None] = c
    BY <1>3, <1>7 DEF Counted, Worlds, c, s2, Put
  <2>2. /\ Counted(c) /\ c.samples = w.samples /\ c.state[t] = s2
        /\ \A u \in Targets : u # t => c.state[u] = w.state[u]
    <3>1. s2.history = bad.state[t].history
      BY <1>4, <1>5, <1>7
    <3> QED BY <1>5, <1>7, <3>1, PutKeeps DEF c
  <2> DEFINE n == Len(c.state[t].history)
  <2>3. v = DropFirst(c, t, n) /\ n <= Len(c.state[t].history) /\ n \in Nat
    <3>1. v = ClearHistory(c, t)
      BY <1>0, <1>9, <2>1
    <3>2. ClearHistory(c, t) = DropFirst(c, t, n)
      BY DEF ClearHistory
    <3>3. n \in Nat
      BY <1>1, <1>5, <2>2
    <3> QED BY <3>1, <3>2, <3>3
  <2> HIDE DEF n
  <2>4. /\ Counted(DropFirst(c, t, n)) /\ Differs(c, DropFirst(c, t, n), t)
        /\ DropFirst(c, t, n).samples = c.samples - n
        /\ SameHealth(c.state[t], DropFirst(c, t, n).state[t])
        /\ Len(DropFirst(c, t, n).state[t].history) = Len(c.state[t].history) - n
    BY <2>2, <2>3, DropFirstKeeps
  <2>5. Len(v.state[t].history) = 0
    BY <2>3, <2>4 DEF n
  <2>6. /\ v.state[t].active = s.active /\ v.state[t].base = s.base
        /\ v.state[t].healthySince = None /\ v.state[t].healthyThrough = None
    BY <1>5, <2>2, <2>3, <2>4 DEF SameHealth
  <2>7. GoodState(v.state[t])
    BY <1>9, <2>5, <2>6 DEF GoodState
  <2>8. \A u \in Targets : u # t => v.state[u] = w.state[u]
    BY <2>2, <2>3, <2>4 DEF Differs
  <2>9. WorldOK(v) /\ SameModes(w, v)
    BY <2>3, <2>4, <2>6, <2>7, <2>8 DEF WorldOK, SameModes
  <2>10. v.samples <= w.samples
    BY <1>1, <2>2, <2>3, <2>4
  <2> QED BY <2>9, <2>10 DEF v
<1> QED BY <1>1, <1>8, <1>9

\* fault freezes the baseline, and begins with nothing learned.
LEMMA FaultKeeps ==
  ASSUME NEW w, WorldOK(w), NEW t \in Targets, NEW p, p.base \in Baseline,
         NEW at \in 0 .. MaxTime + Timeout
  PROVE  WorldOK(Fault(w, t, p, at)) /\ Fault(w, t, p, at).samples <= w.samples
<1> DEFINE s == w.state[t]
           s1 == [s EXCEPT !.active = TRUE, !.base = p.base]
           entered == Put(w, t, s1)
<1>1. Counted(w) /\ w \in Worlds /\ s \in States /\ s.active \in BOOLEAN
  BY DEF WorldOK, Counted, Worlds, States
<1>2. [w EXCEPT !.state[t].active = TRUE, !.state[t].base = p.base] = entered
  BY <1>1 DEF Worlds, Put
<1>3. s1 \in States /\ s1.history = s.history /\ s1.active
  BY <1>1 DEF States
<1>4. Fault(w, t, p, at) = Interrupt(IF s.active THEN w ELSE entered, t, at)
  BY <1>2 DEF Fault
<1> HIDE DEF s1, entered
<1>5. /\ Counted(entered) /\ entered.samples = w.samples /\ entered.state[t] = s1
      /\ \A u \in Targets : u # t => entered.state[u] = w.state[u]
  BY <1>1, <1>3, PutKeeps DEF entered
<1>6. CASE s.active
  <2>1. /\ WorldOK(Interrupt(w, t, at)) /\ Interrupt(w, t, at).samples <= w.samples
    BY <1>1, InterruptKeeps DEF WorldOK
  <2> QED BY <1>4, <1>6, <2>1
<1>7. CASE ~s.active
  <2>1. /\ \A u \in Targets : u # t => GoodState(entered.state[u])
        /\ ~entered.state[t].active => GoodState(entered.state[t])
    BY <1>3, <1>5 DEF WorldOK
  <2>2. /\ WorldOK(Interrupt(entered, t, at)) /\ Interrupt(entered, t, at).samples <= entered.samples
    BY <1>5, <2>1, InterruptKeeps
  <2> QED BY <1>4, <1>5, <1>7, <2>2
<1> QED BY <1>1, <1>6, <1>7

\* A target is marked as limited.
LEMMA LimitKeeps ==
  ASSUME NEW w, WorldOK(w), NEW t \in Targets
  PROVE  /\ WorldOK(Limit(w, t)) /\ Limit(w, t).samples = w.samples
         /\ SameModes(w, Limit(w, t))
<1> DEFINE s == w.state[t]
           s1 == [s EXCEPT !.limited = TRUE]
           v == Limit(w, t)
<1>1. Counted(w) /\ w \in Worlds /\ s \in States /\ GoodState(s)
  BY DEF WorldOK, Counted, Worlds
<1>2. v = Put(w, t, s1)
  BY <1>1 DEF Worlds, Limit, Put
<1>3. s1 \in States /\ s1.history = s.history /\ SameHealth(s, s1)
  BY <1>1 DEF States, SameHealth
<1> HIDE DEF s1, v
<1>4. /\ Counted(v) /\ v.samples = w.samples /\ v.state[t] = s1
      /\ \A u \in Targets : u # t => v.state[u] = w.state[u]
  BY <1>1, <1>2, <1>3, PutKeeps
<1>5. GoodState(v.state[t])
  BY <1>1, <1>3, <1>4 DEF GoodState, SameHealth
<1> QED BY <1>3, <1>4, <1>5 DEF WorldOK, SameModes, SameHealth, v

\* A sample is added; in an incident, one that its threshold lets pass.
LEMMA LearnKeeps ==
  ASSUME NEW w, WorldOK(w), NEW t \in Targets, NEW sample \in Samples,
         w.state[t].active => ~Exceeds(sample.rtt, w.state[t].base)
  PROVE  /\ WorldOK(Learn(w, t, sample)) /\ Learn(w, t, sample).samples = w.samples + 1
         /\ SameModes(w, Learn(w, t, sample))
<1> DEFINE s == w.state[t]
           h == Append(s.history, sample)
           v == Learn(w, t, sample)
<1>1. /\ Counted(w) /\ w \in Worlds /\ s \in States /\ s.history \in Seq(Samples)
      /\ Len(s.history) \in Nat /\ GoodState(s) /\ w.samples \in Nat
  BY LenProperties DEF WorldOK, Counted, Worlds, States
<1>2. /\ h \in Seq(Samples) /\ Len(h) = Len(s.history) + 1
      /\ \A i \in 1 .. Len(s.history) : h[i] = s.history[i]
      /\ h[Len(s.history) + 1] = sample
  BY <1>1, AppendProperties, SMTT(30)
<1>3. v = [w EXCEPT !.samples = @ + 1, !.state[t].history = h]
  BY DEF Learn
<1> HIDE DEF h, v
<1>4. v.samples = w.samples + 1 /\ v.state = [w.state EXCEPT ![t].history = h]
  BY <1>1, <1>3 DEF Worlds
<1>5. v.state[t] = [s EXCEPT !.history = h] /\ v.state[t].history = h
  BY <1>1, <1>4 DEF Worlds, States
<1>6. v.state \in [Targets -> States]
  BY <1>1, <1>2, <1>4, ZenonT(40) DEF Worlds, States
<1>7. Differs(w, v, t)
  <2>1. v = [state |-> v.state, samples |-> v.samples]
    BY <1>1, <1>3 DEF Worlds
  <2>2. v.samples = w.samples + (Len(h) - Len(s.history))
    BY <1>1, <1>2, <1>4
  <2>3. \A u \in Targets : u # t => v.state[u] = w.state[u]
    BY <1>1, <1>4 DEF Worlds
  <2> QED BY <1>5, <1>6, <2>1, <2>2, <2>3 DEF Differs
<1>8. SameHealth(s, v.state[t])
  BY <1>1, <1>5 DEF States, SameHealth
<1>9. GoodState(v.state[t])
  <2>1. \A i \in 1 .. Len(h) : i \in 1 .. Len(s.history) \/ i = Len(s.history) + 1
    BY <1>1, <1>2
  <2>2. s.active => \A i \in 1 .. Len(h) : ~Exceeds(h[i].rtt, s.base)
    BY <1>1, <1>2, <2>1 DEF GoodState
  <2> QED BY <1>1, <1>5, <1>8, <2>2 DEF GoodState, SameHealth
<1>10. Counted(v)
  BY <1>1, <1>7, CountedChanges
<1>11. WorldOK(v)
  BY <1>7, <1>9, <1>10 DEF WorldOK, Differs
<1> QED BY <1>4, <1>7, <1>8, <1>11 DEF SameModes, SameHealth, Differs, v

\* makeRoom leaves place for one more.
LEMMA RoomsKeep ==
  ASSUME clock \in Instant, NEW w, WorldOK(w), NEW held \in Nat,
         held + w.samples <= MaxTracked, NEW r \in Rooms(w, held)
  PROVE  WorldOK(r) /\ held + r.samples + 1 <= MaxTracked /\ SameModes(w, r)
<1>1. w.samples \in Nat /\ MaxTracked \in Nat /\ clock \in 0 .. MaxTime + Timeout
  BY PolicyAssumption, BoundAssumption DEF WorldOK, Counted, Worlds, Instant
<1>2. CASE BelowLimit(held + w.samples)
  <2>1. r = w
    BY <1>2 DEF Rooms
  <2> QED BY <1>1, <1>2, <2>1 DEF BelowLimit, SameModes
<1>3. CASE ~BelowLimit(held + w.samples)
  <2>1. PICK v \in {u \in Targets : w.state[u].history # <<>>} :
               r = Interrupt(Limit(DropFirst(w, v, 1), v), v, clock)
    BY <1>3 DEF Rooms, Limit
  <2> DEFINE d == DropFirst(w, v, 1)
             l == Limit(d, v)
  <2>2. v \in Targets /\ 1 <= Len(w.state[v].history) /\ Counted(w)
    <3>1. w.state[v].history \in Seq(Samples) /\ w.state[v].history # <<>>
      BY <2>1 DEF WorldOK, Counted, Worlds, States
    <3>2. Len(w.state[v].history) \in Nat \ {0}
      BY <3>1, EmptySeq
    <3> QED BY <3>2 DEF WorldOK
  <2>3. /\ Counted(DropFirst(w, v, 1)) /\ Differs(w, DropFirst(w, v, 1), v)
        /\ DropFirst(w, v, 1).samples = w.samples - 1
        /\ SameHealth(w.state[v], DropFirst(w, v, 1).state[v])
        /\ GoodState(w.state[v]) => GoodState(DropFirst(w, v, 1).state[v])
    BY <2>2, DropFirstKeeps
  <2> HIDE DEF d
  <2>4. WorldOK(d) /\ d.samples = w.samples - 1 /\ SameModes(w, d)
    BY <2>3 DEF d, WorldOK, Differs, SameModes, SameHealth
  <2>5. WorldOK(Limit(d, v)) /\ Limit(d, v).samples = d.samples /\ SameModes(d, Limit(d, v))
    BY <2>2, <2>4, LimitKeeps
  <2> HIDE DEF l
  <2>6. /\ Counted(l) /\ \A u \in Targets : GoodState(l.state[u])
        /\ l.samples = w.samples - 1 /\ SameModes(w, l)
    BY <2>4, <2>5 DEF l, WorldOK, SameModes
  <2>7. /\ WorldOK(Interrupt(l, v, clock)) /\ Interrupt(l, v, clock).samples <= l.samples
        /\ SameModes(l, Interrupt(l, v, clock))
    BY <1>1, <2>2, <2>6, InterruptKeeps
  <2>8. r = Interrupt(l, v, clock)
    BY <2>1 DEF l, d
  <2>9. r.samples \in Nat
    BY <2>7, <2>8 DEF WorldOK, Counted, Worlds
  <2>10. SameModes(w, r)
    BY <2>6, <2>7, <2>8 DEF SameModes
  <2> QED BY <1>1, <2>6, <2>7, <2>8, <2>9, <2>10
<1> QED BY <1>2, <1>3

\* addSample stays within the limit.
LEMMA AddSampleKeeps ==
  ASSUME clock \in Instant, NEW w, WorldOK(w), NEW t \in Targets, NEW sample \in Samples,
         w.state[t].active => ~Exceeds(sample.rtt, w.state[t].base),
         NEW held \in Nat, held + w.samples <= MaxTracked,
         NEW v \in AddSample(w, t, sample, held)
  PROVE  WorldOK(v) /\ held + v.samples <= MaxTracked /\ SameModes(w, v)
<1> DEFINE pruned == Prune(w, t, clock)
<1>1. WorldOK(pruned) /\ pruned.samples <= w.samples /\ SameModes(w, pruned)
  BY PruneKeeps
<1>2. v = pruned \/ \E r \in Rooms(pruned, held) : v = Learn(r, t, sample)
  BY DEF AddSample, Learn
<1> HIDE DEF pruned
<1>3. /\ w.samples \in Nat /\ pruned.samples \in Nat /\ MaxTracked \in Nat
      /\ held + pruned.samples <= MaxTracked
  BY <1>1, PolicyAssumption DEF WorldOK, Counted, Worlds
<1>4. ASSUME NEW r \in Rooms(pruned, held), v = Learn(r, t, sample)
      PROVE  WorldOK(v) /\ held + v.samples <= MaxTracked /\ SameModes(w, v)
  <2>1. WorldOK(r) /\ held + r.samples + 1 <= MaxTracked /\ SameModes(pruned, r)
    BY <1>1, <1>3, RoomsKeep
  <2>2. r.state[t].active => ~Exceeds(sample.rtt, r.state[t].base)
    BY <1>1, <2>1 DEF SameModes
  <2>3. /\ WorldOK(Learn(r, t, sample)) /\ Learn(r, t, sample).samples = r.samples + 1
        /\ SameModes(r, Learn(r, t, sample))
    BY <2>1, <2>2, LearnKeeps
  <2>4. r.samples \in Nat
    BY <2>1 DEF WorldOK, Counted, Worlds
  <2>5. SameModes(w, v)
    BY <1>1, <1>4, <2>1, <2>3 DEF SameModes
  <2> QED BY <1>3, <1>4, <2>1, <2>3, <2>4, <2>5
<1> QED BY <1>1, <1>2, <1>3, <1>4

\* The oldest probe extends the healthy run.
LEMMA ExtendKeeps ==
  ASSUME NEW w, WorldOK(w), NEW t \in Targets, w.state[t].active, NEW at \in Instant
  PROVE  /\ WorldOK(Extend(w, t, at)) /\ Extend(w, t, at).samples <= w.samples
         /\ SameModes(w, Extend(w, t, at))
<1> DEFINE cut == IF Discontinuous(w.state[t], at) THEN Interrupt(w, t, at) ELSE w
           v == Extend(w, t, at)
<1>1. WorldOK(cut) /\ cut.samples <= w.samples /\ SameModes(w, cut) /\ cut.samples \in Nat
  <2>1. at \in 0 .. MaxTime + Timeout
    BY PolicyAssumption, BoundAssumption DEF Instant
  <2>2. /\ WorldOK(Interrupt(w, t, at)) /\ Interrupt(w, t, at).samples <= w.samples
        /\ SameModes(w, Interrupt(w, t, at))
    BY <2>1, InterruptKeeps DEF WorldOK
  <2>3. w.samples \in Nat /\ SameModes(w, w)
    BY DEF WorldOK, Counted, Worlds, SameModes
  <2>4. WorldOK(cut) /\ cut.samples <= w.samples /\ SameModes(w, cut)
    BY <2>2, <2>3
  <2> QED BY <2>4 DEF WorldOK, Counted, Worlds
<1>2. v = [cut EXCEPT !.state[t].healthySince = IF @ = None THEN at ELSE @,
                      !.state[t].healthyThrough = at]
  BY DEF Extend
<1> HIDE DEF cut, v
<1> DEFINE s == cut.state[t]
           x == IF s.healthySince = None THEN at ELSE s.healthySince
           s1 == [s EXCEPT !.healthySince = x, !.healthyThrough = at]
<1>3. Counted(cut) /\ cut \in Worlds /\ s \in States /\ GoodState(s) /\ s.active
  BY <1>1 DEF WorldOK, Counted, Worlds, SameModes
<1>4. v = Put(cut, t, s1)
  BY <1>2, <1>3 DEF Worlds, Put
<1>5. x \in Instant /\ x # None /\ at # None
  BY <1>3, BoundAssumption DEF States, Instant, None
<1> HIDE DEF x
<1>6. /\ s1 \in States /\ s1.history = s.history /\ s1.active = s.active /\ s1.base = s.base
      /\ s1.healthySince = x /\ s1.healthyThrough = at
  BY <1>3, <1>5 DEF States
<1> HIDE DEF s1
<1>7. /\ Counted(v) /\ v.samples = cut.samples /\ v.state[t] = s1
      /\ \A u \in Targets : u # t => v.state[u] = cut.state[u]
  BY <1>3, <1>4, <1>6, PutKeeps
<1>8. GoodState(v.state[t])
  BY <1>3, <1>5, <1>6, <1>7 DEF GoodState
<1>9. WorldOK(v) /\ SameModes(w, v)
  BY <1>1, <1>6, <1>7, <1>8 DEF WorldOK, SameModes
<1> QED BY <1>1, <1>7, <1>9 DEF v

\* A recovery leaves the samples.
LEMMA RecoverKeeps ==
  ASSUME NEW w, WorldOK(w), NEW t \in Targets
  PROVE  WorldOK(Recover(w, t)) /\ Recover(w, t).samples = w.samples
<1> DEFINE s == w.state[t]
           s1 == [s EXCEPT !.active = FALSE, !.limited = FALSE,
                           !.healthySince = None, !.healthyThrough = None]
           v == Recover(w, t)
<1>1. Counted(w) /\ w \in Worlds /\ s \in States /\ GoodState(s)
  BY DEF WorldOK, Counted, Worlds
<1>2. v = w \/ v = Put(w, t, s1)
  BY <1>1, ZenonT(40) DEF Recover, Worlds, Put
<1>3. /\ s1 \in States /\ s1.history = s.history /\ ~s1.active
      /\ s1.healthySince = None /\ s1.healthyThrough = None
  BY <1>1 DEF States
<1> HIDE DEF s1, v
<1>4. ASSUME v = Put(w, t, s1) PROVE WorldOK(v) /\ v.samples = w.samples
  <2>1. /\ Counted(v) /\ v.samples = w.samples /\ v.state[t] = s1
        /\ \A u \in Targets : u # t => v.state[u] = w.state[u]
    BY <1>1, <1>3, <1>4, PutKeeps
  <2>2. GoodState(v.state[t])
    BY <1>3, <2>1 DEF GoodState
  <2> QED BY <2>1, <2>2 DEF WorldOK
<1> QED BY <1>2, <1>4 DEF v
-----------------------------------------------------------------------------
(* The invariant.                                                          *)

Probes ==
  {p \in [at : Instant, accepted : BOOLEAN, done : BOOLEAN, good : BOOLEAN,
          rtt : Rtts \cup {None}, early : Rtts \cup {None}, base : Baseline] :
     p.good => p.rtt \in Rtts /\ p.rtt <= Timeout}
Fifos == [Targets -> Seq(Probes)]
Total(f) == Sum([t \in Targets |-> Len(f[t])])

\* g is f with another FIFO for t.
Replaces(f, g, t, q) == g = [f EXCEPT ![t] = q]

Cadences(s) ==
  [t \in Targets |-> IF s[t].active THEN FastInterval ELSE NormalInterval]

\* The goroutine Run, its channel and its timer.
Looping ==
  /\ clock \in Instant
  /\ run \in [pc : {"scan", "expiring", "arm", "select", "returned"},
              at : Nat \cup {None}]
  /\ wake \in BOOLEAN /\ timerAt \in Nat \cup {None}
\* What the targets learned, and what the scheduler was told.
Kept == WorldOK(World) /\ requested = Cadences(state)
\* The probes; the loop of finish has one to settle.
Queued ==
  /\ fifo \in Fifos /\ tracked = Total(fifo)
  /\ settling \in Targets \cup {NoTarget}
  /\ settling \in Targets => fifo[settling] # <<>>
Bounded == tracked + samples <= MaxTracked
IInv == Looping /\ Kept /\ Queued /\ Bounded

\* The invariant gives what the runs check.
LEMMA IInvIsEnough ==
  IInv => TypeOK /\ WithinCapacity /\ CadenceFollowsState /\ DegradedNeverLearned
<1> SUFFICES ASSUME IInv
             PROVE  TypeOK /\ WithinCapacity /\ CadenceFollowsState /\ DegradedNeverLearned
  OBVIOUS
<1>1. /\ state \in [Targets -> States] /\ samples \in Nat
      /\ \A t \in Targets : GoodState(state[t])
      /\ samples = Sum([t \in Targets |-> Len(state[t].history)])
  BY DEF IInv, Kept, WorldOK, Counted, Held, Worlds, World
<1>2. requested = Cadences(state) /\ requested \in [Targets -> {NormalInterval, FastInterval}]
  BY DEF IInv, Kept, Cadences
<1>3. ASSUME NEW t \in Targets
      PROVE  /\ state[t].active \in BOOLEAN /\ state[t].limited \in BOOLEAN
             /\ state[t].base \in Baseline
             /\ state[t].lastBad \in (0 .. MaxTime + Timeout) \cup {None}
             /\ {state[t].healthySince, state[t].healthyThrough} \subseteq Instant \cup {None}
             /\ state[t].history \in Seq(Samples)
             /\ (state[t].healthySince = None) <=> (state[t].healthyThrough = None)
             /\ ~state[t].active => state[t].healthySince = None
  BY <1>1 DEF States, GoodState
<1>4. fifo \in [Targets -> Seq([at : Instant, accepted : BOOLEAN,
                               done : BOOLEAN, good : BOOLEAN,
                               rtt : Rtts \cup {None}, early : Rtts \cup {None},
                               base : Baseline])]
  <2> DEFINE P == [at : Instant, accepted : BOOLEAN, done : BOOLEAN, good : BOOLEAN,
                   rtt : Rtts \cup {None}, early : Rtts \cup {None}, base : Baseline]
  <2>1. Probes \subseteq P
    BY DEF Probes
  <2> HIDE DEF P
  <2>2. \A s \in Seq(Probes) : s \in Seq(P)
    BY <2>1, SeqDef
  <2>3. fifo \in [Targets -> Seq(P)]
    BY <2>2 DEF IInv, Queued, Fifos
  <2> QED BY <2>3 DEF P
<1>5. TypeOK
  BY <1>2, <1>3, <1>4 DEF TypeOK, IInv, Looping, Queued, Samples
<1>6. WithinCapacity
  BY <1>1 DEF WithinCapacity, Bookkeeping, IInv, Bounded, Queued, Total
<1>7. CadenceFollowsState
  BY <1>2 DEF CadenceFollowsState, Cadences
<1>8. DegradedNeverLearned
  BY <1>1 DEF DegradedNeverLearned, GoodState
<1> QED BY <1>5, <1>6, <1>7, <1>8

\* One FIFO is replaced.
LEMMA FifoChanges ==
  ASSUME NEW f \in Fifos, NEW t \in Targets, NEW q \in Seq(Probes),
         NEW g, Replaces(f, g, t, q)
  PROVE  /\ g \in Fifos /\ g[t] = q /\ \A u \in Targets : u # t => g[u] = f[u]
         /\ Total(f) \in Nat /\ Total(g) \in Nat
         /\ Total(g) = Total(f) + (Len(q) - Len(f[t]))
<1> DEFINE e == [u \in Targets |-> Len(f[u])]
           d == [u \in Targets |-> Len(g[u])]
<1>1. g \in Fifos /\ g[t] = q /\ \A u \in Targets : u # t => g[u] = f[u]
  BY DEF Fifos, Replaces
<1>2. e \in [Targets -> Nat] /\ d \in [Targets -> Nat]
  BY <1>1, LenProperties DEF Fifos
<1>3. /\ \A u \in Targets : u # t => d[u] = e[u]
      /\ d[t] = Len(q) /\ e[t] = Len(f[t])
  BY <1>1
<1>4. Total(f) = Sum(e) /\ Total(g) = Sum(d)
  BY DEF Total
<1> HIDE DEF e, d
<1>5. Sum(e) \in Nat /\ Sum(d) \in Nat /\ Sum(d) = Sum(e) + (d[t] - e[t])
  BY <1>2, <1>3, SumChanges
<1> QED BY <1>1, <1>3, <1>4, <1>5

\* The counters are numbers.
LEMMA CountersAreNat ==
  ASSUME Kept, Queued PROVE tracked \in Nat /\ samples \in Nat
<1>1. PICK t \in Targets : TRUE
  BY TargetsAssumption
<1>2. fifo[t] \in Seq(Probes) /\ fifo \in Fifos /\ Replaces(fifo, fifo, t, fifo[t])
  BY DEF Queued, Fifos, Replaces
<1>3. Total(fifo) \in Nat
  BY <1>2, FifoChanges
<1> QED BY <1>3 DEF Kept, Queued, WorldOK, Counted, Worlds, World

\* The result of a helper is stored.
LEMMA StoreKeeps ==
  ASSUME NEW w, WorldOK(w), Store(w)
  PROVE  WorldOK(World)' /\ state' = w.state /\ samples' = w.samples
<1>1. w = [state |-> w.state, samples |-> w.samples]
  BY DEF WorldOK, Counted, Worlds
<1>2. World' = w
  BY <1>1 DEF Store, World
<1>3. WorldOK(World')
  BY <1>2
<1> QED BY <1>3 DEF Store

\* The announcement follows the mode.
LEMMA AnnounceKeeps ==
  ASSUME Kept, NEW w, WorldOK(w), Store(w), Announce(w)
  PROVE  Kept'
<1>1. WorldOK(World)' /\ state' = w.state
  BY StoreKeeps
<1>2. \A t \in Targets : w.state[t].active \in BOOLEAN /\ state[t].active \in BOOLEAN
  BY DEF Kept, WorldOK, Counted, Worlds, World, States
<1>3. requested' = Cadences(w.state)
  BY <1>2 DEF Announce, Cadences, Kept
<1> QED BY <1>1, <1>3 DEF Kept, Cadences

\* Without one, the mode has not changed.
LEMMA SameModesKeep ==
  ASSUME Kept, NEW w, WorldOK(w), SameModes(World, w), Store(w), UNCHANGED requested
  PROVE  Kept'
<1>1. WorldOK(World)' /\ state' = w.state
  BY StoreKeeps
<1>2. Cadences(w.state) = Cadences(state)
  BY DEF SameModes, Cadences, World
<1> QED BY <1>1, <1>2 DEF Kept, Cadences
-----------------------------------------------------------------------------
(* The steps that touch probes.                                            *)

\* A FIFO in which one probe is replaced.
LEMMA ProbeChanges ==
  ASSUME Queued, NEW t \in Targets, NEW i \in Nat, i \in 1 .. Len(fifo[t]), NEW p \in Probes,
         NEW q, q = [fifo[t] EXCEPT ![i] = p], NEW g, Replaces(fifo, g, t, q)
  PROVE  /\ g \in Fifos /\ Total(g) = tracked /\ g[t] # <<>>
         /\ \A u \in Targets : fifo[u] # <<>> => g[u] # <<>>
<1>1. fifo \in Fifos /\ fifo[t] \in Seq(Probes) /\ Len(fifo[t]) \in Nat
  BY LenProperties DEF Queued, Fifos
<1>2. q \in Seq(Probes) /\ Len(q) = Len(fifo[t])
  BY <1>1, ExceptSeq
<1>3. q # <<>> /\ Len(q) - Len(fifo[t]) = 0
  BY <1>1, <1>2, EmptySeq
<1>5. /\ g \in Fifos /\ g[t] = q /\ \A u \in Targets : u # t => g[u] = fifo[u]
      /\ Total(fifo) \in Nat /\ Total(g) \in Nat
      /\ Total(g) = Total(fifo) + (Len(q) - Len(fifo[t]))
  BY <1>1, <1>2, FifoChanges
<1> QED BY <1>3, <1>5 DEF Queued

\* finish: the loop has at least the probe that is done.
LEMMA FinishKeeps ==
  ASSUME Kept, Queued, Bounded, NEW t \in Targets, NEW i \in Nat, i \in 1 .. Len(fifo[t]),
         NEW good \in BOOLEAN, NEW rtt \in Rtts \cup {None},
         good => rtt \in Rtts /\ rtt <= Timeout,
         NEW w, WorldOK(w), w.samples <= samples, Finish(w, t, i, good, rtt)
  PROVE  Kept' /\ Queued' /\ Bounded'
<1> DEFINE p == fifo[t][i]
           p1 == [p EXCEPT !.accepted = TRUE, !.done = TRUE, !.good = good,
                           !.rtt = rtt, !.early = None]
           q == [fifo[t] EXCEPT ![i] = p1]
<1>1. fifo \in Fifos /\ fifo[t] \in Seq(Probes) /\ p \in Probes
  BY ElementOfSeq DEF Queued, Fifos
<1>2. p1 \in Probes
  BY <1>1 DEF Probes
<1>3. [fifo[t] EXCEPT ![i].accepted = TRUE, ![i].done = TRUE, ![i].good = good,
                      ![i].rtt = rtt, ![i].early = None] = q
  BY <1>1
<1> HIDE DEF p1
<1>4. /\ fifo' = [fifo EXCEPT ![t] = q] /\ settling' \in {t, NoTarget}
      /\ Store(w) /\ Announce(w) /\ tracked' = tracked
  BY <1>3 DEF Finish
<1> HIDE DEF q
<1>5. /\ fifo' \in Fifos /\ Total(fifo') = tracked /\ fifo'[t] # <<>>
  BY <1>2, <1>4, ProbeChanges DEF q, Replaces
<1>6. Queued'
  <2>1. Total(fifo)' = tracked'
    BY <1>4, <1>5 DEF Total
  <2>2. fifo' \in Fifos /\ settling' \in Targets \cup {NoTarget}
    BY <1>4, <1>5
  <2>3. settling' \in Targets => fifo'[settling'] # <<>>
    BY <1>4, <1>5, TargetsAssumption
  <2> QED BY <2>1, <2>2, <2>3 DEF Queued, Fifos
<1>7. Kept'
  BY <1>4, AnnounceKeeps
<1>8. Bounded'
  BY <1>4, CountersAreNat, StoreKeeps, PolicyAssumption, SMTT(30) DEF Bounded, WorldOK, Counted, Worlds
<1> QED BY <1>6, <1>7, <1>8

\* A probe is bad from when it was sent to when that was known.
LEMMA ProbeTimes ==
  ASSUME NEW p \in Probes, NEW n \in Nat, n <= Timeout
  PROVE  p.at + n \in 0 .. MaxTime + Timeout /\ Deadline(p) \in 0 .. MaxTime + Timeout
<1>1. p.at \in Nat /\ p.at <= MaxTime /\ MaxTime \in Nat /\ Timeout \in Nat
  BY PolicyAssumption, BoundAssumption DEF Probes, Instant
<1> QED BY <1>1 DEF Deadline

\* reply.
LEMMA ReplyKeeps ==
  ASSUME Kept, Queued, Bounded, NEW t \in Targets, NEW i \in Nat, i \in 1 .. Len(fifo[t]),
         NEW rtt \in Rtts, Reply(t, i, rtt)
  PROVE  Kept' /\ Queued' /\ Bounded'
<1> DEFINE p == fifo[t][i]
           late == rtt > Timeout
           bad == late \/ Exceeds(rtt, IF state[t].active THEN state[t].base ELSE p.base)
           at == IF late THEN Deadline(p) ELSE p.at + rtt
           w == IF bad THEN Fault(World, t, p, at) ELSE World
<1>1. p \in Probes /\ p.base \in Baseline
  <2>1. fifo[t] \in Seq(Probes)
    BY DEF Queued, Fifos
  <2>2. p \in Probes
    BY <2>1, ElementOfSeq
  <2> QED BY <2>2 DEF Probes
<1>2. Finish(w, t, i, ~bad, rtt)
  BY DEF Reply
<1>3. rtt \in Nat /\ Timeout \in Nat
  BY PolicyAssumption
<1>4. at \in 0 .. MaxTime + Timeout
  <2>1. CASE late
    BY <1>1, <2>1, <1>3, ProbeTimes
  <2>2. CASE ~late
    <3>1. rtt <= Timeout
      BY <1>3, <2>2
    <3>2. p.at + rtt \in 0 .. MaxTime + Timeout
      BY <1>1, <1>3, <3>1, ProbeTimes
    <3> QED BY <2>2, <3>2
  <2> QED BY <2>1, <2>2
<1>5. ~bad => rtt \in Rtts /\ rtt <= Timeout
  BY <1>3
<1>6. bad \in BOOLEAN /\ (~bad) \in BOOLEAN
  OBVIOUS
<1>7. WorldOK(World) /\ World.samples = samples /\ samples \in Nat
  BY CountersAreNat DEF Kept, World
<1> HIDE DEF p, at, bad
<1>8. /\ WorldOK(Fault(World, t, p, at)) /\ Fault(World, t, p, at).samples <= World.samples
  BY <1>1, <1>4, <1>7, FaultKeeps
<1>9. WorldOK(w) /\ w.samples <= samples
  BY <1>7, <1>8
<1> HIDE DEF w
<1> QED BY <1>2, <1>5, <1>6, <1>9, FinishKeeps

\* A target that is interrupted without an announcement.
LEMMA InterruptionKeeps ==
  ASSUME Kept, Queued, Bounded, NEW t \in Targets, NEW at \in 0 .. MaxTime + Timeout
  PROVE  /\ WorldOK(Interrupt(World, t, at)) /\ Interrupt(World, t, at).samples <= samples
         /\ SameModes(World, Interrupt(World, t, at))
<1>1. Counted(World) /\ (\A u \in Targets : GoodState(World.state[u])) /\ World.samples = samples
  BY DEF Kept, WorldOK, World
<1>2. /\ WorldOK(Interrupt(World, t, at)) /\ Interrupt(World, t, at).samples <= World.samples
      /\ SameModes(World, Interrupt(World, t, at))
  BY <1>1, InterruptKeeps
<1> QED BY <1>1, <1>2

\* The bound needs no more than that the samples have not grown.
LEMMA FewerAreBounded ==
  ASSUME Kept, Queued, Bounded, NEW w, WorldOK(w), Store(w), w.samples <= samples,
         UNCHANGED tracked
  PROVE  Bounded'
<1>1. tracked \in Nat /\ samples \in Nat /\ samples' = w.samples /\ w.samples \in Nat
  BY CountersAreNat, StoreKeeps DEF WorldOK, Counted, Worlds
<1> QED BY <1>1, PolicyAssumption DEF Bounded
-----------------------------------------------------------------------------
(* The hooks.                                                              *)

\* What the counters of the queue say when only other state changes.
LEMMA QueueUnchanged ==
  ASSUME Queued, UNCHANGED <<fifo, tracked, settling>>
  PROVE  Queued'
BY DEF Queued, Fifos, Total, Probes, Instant, Baseline

\* What was learned, when it does not change.
LEMMA KeptUnchanged ==
  ASSUME Kept, UNCHANGED <<state, samples, requested>>
  PROVE  Kept'
<1>1. WorldOK(World) /\ Store(World) /\ SameModes(World, World)
  BY DEF Kept, Store, World, SameModes
<1> QED BY <1>1, SameModesKeep

\* BeginProbe makes room, and takes it.
LEMMA BeginProbeKeeps ==
  ASSUME Looping, Kept, Queued, Bounded, NEW t \in Targets, NEW at \in Instant,
         BeginProbe(t, at)
  PROVE  Kept' /\ Queued' /\ Bounded'
<1> DEFINE pruned == Prune(World, t, at)
<1>1. PICK w \in Rooms(pruned, tracked) :
        /\ Store(w)
        /\ fifo' = [fifo EXCEPT ![t] = Append(@,
             [at |-> at, accepted |-> FALSE, done |-> FALSE, good |-> FALSE,
              rtt |-> None, early |-> None,
              base |-> IF w.state[t].active THEN w.state[t].base
                       ELSE Average(w.state[t])])]
  BY DEF BeginProbe
<1>2. /\ tracked' = tracked + 1 /\ settling' = settling /\ requested' = requested
      /\ settling = NoTarget
  BY DEF BeginProbe, MayBegin, LockFree
<1>3. WorldOK(World) /\ World.samples = samples /\ samples \in Nat /\ tracked \in Nat
  BY CountersAreNat DEF Kept, World
<1>4. WorldOK(pruned) /\ pruned.samples <= samples /\ SameModes(World, pruned)
  BY <1>3, PruneKeeps
<1>5. tracked + pruned.samples <= MaxTracked
  BY <1>3, <1>4, PolicyAssumption DEF Bounded, WorldOK, Counted, Worlds
<1> HIDE DEF pruned
<1>6. WorldOK(w) /\ tracked + w.samples + 1 <= MaxTracked /\ SameModes(pruned, w)
  BY <1>1, <1>3, <1>4, <1>5, RoomsKeep DEF Looping
<1>7. Kept'
  <2>1. SameModes(World, w)
    BY <1>4, <1>6 DEF SameModes
  <2> QED BY <1>1, <1>2, <1>6, <2>1, SameModesKeep
<1>8. Bounded'
  <2>1. samples' = w.samples /\ w.samples \in Nat
    BY <1>1, <1>6, StoreKeeps DEF WorldOK, Counted, Worlds
  <2> QED BY <1>2, <1>3, <1>6, <2>1, PolicyAssumption DEF Bounded
<1>9. Queued'
  <2> DEFINE b == IF w.state[t].active THEN w.state[t].base ELSE Average(w.state[t])
             p == [at |-> at, accepted |-> FALSE, done |-> FALSE, good |-> FALSE,
                   rtt |-> None, early |-> None, base |-> b]
             q == Append(fifo[t], p)
  <2>1. b \in Baseline
    <3>1. w.state[t] \in States /\ w.state[t].base \in Baseline
      BY <1>6 DEF WorldOK, Counted, Worlds, States
    <3>2. Average(w.state[t]) \in Baseline
      BY <3>1, AverageIsBaseline
    <3> QED BY <3>1, <3>2
  <2>2. fifo' = [fifo EXCEPT ![t] = q]
    BY <1>1
  <2> HIDE DEF b
  <2>3. p \in Probes
    BY <2>1 DEF Probes
  <2> HIDE DEF p
  <2>4. fifo \in Fifos /\ fifo[t] \in Seq(Probes) /\ Len(fifo[t]) \in Nat
    BY LenProperties DEF Queued, Fifos
  <2>5. q \in Seq(Probes) /\ Len(q) = Len(fifo[t]) + 1
    BY <2>3, <2>4, AppendProperties
  <2> HIDE DEF q
  <2>6. Replaces(fifo, fifo', t, q)
    BY <2>2 DEF Replaces
  <2>7. /\ fifo' \in Fifos /\ Total(fifo) \in Nat /\ Total(fifo') \in Nat
        /\ Total(fifo') = Total(fifo) + (Len(q) - Len(fifo[t]))
    BY <2>4, <2>5, <2>6, FifoChanges
  <2>8. Total(fifo)' = tracked'
    <3>1. Total(fifo') = tracked + 1
      BY <2>4, <2>5, <2>7, <1>3 DEF Queued
    <3> QED BY <1>2, <3>1 DEF Total
  <2> QED BY <1>2, <2>7, <2>8, TargetsAssumption DEF Queued, Fifos
<1> QED BY <1>7, <1>8, <1>9

\* A hook that changes samples, and nothing that is announced.
LEMMA QuietKeeps ==
  ASSUME Kept, Queued, Bounded, NEW w, WorldOK(w), SameModes(World, w), Store(w),
         w.samples <= samples, UNCHANGED <<fifo, tracked, settling, requested>>
  PROVE  Kept' /\ Queued' /\ Bounded'
<1>1. Kept'
  BY SameModesKeep
<1>2. Queued'
  BY QueueUnchanged
<1>3. Bounded'
  BY FewerAreBounded
<1> QED BY <1>1, <1>2, <1>3

\* A probe that cannot be observed interrupts its target.
LEMMA BeginUntrackedKeeps ==
  ASSUME Kept, Queued, Bounded, NEW t \in Targets, NEW at \in Instant, BeginUntracked(t, at)
  PROVE  Kept' /\ Queued' /\ Bounded'
<1> DEFINE pruned == Prune(World, t, at)
           l == Limit(pruned, t)
           w == Interrupt(l, t, at + Timeout)
<1>1. Store(w) /\ UNCHANGED <<fifo, tracked, settling, requested>>
  BY DEF BeginUntracked, Limit
<1>2. WorldOK(World) /\ World.samples = samples
  BY DEF Kept, World
<1>3. WorldOK(pruned) /\ pruned.samples <= samples /\ SameModes(World, pruned)
  BY <1>2, PruneKeeps
<1> HIDE DEF pruned
<1>4. WorldOK(l) /\ l.samples = pruned.samples /\ SameModes(pruned, l)
  BY <1>3, LimitKeeps
<1>5. at + Timeout \in 0 .. MaxTime + Timeout
  BY PolicyAssumption, BoundAssumption DEF Instant
<1> HIDE DEF l
<1>6. WorldOK(w) /\ w.samples <= l.samples /\ SameModes(l, w)
  BY <1>4, <1>5, InterruptKeeps DEF WorldOK
<1> HIDE DEF w
<1>7. w.samples <= samples
  <2>1. {w.samples, l.samples, pruned.samples, samples} \subseteq Nat
    BY <1>3, <1>4, <1>6, CountersAreNat DEF WorldOK, Counted, Worlds
  <2> QED BY <1>3, <1>4, <1>6, <2>1
<1>8. SameModes(World, w)
  BY <1>3, <1>4, <1>6 DEF SameModes
<1> QED BY <1>1, <1>6, <1>7, <1>8, QuietKeeps

\* The newest probe, whose write is in progress.
LEMMA WritingIsAProbe ==
  ASSUME Queued, NEW t \in Targets, Writing(t)
  PROVE  /\ Len(fifo[t]) \in Nat /\ Len(fifo[t]) \in 1 .. Len(fifo[t])
         /\ fifo[t][Len(fifo[t])] \in Probes
<1>1. fifo[t] \in Seq(Probes) /\ fifo[t] # <<>>
  BY DEF Writing, Queued, Fifos
<1>2. Len(fifo[t]) \in Nat /\ Len(fifo[t]) \in 1 .. Len(fifo[t])
  BY <1>1, EmptySeq, LenProperties
<1> QED BY <1>1, <1>2, ElementOfSeq

\* One field of the newest probe is set.
LEMMA NewestChanges ==
  ASSUME Kept, Queued, Bounded, NEW t \in Targets, Writing(t), NEW p \in Probes,
         NEW q, q = [fifo[t] EXCEPT ![Len(fifo[t])] = p], Replaces(fifo, fifo', t, q),
         UNCHANGED <<state, samples, tracked, settling, requested>>
  PROVE  Kept' /\ Queued' /\ Bounded'
<1>1. Len(fifo[t]) \in Nat /\ Len(fifo[t]) \in 1 .. Len(fifo[t])
  BY WritingIsAProbe
<1>2. /\ fifo' \in Fifos /\ Total(fifo') = tracked
      /\ \A u \in Targets : fifo[u] # <<>> => fifo'[u] # <<>>
  BY <1>1, ProbeChanges
<1>3. Queued'
  <2>1. Total(fifo)' = tracked'
    BY <1>2 DEF Total
  <2>2. settling' \in Targets => fifo'[settling'] # <<>>
    BY <1>2 DEF Queued
  <2> QED BY <1>2, <2>1, <2>2 DEF Queued, Fifos
<1>4. Kept'
  BY KeptUnchanged
<1>5. Bounded'
  BY DEF Bounded
<1> QED BY <1>3, <1>4, <1>5

\* CompleteProbe of a write that succeeded.
LEMMA CompleteProbeKeeps ==
  ASSUME Kept, Queued, Bounded, NEW t \in Targets, CompleteProbe(t)
  PROVE  Kept' /\ Queued' /\ Bounded'
<1> DEFINE n == Len(fifo[t])
           p == [fifo[t][n] EXCEPT !.accepted = TRUE]
           q == [fifo[t] EXCEPT ![n] = p]
<1>1. Writing(t) /\ UNCHANGED <<state, samples, tracked, settling, requested>>
  BY DEF CompleteProbe
<1>2. fifo[t][n] \in Probes
  BY <1>1, WritingIsAProbe
<1>3. p \in Probes
  BY <1>2 DEF Probes
<1>4. Replaces(fifo, fifo', t, q)
  BY DEF CompleteProbe, Replaces, Queued, Fifos
<1> HIDE DEF p
<1> QED BY <1>1, <1>3, <1>4, NewestChanges

\* ObserveReply before CompleteProbe.
LEMMA ObserveEarlyKeeps ==
  ASSUME Kept, Queued, Bounded, NEW t \in Targets, NEW rtt \in Rtts, ObserveEarly(t, rtt)
  PROVE  Kept' /\ Queued' /\ Bounded'
<1> DEFINE n == Len(fifo[t])
           p == [fifo[t][n] EXCEPT !.early = rtt]
           q == [fifo[t] EXCEPT ![n] = p]
<1>1. Writing(t) /\ UNCHANGED <<state, samples, tracked, settling, requested>>
  BY DEF ObserveEarly
<1>2. fifo[t][n] \in Probes
  BY <1>1, WritingIsAProbe
<1>3. p \in Probes
  BY <1>2 DEF Probes
<1>4. Replaces(fifo, fifo', t, q)
  BY DEF ObserveEarly, Replaces, Queued, Fifos
<1> HIDE DEF p
<1> QED BY <1>1, <1>3, <1>4, NewestChanges

\* CompleteProbe of a write whose reply came first.
LEMMA CompleteAnsweredKeeps ==
  ASSUME Kept, Queued, Bounded, NEW t \in Targets, CompleteAnswered(t)
  PROVE  Kept' /\ Queued' /\ Bounded'
<1> DEFINE n == Len(fifo[t])
           rtt == fifo[t][n].early
<1>1. Writing(t) /\ rtt # None /\ Reply(t, n, rtt)
  BY DEF CompleteAnswered
<1>2. n \in Nat /\ n \in 1 .. Len(fifo[t]) /\ fifo[t][n] \in Probes
  BY <1>1, WritingIsAProbe
<1>3. rtt \in Rtts
  BY <1>1, <1>2 DEF Probes
<1> HIDE DEF rtt
<1> QED BY <1>1, <1>2, <1>3, ReplyKeeps

\* CompleteProbe of a write that failed.
LEMMA CompleteFailedKeeps ==
  ASSUME Looping, Kept, Queued, Bounded, NEW t \in Targets, CompleteFailed(t)
  PROVE  Kept' /\ Queued' /\ Bounded'
<1> DEFINE w == Interrupt(World, t, clock)
           n == Len(fifo[t])
<1>1. Writing(t) /\ Finish(w, t, n, FALSE, None)
  BY DEF CompleteFailed
<1>2. n \in Nat /\ n \in 1 .. Len(fifo[t])
  BY <1>1, WritingIsAProbe
<1>3. clock \in 0 .. MaxTime + Timeout
  BY PolicyAssumption, BoundAssumption DEF Looping, Instant
<1>4. WorldOK(w) /\ w.samples <= samples
  BY <1>3, InterruptionKeeps
<1> HIDE DEF w
<1> QED BY <1>1, <1>2, <1>4, FinishKeeps

\* ObserveReply of an accepted probe.
LEMMA ObserveReplyKeeps ==
  ASSUME Kept, Queued, Bounded, NEW t \in Targets, NEW i \in 1 .. MaxProbes, NEW rtt \in Rtts,
         ObserveReply(t, i, rtt)
  PROVE  Kept' /\ Queued' /\ Bounded'
<1>1. i \in Nat /\ i \in 1 .. Len(fifo[t]) /\ Reply(t, i, rtt)
  BY DEF ObserveReply
<1> QED BY <1>1, ReplyKeeps

\* A scheduler gap.
LEMMA ObserveGapKeeps ==
  ASSUME Looping, Kept, Queued, Bounded, NEW t \in Targets, ObserveGap(t)
  PROVE  Kept' /\ Queued' /\ Bounded'
<1> DEFINE w == Interrupt(World, t, clock)
<1>1. Store(w) /\ UNCHANGED <<fifo, tracked, settling, requested>>
  BY DEF ObserveGap
<1>2. clock \in 0 .. MaxTime + Timeout
  BY PolicyAssumption, BoundAssumption DEF Looping, Instant
<1>3. WorldOK(w) /\ w.samples <= samples /\ SameModes(World, w)
  BY <1>2, InterruptionKeeps
<1> HIDE DEF w
<1> QED BY <1>1, <1>3, QuietKeeps

\* Snapshot prunes.
LEMMA SnapshotKeeps ==
  ASSUME Kept, Queued, Bounded, NEW t \in Targets, Snapshot(t)
  PROVE  Kept' /\ Queued' /\ Bounded'
<1> DEFINE w == Prune(World, t, clock)
<1>1. Store(w) /\ UNCHANGED <<fifo, tracked, settling, requested>>
  BY DEF Snapshot
<1>2. WorldOK(World) /\ World.samples = samples
  BY DEF Kept, World
<1>3. WorldOK(w) /\ w.samples <= World.samples /\ SameModes(World, w)
  BY <1>2, PruneKeeps
<1> HIDE DEF w
<1> QED BY <1>1, <1>2, <1>3, QuietKeeps

\* UpdateEndpoint: a new start, announced if the target was in an incident.
LEMMA UpdateEndpointKeeps ==
  ASSUME Kept, Queued, Bounded, NEW t \in Targets, UpdateEndpoint(t)
  PROVE  Kept' /\ Queued' /\ Bounded'
<1> DEFINE n == Len(state[t].history)
           d == DropFirst(World, t, n)
           w == Put(d, t, Fresh)
<1>1. /\ Store(w) /\ fifo' = [fifo EXCEPT ![t] = <<>>] /\ settling' = settling
      /\ settling = NoTarget /\ tracked' = tracked - Len(fifo[t])
      /\ requested' = [requested EXCEPT ![t] = IF state[t].active THEN NormalInterval ELSE @]
  BY DEF UpdateEndpoint, Replace, LockFree, ClearHistory, Put, World
<1>2. /\ WorldOK(World) /\ Counted(World) /\ World.samples = samples /\ World.state = state
      /\ state[t] \in States /\ samples \in Nat /\ tracked \in Nat
  BY CountersAreNat DEF Kept, World, WorldOK, Counted, Worlds
<1>3. n \in Nat /\ n <= Len(World.state[t].history)
  BY <1>2, LenProperties DEF States
<1>4. /\ Counted(d) /\ Differs(World, d, t) /\ d.samples = World.samples - n
      /\ Len(d.state[t].history) = Len(World.state[t].history) - n
  BY <1>2, <1>3, DropFirstKeeps
<1> HIDE DEF d
<1>5. d.state[t].history = <<>>
  <2>1. d.state[t].history \in Seq(Samples)
    BY <1>4 DEF Differs, States
  <2>2. Len(d.state[t].history) = 0
    BY <1>2, <1>3, <1>4
  <2> QED BY <2>1, <2>2, EmptySeq
<1>6. Fresh \in States /\ Fresh.history = <<>> /\ GoodState(Fresh) /\ ~Fresh.active
  BY EmptySeq DEF Fresh, States, GoodState, Baseline
<1> HIDE DEF n, w
<1>7. /\ Counted(w) /\ w.samples = d.samples /\ w.state[t] = Fresh
      /\ \A u \in Targets : u # t => w.state[u] = d.state[u]
  BY <1>4, <1>5, <1>6, PutKeeps DEF w
<1>8. \A u \in Targets : u # t => w.state[u] = state[u]
  BY <1>2, <1>4, <1>7 DEF Differs
<1>9. WorldOK(w)
  BY <1>2, <1>6, <1>7, <1>8 DEF WorldOK
<1>10. Kept'
  <2>1. WorldOK(World)' /\ state' = w.state
    BY <1>1, <1>9, StoreKeeps
  <2>2. requested = Cadences(state)
    BY DEF Kept
  <2>3. requested' = Cadences(w.state)
    BY <1>1, <1>6, <1>7, <1>8, <2>2 DEF Cadences
  <2> QED BY <2>1, <2>3 DEF Kept, Cadences
<1>11. /\ fifo' \in Fifos /\ Total(fifo) \in Nat /\ Total(fifo') \in Nat
       /\ Total(fifo') = Total(fifo) + (0 - Len(fifo[t]))
  <2> DEFINE q == <<>>
  <2>1. q \in Seq(Probes)
    BY EmptySeq
  <2>0. Len(q) = 0
    BY EmptySeq
  <2>2. Replaces(fifo, fifo', t, q) /\ fifo \in Fifos
    BY <1>1 DEF Replaces, Queued
  <2> HIDE DEF q
  <2>3. /\ fifo' \in Fifos /\ Total(fifo) \in Nat /\ Total(fifo') \in Nat
        /\ Total(fifo') = Total(fifo) + (Len(q) - Len(fifo[t]))
    BY <2>1, <2>2, FifoChanges
  <2> QED BY <2>0, <2>3
<1>12. Len(fifo[t]) \in Nat
  BY LenProperties DEF Queued, Fifos
<1>13. Total(fifo') = tracked' /\ tracked' \in Nat /\ tracked' <= tracked
  BY <1>1, <1>2, <1>11, <1>12 DEF Queued
<1>14. Queued'
  <2>1. Total(fifo)' = tracked'
    BY <1>13 DEF Total
  <2> QED BY <1>1, <1>11, <2>1, TargetsAssumption DEF Queued, Fifos
<1>15. Bounded'
  <2>1. samples' = w.samples /\ w.samples \in Nat
    BY <1>1, <1>9, StoreKeeps DEF WorldOK, Counted, Worlds
  <2>2. w.samples <= samples
    BY <1>2, <1>3, <1>4, <1>7, <2>1
  <2> QED BY <1>2, <1>13, <2>1, <2>2, PolicyAssumption DEF Bounded
<1> QED BY <1>10, <1>14, <1>15
-----------------------------------------------------------------------------
(* The loop of finish.                                                     *)

\* Whatever the oldest probe shows, the samples fit beside the probes left.
LEMMA OutcomesKeep ==
  ASSUME clock \in Instant, Kept, NEW t \in Targets, NEW p \in Probes,
         tracked - 1 \in Nat, tracked - 1 + samples <= MaxTracked,
         NEW w \in Outcomes(t, p)
  PROVE  WorldOK(w) /\ tracked - 1 + w.samples <= MaxTracked
<1> DEFINE s == state[t]
           sample == [at |-> p.at, rtt |-> p.rtt]
           held == tracked - 1
<1>1. /\ WorldOK(World) /\ World.samples = samples /\ World.state = state /\ samples \in Nat
      /\ MaxTracked \in Nat /\ s.active \in BOOLEAN
  BY PolicyAssumption DEF Kept, World, WorldOK, Counted, Worlds, States
<1>2. p.at \in Instant /\ p.base \in Baseline
  BY DEF Probes
<1> HIDE DEF held
<1>0. held \in Nat /\ held + samples <= MaxTracked
  BY DEF held
<1>3. ASSUME w = World PROVE WorldOK(w) /\ held + w.samples <= MaxTracked
  BY <1>0, <1>1, <1>3
<1>4. ASSUME p.good, w = Fault(World, t, p, p.at + p.rtt)
      PROVE  WorldOK(w) /\ held + w.samples <= MaxTracked
  <2>1. p.rtt \in Nat /\ p.rtt <= Timeout
    BY <1>4, PolicyAssumption DEF Probes
  <2>2. p.at + p.rtt \in 0 .. MaxTime + Timeout
    BY <2>1, ProbeTimes
  <2>3. WorldOK(w) /\ w.samples <= World.samples
    BY <1>1, <1>2, <1>4, <2>2, FaultKeeps
  <2>4. w.samples \in Nat
    BY <2>3 DEF WorldOK, Counted, Worlds
  <2> QED BY <1>0, <1>1, <2>3, <2>4
<1>5. p.good => sample \in Samples
  BY <1>2 DEF Probes, Samples
<1> HIDE DEF sample
<1>6. ASSUME p.good, ~s.active, w \in AddSample(World, t, sample, held)
      PROVE  WorldOK(w) /\ held + w.samples <= MaxTracked
  <2>1. ~World.state[t].active
    BY <1>1, <1>6
  <2>2. held + World.samples <= MaxTracked
    BY <1>0, <1>1
  <2> QED BY <1>0, <1>1, <1>5, <1>6, <2>1, <2>2, AddSampleKeeps
<1>7. ASSUME p.good, s.active, ~TooSlow(s, p),
             w \in {Recover(v, t) : v \in AddSample(Extend(World, t, p.at), t, sample, held)}
      PROVE  WorldOK(w) /\ held + w.samples <= MaxTracked
  <2> DEFINE x == Extend(World, t, p.at)
  <2>1. PICK v \in AddSample(x, t, sample, held) : w = Recover(v, t)
    BY <1>7
  <2>2. World.state[t].active
    BY <1>1, <1>7
  <2>3. WorldOK(x) /\ x.samples <= World.samples /\ SameModes(World, x)
    BY <1>1, <1>2, <2>2, ExtendKeeps
  <2> HIDE DEF x
  <2>4. x.samples \in Nat
    BY <2>3 DEF WorldOK, Counted, Worlds
  <2>5. ~Exceeds(sample.rtt, x.state[t].base)
    BY <1>1, <1>7, <2>3 DEF TooSlow, SameModes, sample
  <2>6. held + x.samples <= MaxTracked
    BY <1>0, <1>1, <2>3, <2>4
  <2>7. WorldOK(v) /\ held + v.samples <= MaxTracked
    BY <1>0, <1>5, <1>7, <2>1, <2>3, <2>5, <2>6, AddSampleKeeps
  <2>8. WorldOK(Recover(v, t)) /\ Recover(v, t).samples = v.samples
    BY <2>7, RecoverKeeps
  <2> QED BY <2>1, <2>7, <2>8
<1>8. \/ w = World
      \/ p.good /\ w = Fault(World, t, p, p.at + p.rtt)
      \/ p.good /\ ~s.active /\ w \in AddSample(World, t, sample, held)
      \/ /\ p.good /\ s.active /\ ~TooSlow(s, p)
         /\ w \in {Recover(v, t) : v \in AddSample(Extend(World, t, p.at), t, sample, held)}
  BY <1>1 DEF Outcomes, sample, held
<1>9. WorldOK(w) /\ held + w.samples <= MaxTracked
  BY <1>3, <1>4, <1>6, <1>7, <1>8
<1> QED BY <1>9 DEF held

\* One iteration: a probe leaves, and at most one sample comes.
LEMMA SettleKeeps ==
  ASSUME clock \in Instant, Kept, Queued, Bounded, NEW t \in Targets, Settle(t)
  PROVE  Kept' /\ Queued' /\ Bounded'
<1> DEFINE p == Head(fifo[t])
           rest == Tail(fifo[t])
<1>1. PICK w \in Outcomes(t, p) : Store(w) /\ Announce(w)
  BY DEF Settle
<1>2. /\ fifo' = [fifo EXCEPT ![t] = rest] /\ tracked' = tracked - 1
      /\ settling' = IF rest # <<>> /\ Head(rest).done THEN t ELSE NoTarget
      /\ settling = t
  BY DEF Settle
<1>3. fifo \in Fifos /\ fifo[t] \in Seq(Probes) /\ fifo[t] # <<>>
  BY <1>2 DEF Queued, Fifos
<1>4. /\ p \in Probes /\ rest \in Seq(Probes) /\ Len(rest) = Len(fifo[t]) - 1
      /\ Len(fifo[t]) \in Nat
  BY <1>3, HeadTailProperties, LenProperties
<1>5. Replaces(fifo, fifo', t, rest)
  BY <1>2 DEF Replaces
<1> HIDE DEF p, rest
<1>6. /\ fifo' \in Fifos /\ fifo'[t] = rest /\ Total(fifo) \in Nat /\ Total(fifo') \in Nat
      /\ Total(fifo') = Total(fifo) + (Len(rest) - Len(fifo[t]))
  BY <1>3, <1>4, <1>5, FifoChanges
<1>7. Total(fifo') = tracked - 1 /\ tracked - 1 \in Nat
  BY <1>4, <1>6 DEF Queued
<1>8. Queued'
  <2>1. Total(fifo)' = tracked'
    BY <1>2, <1>7 DEF Total
  <2>2. settling' \in Targets \cup {NoTarget}
    BY <1>2
  <2>3. settling' \in Targets => fifo'[settling'] # <<>>
    BY <1>2, <1>6, TargetsAssumption
  <2> QED BY <1>6, <2>1, <2>2, <2>3 DEF Queued, Fifos
<1>9. tracked - 1 + samples <= MaxTracked
  BY CountersAreNat, PolicyAssumption DEF Bounded
<1>10. WorldOK(w) /\ tracked - 1 + w.samples <= MaxTracked
  BY <1>1, <1>4, <1>7, <1>9, OutcomesKeep
<1>11. Kept'
  BY <1>1, <1>10, AnnounceKeeps
<1>12. Bounded'
  <2>1. samples' = w.samples
    BY <1>1, <1>10, StoreKeeps
  <2> QED BY <1>2, <1>10, <2>1 DEF Bounded
<1> QED BY <1>8, <1>11, <1>12
-----------------------------------------------------------------------------
(* Run.                                                                    *)

\* The least of some numbers is one of them.
LEMMA MinIsIn ==
  ASSUME NEW S \in SUBSET Nat, S # {}
  PROVE  Min(S) \in S
<1>1. PICK n \in S : \A m \in S : ~ (<<m, n>> \in OpToRel(<, Nat))
  BY WFMin, NatLessThanWellFounded
<1>2. \A m \in S : ~ (m < n)
  BY <1>1 DEF OpToRel
<1>3. \A m \in S : m \in Nat /\ n \in Nat
  OBVIOUS
<1>4. \A m \in S : n <= m
  BY <1>2, <1>3
<1> QED BY <1>4 DEF Min

\* A deadline lies behind a probe that exists.
LEMMA OpenProbes ==
  ASSUME Queued, NEW x \in Open
  PROVE  /\ x[1] \in Targets /\ x[2] \in Nat /\ x[2] \in 1 .. Len(fifo[x[1]])
         /\ ProbeAt(x) \in Probes /\ DeadlineOf(x) \in 0 .. MaxTime + Timeout
<1>1. /\ x \in Targets \X (1 .. MaxProbes) /\ x[2] <= Len(fifo[x[1]])
  BY DEF Open
<1>2. x[1] \in Targets /\ x[2] \in Nat /\ 1 <= x[2]
  BY <1>1
<1>3. fifo[x[1]] \in Seq(Probes) /\ Len(fifo[x[1]]) \in Nat
  BY <1>2, LenProperties DEF Queued, Fifos
<1>4. x[2] \in 1 .. Len(fifo[x[1]])
  BY <1>1, <1>2, <1>3
<1>5. ProbeAt(x) \in Probes
  BY <1>3, <1>4, ElementOfSeq DEF ProbeAt
<1>6. 0 \in Nat /\ 0 <= Timeout
  BY PolicyAssumption
<1>7. Deadline(ProbeAt(x)) \in 0 .. MaxTime + Timeout
  BY <1>5, <1>6, ProbeTimes
<1> QED BY <1>2, <1>4, <1>5, <1>7 DEF DeadlineOf

\* The next deadline is a time, if there is one.
LEMMA NextDeadlineIsATime ==
  ASSUME Queued PROVE NextDeadline \in Nat \cup {None}
<1> DEFINE S == {DeadlineOf(x) : x \in Open}
<1>1. CASE Open = {}
  BY <1>1 DEF NextDeadline
<1>2. CASE Open # {}
  <2>1. \A x \in Open : DeadlineOf(x) \in Nat
    BY OpenProbes, PolicyAssumption, BoundAssumption
  <2>2. S \in SUBSET Nat /\ S # {}
    BY <1>2, <2>1
  <2>3. NextDeadline = Min(S)
    BY <1>2 DEF NextDeadline
  <2> HIDE DEF S
  <2> QED BY <2>2, <2>3, MinIsIn
<1> QED BY <1>1, <1>2

\* expire settles a probe whose deadline has passed.
LEMMA ExpireKeeps ==
  ASSUME Kept, Queued, Bounded, NEW x \in Open, Expire(x)
  PROVE  Kept' /\ Queued' /\ Bounded'
<1> DEFINE p == ProbeAt(x)
           t == x[1]
           i == x[2]
           w == Fault(World, t, p, Deadline(p))
<1>1. /\ t \in Targets /\ i \in Nat /\ i \in 1 .. Len(fifo[t])
      /\ p \in Probes /\ Deadline(p) \in 0 .. MaxTime + Timeout
  BY OpenProbes DEF DeadlineOf
<1>2. Finish(w, t, i, FALSE, None)
  BY DEF Expire
<1>3. p.base \in Baseline /\ WorldOK(World) /\ World.samples = samples
  BY <1>1 DEF Probes, Kept, World
<1> HIDE DEF p, t, i
<1>4. WorldOK(w) /\ w.samples <= World.samples
  BY <1>1, <1>3, FaultKeeps
<1> HIDE DEF w
<1> QED BY <1>1, <1>2, <1>3, <1>4, FinishKeeps

\* What the hooks hold is left alone by a step that leaves hookVars alone.
LEMMA HooksUnchanged ==
  ASSUME Kept, Queued, Bounded, UNCHANGED hookVars
  PROVE  Kept' /\ Queued' /\ Bounded'
<1>1. UNCHANGED <<state, fifo, tracked, samples, settling, requested>>
  BY DEF hookVars
<1>2. Bounded'
  BY <1>1 DEF Bounded
<1> QED BY <1>1, <1>2, KeptUnchanged, QueueUnchanged

\* The steps of Run that do not touch a probe, and the clock.
LEMMA RunKeeps ==
  ASSUME Looping, Queued, Scan \/ ScanDone \/ Arm \/ WakeUp \/ Return \/ Tick
  PROVE  Looping' /\ UNCHANGED hookVars
<1>1. clock \in Nat /\ NextDeadline \in Nat \cup {None} /\ None \notin Nat /\ MaxTime \in Nat
  BY NextDeadlineIsATime, BoundAssumption DEF Looping, Instant, None
<1>2. CASE Scan
  BY <1>1, <1>2 DEF Scan, Looping
<1>3. CASE ScanDone
  BY <1>1, <1>3 DEF ScanDone, Looping
<1>4. CASE Arm
  <2>1. run.at # None => Max({run.at, clock}) \in Nat
    <3>1. SUFFICES ASSUME run.at \in Nat PROVE Max({run.at, clock}) \in Nat
      BY DEF Looping
    <3>2. \E n \in {run.at, clock} : \A m \in {run.at, clock} : n >= m
      BY <1>1, <3>1
    <3>3. Max({run.at, clock}) \in {run.at, clock}
      BY <3>2 DEF Max
    <3> QED BY <1>1, <3>1, <3>3
  <2> QED BY <1>4, <2>1 DEF Arm, Looping
<1>5. CASE WakeUp
  BY <1>5 DEF WakeUp, Looping
<1>6. CASE Return
  BY <1>6 DEF Return, Looping
<1>7. CASE Tick
  BY <1>1, <1>7 DEF Tick, Looping, runVars, Instant
<1> QED BY <1>2, <1>3, <1>4, <1>5, <1>6, <1>7

\* The other steps at most leave a token for Run.
LEMMA OthersKeepLooping ==
  ASSUME Looping,
         \/ \E t \in Targets : Hook(t) \/ Settle(t)
         \/ \E x \in Open : Expire(x)
  PROVE  Looping'
<1>1. UNCHANGED <<clock, run, timerAt>> /\ (wake' = wake \/ wake' = TRUE)
  <2>1. ASSUME NEW t \in Targets, Hook(t)
        PROVE  UNCHANGED <<clock, run, timerAt>> /\ (wake' = wake \/ wake' = TRUE)
    BY <2>1 DEF Hook, BeginProbe, BeginUntracked, CompleteProbe, CompleteAnswered, CompleteFailed,
         ObserveEarly, ObserveReply, ObserveGap, UpdateEndpoint, Replace, Snapshot, runVars
  <2>2. ASSUME NEW t \in Targets, Settle(t) PROVE UNCHANGED <<clock, run, timerAt, wake>>
    BY <2>2 DEF Settle, runVars
  <2>3. ASSUME NEW x \in Open, Expire(x) PROVE UNCHANGED <<clock, run, timerAt>> /\ wake' = TRUE
    BY <2>3 DEF Expire, runVars
  <2> QED BY <2>1, <2>2, <2>3
<1> QED BY <1>1 DEF Looping, Instant

\* A hook keeps the invariant.
LEMMA HookKeeps ==
  ASSUME IInv, NEW t \in Targets, Hook(t)
  PROVE  Kept' /\ Queued' /\ Bounded'
<1>1. Looping /\ Kept /\ Queued /\ Bounded
  BY DEF IInv
<1>2. CASE \E at \in Instant : BeginProbe(t, at)
  BY <1>1, <1>2, BeginProbeKeeps
<1>3. CASE \E at \in Instant : BeginUntracked(t, at)
  BY <1>1, <1>3, BeginUntrackedKeeps
<1>4. CASE CompleteProbe(t)
  BY <1>1, <1>4, CompleteProbeKeeps
<1>5. CASE CompleteAnswered(t)
  BY <1>1, <1>5, CompleteAnsweredKeeps
<1>6. CASE CompleteFailed(t)
  BY <1>1, <1>6, CompleteFailedKeeps
<1>7. CASE \E rtt \in Rtts : ObserveEarly(t, rtt)
  BY <1>1, <1>7, ObserveEarlyKeeps
<1>8. CASE \E rtt \in Rtts, i \in 1 .. MaxProbes : ObserveReply(t, i, rtt)
  BY <1>1, <1>8, ObserveReplyKeeps
<1>9. CASE ObserveGap(t)
  BY <1>1, <1>9, ObserveGapKeeps
<1>10. CASE UpdateEndpoint(t)
  BY <1>1, <1>10, UpdateEndpointKeeps
<1>11. CASE Snapshot(t)
  BY <1>1, <1>11, SnapshotKeeps
<1> QED BY <1>2, <1>3, <1>4, <1>5, <1>6, <1>7, <1>8, <1>9, <1>10, <1>11 DEF Hook
-----------------------------------------------------------------------------
(* The theorems.                                                           *)

\* Nothing is held or learned at first.
LEMMA InitIInv == Init => IInv
<1> SUFFICES ASSUME Init PROVE IInv
  OBVIOUS
<1> DEFINE zero == [t \in Targets |-> 0]
<1>1. Fresh \in States /\ Fresh.history = <<>> /\ Len(Fresh.history) = 0 /\ GoodState(Fresh)
      /\ ~Fresh.active
  BY EmptySeq DEF Fresh, States, GoodState, Baseline
<1>2. Sum(zero) = 0
  <2>1. \A t \in Targets : zero[t] = 0
    OBVIOUS
  <2> HIDE DEF zero
  <2> QED BY <2>1, TargetsAssumption, SumFunctionZero DEF Sum
<1>3. /\ state = [t \in Targets |-> Fresh] /\ fifo = [t \in Targets |-> <<>>]
      /\ tracked = 0 /\ samples = 0 /\ settling = NoTarget
      /\ requested = [t \in Targets |-> NormalInterval]
  BY DEF Init
<1>4. Looping
  <2>1. MaxTime \in Nat
    BY BoundAssumption
  <2>2. /\ clock = 0 /\ run = [pc |-> "scan", at |-> None] /\ wake = FALSE
        /\ timerAt = None
    BY DEF Init
  <2> HIDE DEF Init
  <2>3. clock \in Instant
    BY <2>1, <2>2 DEF Instant
  <2>4. wake \in BOOLEAN
    BY <2>2
  <2>5. run \in [pc : {"scan", "expiring", "arm", "select", "returned"}, at : Nat \cup {None}]
    BY <2>2
  <2> QED BY <2>2, <2>3, <2>4, <2>5 DEF Looping
<1> HIDE DEF Init
<1>5. Kept
  <2>1. World \in Worlds
    BY <1>1, <1>3 DEF World, Worlds
  <2>2. Held(World) = Sum(zero)
    BY <1>1, <1>3 DEF Held, World
  <2>3. \A t \in Targets : GoodState(World.state[t])
    BY <1>1, <1>3 DEF World
  <2>4. requested = Cadences(state)
    BY <1>1, <1>3 DEF Cadences
  <2> QED BY <1>2, <1>3, <2>1, <2>2, <2>3, <2>4 DEF Kept, WorldOK, Counted, World
<1>6. Queued
  <2>1. Total(fifo) = Sum(zero)
    BY <1>3, EmptySeq DEF Total
  <2> QED BY <1>2, <1>3, <2>1, EmptySeq, TargetsAssumption DEF Queued, Fifos
<1>7. Bounded
  BY <1>3, PolicyAssumption DEF Bounded
<1> QED BY <1>4, <1>5, <1>6, <1>7 DEF IInv

\* Every step keeps the invariant.
LEMMA NextIInv == IInv /\ [Next]_vars => IInv'
<1> SUFFICES ASSUME IInv, [Next]_vars PROVE IInv'
  OBVIOUS
<1>1. Looping /\ Kept /\ Queued /\ Bounded
  BY DEF IInv
<1>2. ASSUME NEW t \in Targets, Hook(t) PROVE IInv'
  BY <1>2, HookKeeps, <1>1, OthersKeepLooping DEF IInv
<1>3. ASSUME NEW t \in Targets, Settle(t) PROVE IInv'
  <2>1. Kept' /\ Queued' /\ Bounded'
    BY <1>1, <1>3, SettleKeeps DEF Looping
  <2> QED BY <1>1, <1>3, <2>1, OthersKeepLooping DEF IInv
<1>4. ASSUME NEW x \in Open, Expire(x) PROVE IInv'
  BY <1>1, <1>4, ExpireKeeps, OthersKeepLooping DEF IInv
<1>5. CASE Scan \/ ScanDone \/ Arm \/ WakeUp \/ Return \/ Tick
  BY <1>1, <1>5, RunKeeps, HooksUnchanged DEF IInv
<1>6. CASE UNCHANGED vars
  <2>1. UNCHANGED hookVars /\ UNCHANGED <<clock, run, timerAt, wake>>
    BY <1>6 DEF vars, runVars
  <2>2. Looping'
    BY <1>1, <2>1 DEF Looping, Instant
  <2> QED BY <1>1, <2>1, <2>2, HooksUnchanged DEF IInv
<1> QED BY <1>2, <1>3, <1>4, <1>5, <1>6 DEF Next, RunStep, SettleStep

\* In every behaviour.
LEMMA AlwaysIInv == Spec => []IInv
BY InitIInv, NextIInv, PTL DEF Spec

\* What the controller holds has its types, for any targets and policy.
THEOREM TypeCorrect == Spec => []TypeOK
<1>1. IInv => TypeOK
  BY IInvIsEnough
<1> QED BY <1>1, AlwaysIInv, PTL

\* makeRoom's counters are exact, and what they add up to stays within
\* maxTrackedSamples: through the bulk removals of pruning, interruptions,
\* evictions from another target and endpoint changes.
THEOREM CapacityIsKept == Spec => []WithinCapacity
<1>1. IInv => WithinCapacity
  BY IInvIsEnough
<1> QED BY <1>1, AlwaysIInv, PTL

\* The scheduler has been told of the mode each target is in.
THEOREM CadenceIsFollowed == Spec => []CadenceFollowsState
<1>1. IInv => CadenceFollowsState
  BY IInvIsEnough
<1> QED BY <1>1, AlwaysIInv, PTL

\* During an incident no sample above the frozen threshold is learned.
THEOREM IncidentsTeachNothing == Spec => []DegradedNeverLearned
<1>1. IInv => DegradedNeverLearned
  BY IInvIsEnough
<1> QED BY <1>1, AlwaysIInv, PTL
-----------------------------------------------------------------------------
(* Recoveries.  The end of an incident is a step, so what it needs is kept *)
(* by an invariant: the healthy run that the controller knows only by its  *)
(* first and last probe is the end of the log of good probes.              *)

\* The healthy run of s is logged from the m-th entry to the last.
LoggedFrom(s, log, m) ==
  /\ log[m] = s.healthySince /\ log[Len(log)] = s.healthyThrough
  /\ \A i \in m + 1 .. Len(log) : log[i] - log[i - 1] <= 2 * FastInterval
\* A healthy run is logged, and nothing bad is known from its first probe on.
RunIsLogged(s, log) ==
  s.healthySince # None =>
    s.lastBad <= s.healthySince /\ \E m \in 1 .. Len(log) : LoggedFrom(s, log, m)
\* Probes are settled as they were sent, and none were sent after `last'.
InOrder(q, log, last) ==
  /\ \A i \in 1 .. Len(q) : q[i].at <= last
  /\ \A i \in 1 .. Len(q), j \in 1 .. Len(q) : i < j => q[i].at < q[j].at
  /\ \A k \in 1 .. Len(log) : log[k] <= last /\ \A i \in 1 .. Len(q) : log[k] < q[i].at
\* A bad probe was noted when it was found bad, before it is settled.
BadIsKnown(q, s) ==
  \A i \in 1 .. Len(q) : q[i].done /\ ~q[i].good => q[i].at <= s.lastBad
\* What the history of t has to say.
Told(t) ==
  /\ sent[t] <= clock
  /\ InOrder(fifo[t], settled[t], sent[t])
  /\ BadIsKnown(fifo[t], state[t])
  /\ broken[t] <= state[t].lastBad
  /\ RunIsLogged(state[t], settled[t])
Noted ==
  /\ settled \in [Targets -> Seq(Instant)]
  /\ sent \in [Targets -> Instant \cup {None}]
  /\ broken \in [Targets -> (0 .. MaxTime + Timeout) \cup {None}]
  /\ changes \in Nat
  /\ settling \in Targets => Head(fifo[settling]).done
RInv == IInv /\ Noted /\ \A t \in Targets : Told(t)

\* From s to r no incident ends, and a healthy run is kept or forgotten.
Onward(s, r) ==
  /\ s.active => r.active
  /\ s.lastBad <= r.lastBad
  /\ \/ r.healthySince = None
     \/ /\ r.healthySince = s.healthySince /\ r.healthyThrough = s.healthyThrough
        /\ r.lastBad = s.lastBad
AllOnward(w, v) == \A t \in Targets : Onward(w.state[t], v.state[t])

\* The evidence of a recovery: the end of a log.
Earned(log, since) ==
  \E m \in 1 .. Len(log) :
    /\ log[Len(log)] - log[m] >= RecoverAfter
    /\ \A i \in m + 1 .. Len(log) : log[i] - log[i - 1] <= 2 * FastInterval
    /\ since <= log[m]
\* What a step has to keep, and to show when it ends an incident.
Justified(t) ==
  /\ Told(t)'
  /\ state[t].active /\ ~state'[t].active /\ changes' = changes
       => Earned(settled'[t], broken[t])
Accounts == Noted' /\ \A t \in Targets : Justified(t)

\* The numbers of a state.
LEMMA StateTimes ==
  ASSUME NEW s \in States
  PROVE  /\ s.active \in BOOLEAN /\ s.lastBad \in Int /\ s.lastBad >= None
         /\ s.healthySince \in Int /\ s.healthyThrough \in Int
         /\ s.healthySince # None => s.healthySince \in Instant
<1>1. MaxTime \in Nat /\ Timeout \in Nat /\ None \in Int /\ None = -1
  BY PolicyAssumption, BoundAssumption DEF None
<1>2. /\ s.active \in BOOLEAN /\ s.lastBad \in (0 .. MaxTime + Timeout) \cup {None}
      /\ s.healthySince \in Instant \cup {None} /\ s.healthyThrough \in Instant \cup {None}
  BY DEF States
<1> QED BY <1>1, <1>2 DEF Instant

\* A state that does not change goes on.
LEMMA OnwardIsReflexive ==
  ASSUME NEW s \in States PROVE Onward(s, s)
BY StateTimes DEF Onward

\* Two steps onward are one.
LEMMA OnwardIsTransitive ==
  ASSUME NEW s \in States, NEW r \in States, NEW q \in States, Onward(s, r), Onward(r, q)
  PROVE  Onward(s, q)
BY StateTimes, SMTT(30) DEF Onward

\* So it is for all targets.
LEMMA AllOnwardIsTransitive ==
  ASSUME NEW w \in Worlds, NEW v \in Worlds, NEW x \in Worlds,
         AllOnward(w, v), AllOnward(v, x)
  PROVE  AllOnward(w, x)
BY OnwardIsTransitive DEF AllOnward, Worlds

\* What goes on keeps the log of the healthy run.
LEMMA RunStaysLogged ==
  ASSUME NEW s, NEW r, NEW log, NEW log1, RunIsLogged(s, log), Onward(s, r),
         log1 = log \/ s.healthySince = None
  PROVE  RunIsLogged(r, log1)
BY DEF RunIsLogged, LoggedFrom, Onward

\* A history is not part of the healthy run.
LEMMA HistoryIsAside ==
  ASSUME NEW w \in Worlds, NEW t \in Targets, NEW h, NEW n,
         NEW v, v = [w EXCEPT !.samples = n, !.state[t].history = h]
  PROVE  AllOnward(w, v)
<1>1. v.state = [w.state EXCEPT ![t].history = h]
  BY DEF Worlds
<1>2. ASSUME NEW u \in Targets PROVE Onward(w.state[u], v.state[u])
  <2>1. w.state[u] \in States
    BY DEF Worlds
  <2>2. CASE u = t
    <3>1. v.state[u] = [w.state[u] EXCEPT !.history = h]
      BY <1>1, <2>2 DEF Worlds
    <3>2. /\ v.state[u].active = w.state[u].active /\ v.state[u].lastBad = w.state[u].lastBad
          /\ v.state[u].healthySince = w.state[u].healthySince
          /\ v.state[u].healthyThrough = w.state[u].healthyThrough
      BY <2>1, <3>1 DEF States
    <3> QED BY <2>1, <3>2, StateTimes DEF Onward
  <2>3. CASE u # t
    <3>1. v.state[u] = w.state[u]
      BY <1>1, <2>3 DEF Worlds
    <3> QED BY <2>1, <3>1, OnwardIsReflexive
  <2> QED BY <2>2, <2>3
<1> QED BY <1>2 DEF AllOnward

\* DropFirst only drops samples.
LEMMA DropFirstGoesOn ==
  ASSUME NEW w \in Worlds, NEW t \in Targets, NEW n
  PROVE  AllOnward(w, DropFirst(w, t, n))
<1>1. DropFirst(w, t, n) =
        [w EXCEPT !.samples = w.samples - n,
                  !.state[t].history = SubSeq(w.state[t].history, n + 1, Len(w.state[t].history))]
  BY DEF DropFirst, Worlds
<1> QED BY <1>1, HistoryIsAside

\* So does pruneHistory.
LEMMA PruneGoesOn ==
  ASSUME NEW w \in Worlds, NEW t \in Targets, NEW now
  PROVE  AllOnward(w, Prune(w, t, now))
BY DropFirstGoesOn DEF Prune

\* A sample more leaves the rest.
LEMMA LearnGoesOn ==
  ASSUME NEW w \in Worlds, NEW t \in Targets, NEW sample
  PROVE  AllOnward(w, Learn(w, t, sample))
<1>1. Learn(w, t, sample) =
        [w EXCEPT !.samples = w.samples + 1,
                  !.state[t].history = Append(w.state[t].history, sample)]
  BY DEF Learn, Worlds
<1> QED BY <1>1, HistoryIsAside

\* One state is put in the place of another.
LEMMA PutGoesOn ==
  ASSUME NEW w \in Worlds, NEW t \in Targets, NEW s, Onward(w.state[t], s)
  PROVE  AllOnward(w, Put(w, t, s))
<1>1. Put(w, t, s).state = [w.state EXCEPT ![t] = s]
  BY DEF Put, Worlds
<1>2. \A u \in Targets : w.state[u] \in States
  BY DEF Worlds
<1>3. \A u \in Targets : Put(w, t, s).state[u] = IF u = t THEN s ELSE w.state[u]
  BY <1>1 DEF Worlds
<1> QED BY <1>2, <1>3, OnwardIsReflexive DEF AllOnward

\* So does the mark of a target that is limited.
LEMMA LimitGoesOn ==
  ASSUME NEW w \in Worlds, NEW t \in Targets
  PROVE  AllOnward(w, Limit(w, t))
<1> DEFINE s == w.state[t]
           s1 == [s EXCEPT !.limited = TRUE]
<1>1. s \in States
  BY DEF Worlds
<1>2. Onward(s, s1)
  BY <1>1, StateTimes DEF Onward, States
<1>3. Limit(w, t) = Put(w, t, s1)
  BY DEF Limit, Put, Worlds
<1> HIDE DEF s1
<1> QED BY <1>2, <1>3, PutGoesOn

\* interrupt forgets the healthy run, and notes when.
LEMMA InterruptGoesOn ==
  ASSUME NEW w, Counted(w), NEW t \in Targets, NEW at \in 0 .. MaxTime + Timeout,
         ~w.state[t].active => w.state[t].healthySince = None
  PROVE  /\ AllOnward(w, Interrupt(w, t, at))
         /\ at <= Interrupt(w, t, at).state[t].lastBad
         /\ w.state[t].lastBad <= at => Interrupt(w, t, at).state[t].lastBad = at
         /\ Interrupt(w, t, at).state[t].healthySince = None
         /\ \A u \in Targets : u # t => Interrupt(w, t, at).state[u] = w.state[u]
<1> DEFINE s == w.state[t]
           v == Interrupt(w, t, at)
           x == IF at > s.lastBad THEN at ELSE s.lastBad
           s1 == [s EXCEPT !.lastBad = x]
           raw == [w EXCEPT !.state[t].lastBad = IF at > @ THEN at ELSE @]
           bad == Put(w, t, s1)
           s2 == [s1 EXCEPT !.healthySince = None, !.healthyThrough = None]
           c == Put(bad, t, s2)
<1>1. w \in Worlds /\ s \in States /\ s.active \in BOOLEAN
  BY DEF Counted, Worlds, States
<1>2. x \in (0 .. MaxTime + Timeout) \cup {None} /\ at <= x
      /\ s.lastBad <= x /\ (s.lastBad <= at => x = at)
  <2>1. s.lastBad \in (0 .. MaxTime + Timeout) \cup {None} /\ MaxTime + Timeout \in Nat
    BY <1>1, PolicyAssumption, BoundAssumption DEF States
  <2> QED BY <2>1 DEF None
<1>0. v = IF ~s.active THEN raw
          ELSE ClearHistory([raw EXCEPT !.state[t].healthySince = None,
                                        !.state[t].healthyThrough = None], t)
  BY DEF Interrupt
<1>3. raw = bad
  BY <1>1 DEF Worlds, Put
<1> HIDE DEF x
<1>4. /\ s1 \in States /\ s1.history = s.history /\ s1.active = s.active /\ s1.lastBad = x
      /\ s1.healthySince = s.healthySince
  BY <1>1, <1>2 DEF States
<1>5. /\ s2 \in States /\ s2.history = s.history /\ s2.active = s.active
      /\ s2.lastBad = x /\ s2.healthySince = None
  <2> HIDE DEF s1
  <2> QED BY <1>1, <1>4 DEF States
<1> HIDE DEF s1, s2, v, bad, c, raw
<1>7. /\ Counted(bad) /\ bad.state[t] = s1
      /\ \A u \in Targets : u # t => bad.state[u] = w.state[u]
  BY <1>4, PutKeeps DEF bad
<1>8. CASE ~s.active
  <2>1. Onward(s, s1)
    BY <1>2, <1>4, <1>8 DEF Onward
  <2>2. AllOnward(w, bad)
    BY <1>1, <2>1, PutGoesOn DEF bad
  <2> QED BY <1>0, <1>2, <1>3, <1>4, <1>7, <1>8, <2>2 DEF v
<1>9. CASE s.active
  <2>1. [raw EXCEPT !.state[t].healthySince = None, !.state[t].healthyThrough = None] = c
    BY <1>3, <1>7 DEF Counted, Worlds, c, s2, Put
  <2>2. /\ Counted(c) /\ c.state[t] = s2
        /\ \A u \in Targets : u # t => c.state[u] = w.state[u]
    <3>1. s2.history = bad.state[t].history
      BY <1>4, <1>5, <1>7
    <3> QED BY <1>5, <1>7, <3>1, PutKeeps DEF c
  <2>3. AllOnward(w, c)
    <3>1. Onward(s, s2)
      BY <1>2, <1>5 DEF Onward
    <3>2. \A u \in Targets : w.state[u] \in States
      BY <1>1 DEF Worlds
    <3> QED BY <2>2, <3>1, <3>2, OnwardIsReflexive DEF AllOnward
  <2>4. v = DropFirst(c, t, Len(c.state[t].history))
    BY <1>0, <1>9, <2>1 DEF ClearHistory
  <2>5. c \in Worlds
    BY <2>2 DEF Counted
  <2>6. AllOnward(c, v)
    BY <2>4, <2>5, DropFirstGoesOn
  <2>7. v.state[t].lastBad = x /\ v.state[t].healthySince = None
    <3>1. v.state[t] = [s2 EXCEPT !.history = SubSeq(s2.history, Len(s2.history) + 1, Len(s2.history))]
      BY <2>2, <2>4, <2>5 DEF DropFirst, Worlds
    <3> QED BY <1>5, <3>1 DEF States
  <2>8. v \in Worlds /\ \A u \in Targets : u # t => v.state[u] = w.state[u]
    <3>1. Len(c.state[t].history) \in Nat
      BY <2>5, LenProperties DEF Worlds, States
    <3>2. Counted(v) /\ Differs(c, v, t)
      BY <2>2, <2>4, <3>1, DropFirstKeeps
    <3> QED BY <2>2, <3>2 DEF Counted, Differs
  <2>9. AllOnward(w, v)
    BY <1>1, <2>3, <2>5, <2>6, <2>8, AllOnwardIsTransitive
  <2> QED BY <1>2, <2>7, <2>8, <2>9 DEF v
<1> QED BY <1>1, <1>8, <1>9

\* fault goes on with the incident, or begins one, and notes when.
LEMMA FaultGoesOn ==
  ASSUME NEW w, WorldOK(w), NEW t \in Targets, NEW p, p.base \in Baseline,
         NEW at \in 0 .. MaxTime + Timeout
  PROVE  /\ AllOnward(w, Fault(w, t, p, at))
         /\ at <= Fault(w, t, p, at).state[t].lastBad
         /\ Fault(w, t, p, at).state[t].healthySince = None
<1> DEFINE s == w.state[t]
           s1 == [s EXCEPT !.active = TRUE, !.base = p.base]
           entered == Put(w, t, s1)
<1>1. /\ Counted(w) /\ w \in Worlds /\ s \in States /\ s.active \in BOOLEAN
      /\ ~s.active => s.healthySince = None
  BY DEF WorldOK, Counted, Worlds, States, GoodState
<1>2. [w EXCEPT !.state[t].active = TRUE, !.state[t].base = p.base] = entered
  BY <1>1 DEF Worlds, Put
<1>3. /\ s1 \in States /\ s1.history = s.history /\ s1.active /\ s1.lastBad = s.lastBad
      /\ s1.healthySince = s.healthySince /\ s1.healthyThrough = s.healthyThrough
  BY <1>1 DEF States
<1>4. Fault(w, t, p, at) = Interrupt(IF s.active THEN w ELSE entered, t, at)
  BY <1>2 DEF Fault
<1> HIDE DEF s1, entered
<1>5. Counted(entered) /\ entered.state[t] = s1
  BY <1>1, <1>3, PutKeeps DEF entered
<1>6. CASE s.active
  BY <1>1, <1>4, <1>6, InterruptGoesOn
<1>7. CASE ~s.active
  <2>1. Onward(s, s1)
    BY <1>1, <1>3, StateTimes DEF Onward
  <2>2. AllOnward(w, entered)
    BY <1>1, <2>1, PutGoesOn DEF entered
  <2>3. /\ AllOnward(entered, Interrupt(entered, t, at))
        /\ at <= Interrupt(entered, t, at).state[t].lastBad
        /\ Interrupt(entered, t, at).state[t].healthySince = None
    BY <1>3, <1>5, InterruptGoesOn
  <2>4. Interrupt(entered, t, at) \in Worlds
    <3>1. WorldOK(Fault(w, t, p, at))
      BY FaultKeeps
    <3> QED BY <1>4, <1>7, <3>1 DEF WorldOK, Counted
  <2>5. entered \in Worlds
    BY <1>5 DEF Counted
  <2>6. AllOnward(w, Interrupt(entered, t, at))
    BY <1>1, <2>2, <2>3, <2>4, <2>5, AllOnwardIsTransitive
  <2> QED BY <1>4, <1>7, <2>3, <2>6
<1> QED BY <1>1, <1>6, <1>7

\* makeRoom may forget the healthy run of the target it evicts from.
LEMMA RoomsGoOn ==
  ASSUME clock \in Instant, NEW w, WorldOK(w), NEW held \in Nat,
         held + w.samples <= MaxTracked, NEW r \in Rooms(w, held)
  PROVE  AllOnward(w, r)
<1>1. clock \in 0 .. MaxTime + Timeout /\ w \in Worlds /\ Counted(w)
  BY PolicyAssumption, BoundAssumption DEF WorldOK, Counted, Instant
<1>2. CASE BelowLimit(held + w.samples)
  <2>1. r = w
    BY <1>2 DEF Rooms
  <2>2. \A u \in Targets : w.state[u] \in States
    BY <1>1 DEF Worlds
  <2> QED BY <2>1, <2>2, OnwardIsReflexive DEF AllOnward
<1>3. CASE ~BelowLimit(held + w.samples)
  <2>1. PICK v \in {u \in Targets : w.state[u].history # <<>>} :
               r = Interrupt(Limit(DropFirst(w, v, 1), v), v, clock)
    BY <1>3 DEF Rooms, Limit
  <2> DEFINE d == DropFirst(w, v, 1)
             l == Limit(d, v)
  <2>2. v \in Targets /\ 1 <= Len(w.state[v].history)
    <3>1. w.state[v].history \in Seq(Samples) /\ w.state[v].history # <<>>
      BY <1>1, <2>1 DEF Worlds, States
    <3>2. Len(w.state[v].history) \in Nat \ {0}
      BY <3>1, EmptySeq
    <3> QED BY <2>1, <3>2
  <2>3. /\ Counted(DropFirst(w, v, 1)) /\ Differs(w, DropFirst(w, v, 1), v)
        /\ GoodState(w.state[v]) => GoodState(DropFirst(w, v, 1).state[v])
    BY <1>1, <2>2, DropFirstKeeps
  <2>4. AllOnward(w, DropFirst(w, v, 1))
    BY <1>1, <2>2, DropFirstGoesOn
  <2> HIDE DEF d
  <2>5. WorldOK(d) /\ d \in Worlds
    BY <2>3 DEF d, WorldOK, Counted, Differs
  <2>6. WorldOK(Limit(d, v)) /\ AllOnward(d, Limit(d, v))
    BY <2>2, <2>5, LimitKeeps, LimitGoesOn
  <2> HIDE DEF l
  <2>7. /\ Counted(l) /\ l \in Worlds /\ AllOnward(d, l)
        /\ \A u \in Targets : GoodState(l.state[u])
    BY <2>6 DEF l, WorldOK, Counted
  <2>8. ~l.state[v].active => l.state[v].healthySince = None
    BY <2>2, <2>7 DEF GoodState
  <2>9. AllOnward(l, Interrupt(l, v, clock)) /\ WorldOK(Interrupt(l, v, clock))
    BY <1>1, <2>2, <2>7, <2>8, InterruptGoesOn, InterruptKeeps
  <2>10. r = Interrupt(l, v, clock) /\ r \in Worlds /\ AllOnward(l, r)
    BY <2>1, <2>9 DEF l, d, WorldOK, Counted
  <2>11. AllOnward(w, l)
    BY <1>1, <2>4, <2>5, <2>7, AllOnwardIsTransitive DEF d
  <2> QED BY <1>1, <2>7, <2>10, <2>11, AllOnwardIsTransitive
<1> QED BY <1>2, <1>3

\* So may addSample.
LEMMA AddSampleGoesOn ==
  ASSUME clock \in Instant, NEW w, WorldOK(w), NEW t \in Targets, NEW sample \in Samples,
         w.state[t].active => ~Exceeds(sample.rtt, w.state[t].base),
         NEW held \in Nat, held + w.samples <= MaxTracked,
         NEW v \in AddSample(w, t, sample, held)
  PROVE  AllOnward(w, v)
<1> DEFINE pruned == Prune(w, t, clock)
<1>1. WorldOK(pruned) /\ pruned.samples <= w.samples
  BY PruneKeeps
<1>2. AllOnward(w, pruned)
  BY PruneGoesOn DEF WorldOK, Counted
<1>3. v = pruned \/ \E r \in Rooms(pruned, held) : v = Learn(r, t, sample)
  BY DEF AddSample, Learn
<1>4. WorldOK(v)
  BY AddSampleKeeps
<1> HIDE DEF pruned
<1>5. held + pruned.samples <= MaxTracked
  BY <1>1, PolicyAssumption DEF WorldOK, Counted, Worlds
<1>6. ASSUME NEW r \in Rooms(pruned, held), v = Learn(r, t, sample)
      PROVE  AllOnward(w, v)
  <2>1. AllOnward(pruned, r) /\ WorldOK(r)
    BY <1>1, <1>5, RoomsGoOn, RoomsKeep
  <2>2. w \in Worlds /\ pruned \in Worlds /\ r \in Worlds /\ v \in Worlds
    BY <1>1, <1>4, <2>1 DEF WorldOK, Counted
  <2>3. AllOnward(r, v)
    BY <1>6, <2>2, LearnGoesOn
  <2>4. AllOnward(w, r)
    BY <1>2, <2>1, <2>2, AllOnwardIsTransitive
  <2> QED BY <2>2, <2>3, <2>4, AllOnwardIsTransitive
<1> QED BY <1>2, <1>3, <1>6

\* The oldest probe extends the healthy run, and the log.
LEMMA ExtendIsLogged ==
  ASSUME NEW w, WorldOK(w), NEW t \in Targets, w.state[t].active, NEW at \in Instant,
         w.state[t].lastBad <= at, NEW log \in Seq(Instant), RunIsLogged(w.state[t], log)
  PROVE  /\ RunIsLogged(Extend(w, t, at).state[t], Append(log, at))
         /\ w.state[t].lastBad <= Extend(w, t, at).state[t].lastBad
         /\ \A u \in Targets : u # t => Extend(w, t, at).state[u] = w.state[u]
<1> DEFINE s == w.state[t]
           cut == IF Discontinuous(s, at) THEN Interrupt(w, t, at) ELSE w
           c == cut.state[t]
           v == Extend(w, t, at)
           x == IF c.healthySince = None THEN at ELSE c.healthySince
           log1 == Append(log, at)
           n == Len(log)
<1>1. /\ w \in Worlds /\ Counted(w) /\ s \in States /\ GoodState(s)
      /\ at \in 0 .. MaxTime + Timeout /\ at \in Nat /\ at # None
  BY PolicyAssumption, BoundAssumption DEF WorldOK, Counted, Worlds, Instant, None
<1>2. /\ n \in Nat /\ log1 \in Seq(Instant) /\ Len(log1) = n + 1 /\ log1[n + 1] = at
      /\ \A i \in 1 .. n : log1[i] = log[i]
  BY AppendProperties, LenProperties
<1>3. /\ WorldOK(Interrupt(w, t, at)) /\ Interrupt(w, t, at).state[t].healthySince = None
      /\ Interrupt(w, t, at).state[t].lastBad = at
      /\ \A u \in Targets : u # t => Interrupt(w, t, at).state[u] = w.state[u]
  BY <1>1, InterruptKeeps, InterruptGoesOn DEF WorldOK
<1>4. /\ cut \in Worlds /\ c \in States /\ s.lastBad <= c.lastBad /\ c.lastBad <= at
      /\ \A u \in Targets : u # t => cut.state[u] = w.state[u]
  <2>1. cut \in Worlds /\ c \in States
    BY <1>1, <1>3 DEF WorldOK, Counted, Worlds
  <2> QED BY <1>1, <1>3, <2>1, StateTimes
<1>5. \/ c.healthySince = None
      \/ s.healthySince # None /\ c = s /\ ~Discontinuous(s, at)
  BY <1>3
<1>6. v = [cut EXCEPT !.state[t].healthySince = IF @ = None THEN at ELSE @,
                      !.state[t].healthyThrough = at]
  BY DEF Extend
<1> HIDE DEF cut, v
<1>7. /\ v.state[t].healthySince = x /\ v.state[t].healthyThrough = at
      /\ v.state[t].lastBad = c.lastBad
      /\ \A u \in Targets : u # t => v.state[u] = w.state[u]
  BY <1>4, <1>6 DEF Worlds, States
<1>8. RunIsLogged(v.state[t], log1)
  <2>1. CASE c.healthySince = None
    <3>1. n + 1 \in 1 .. Len(log1) /\ \A i \in n + 1 + 1 .. Len(log1) : FALSE
      BY <1>2
    <3>2. LoggedFrom(v.state[t], log1, n + 1)
      BY <1>2, <1>7, <2>1, <3>1 DEF LoggedFrom
    <3> QED BY <1>4, <1>7, <2>1, <3>1, <3>2 DEF RunIsLogged
  <2>2. CASE s.healthySince # None /\ c = s /\ ~Discontinuous(s, at)
    <3>1. PICK m \in 1 .. n : LoggedFrom(s, log, m)
      BY <2>2 DEF RunIsLogged
    <3>2. s.lastBad <= s.healthySince /\ s.healthyThrough # None
      BY <1>1, <2>2 DEF RunIsLogged, GoodState
    <3>3. m \in Nat /\ m \in 1 .. Len(log1) /\ log1[m] = s.healthySince /\ n \in 1 .. n
      BY <1>2, <3>1 DEF LoggedFrom
    <3>4. at - log[n] <= 2 * FastInterval
      <4>1. log[n] = s.healthyThrough
        BY <3>1 DEF LoggedFrom
      <4>2. s.healthyThrough \in Int /\ FastInterval \in Nat
        BY <1>1, StateTimes, PolicyAssumption
      <4>3. ~(at - s.healthyThrough > 2 * FastInterval)
        BY <2>2, <3>2 DEF Discontinuous
      <4> QED BY <1>1, <4>1, <4>2, <4>3
    <3>5. ASSUME NEW i \in m + 1 .. Len(log1)
          PROVE  log1[i] - log1[i - 1] <= 2 * FastInterval
      <4>1. i \in Nat /\ i - 1 \in 1 .. n /\ (i \in m + 1 .. n \/ i = n + 1)
        BY <1>2, <3>3
      <4>2. CASE i = n + 1
        <5>1. i - 1 = n /\ log1[i] = at /\ log1[n] = log[n]
          BY <1>2, <3>3, <4>2
        <5> QED BY <3>4, <5>1
      <4>3. CASE i \in m + 1 .. n
        <5>1. i \in 1 .. n
          BY <1>2, <3>3, <4>3
        <5>2. log1[i] = log[i] /\ log1[i - 1] = log[i - 1]
          BY <1>2, <4>1, <5>1
        <5> QED BY <3>1, <4>3, <5>2 DEF LoggedFrom
      <4> QED BY <4>1, <4>2, <4>3
    <3>6. LoggedFrom(v.state[t], log1, m)
      BY <1>2, <1>7, <2>2, <3>3, <3>5 DEF LoggedFrom
    <3> QED BY <1>7, <2>2, <3>2, <3>3, <3>6 DEF RunIsLogged
  <2> QED BY <1>5, <2>1, <2>2
<1> QED BY <1>4, <1>7, <1>8 DEF v

\* A recovery is one that the log bears out.
LEMMA RecoverIsEarned ==
  ASSUME NEW w, WorldOK(w), NEW t \in Targets, NEW log \in Seq(Instant),
         RunIsLogged(w.state[t], log), NEW since \in Int, since <= w.state[t].lastBad
  PROVE  /\ RunIsLogged(Recover(w, t).state[t], log)
         /\ Recover(w, t).state[t].lastBad = w.state[t].lastBad
         /\ \A u \in Targets : u # t => Recover(w, t).state[u] = w.state[u]
         /\ w.state[t].active /\ ~Recover(w, t).state[t].active => Earned(log, since)
<1> DEFINE s == w.state[t]
           v == Recover(w, t)
<1>1. w \in Worlds /\ s \in States /\ GoodState(s)
  BY DEF WorldOK, Counted, Worlds
<1>2. CASE ~Recovered(s)
  BY <1>2 DEF Recover
<1>3. CASE Recovered(s)
  <2>1. v = [w EXCEPT !.state[t].active = FALSE, !.state[t].limited = FALSE,
                      !.state[t].healthySince = None, !.state[t].healthyThrough = None]
    BY <1>3 DEF Recover
  <2>2. /\ v.state[t].healthySince = None /\ v.state[t].lastBad = s.lastBad
        /\ \A u \in Targets : u # t => v.state[u] = w.state[u]
    BY <1>1, <2>1 DEF Worlds, States
  <2>3. s.healthyThrough - s.healthySince >= RecoverAfter
    BY <1>3 DEF Recovered
  <2>4. s.healthySince # None
    <3>1. RecoverAfter \in Nat \ {0} /\ None - None = 0
      BY PolicyAssumption DEF None
    <3> QED BY <1>1, <2>3, <3>1 DEF GoodState
  <2>5. PICK m \in 1 .. Len(log) : LoggedFrom(s, log, m)
    BY <2>4 DEF RunIsLogged
  <2>6. since <= log[m]
    <3>1. s.lastBad <= log[m] /\ log[m] \in Int /\ s.lastBad \in Int
      BY <1>1, <2>4, <2>5, StateTimes DEF RunIsLogged, LoggedFrom
    <3> QED BY <3>1
  <2>7. Earned(log, since)
    BY <2>3, <2>5, <2>6 DEF Earned, LoggedFrom
  <2>8. RunIsLogged(v.state[t], log)
    BY <2>2 DEF RunIsLogged
  <2> QED BY <2>2, <2>7, <2>8
<1> QED BY <1>2, <1>3

\* What the oldest probe leads to is borne out by the log that it is added to.
LEMMA OutcomesAreLogged ==
  ASSUME clock \in Instant, Kept, NEW t \in Targets, NEW p \in Probes,
         tracked - 1 \in Nat, tracked - 1 + samples <= MaxTracked,
         NEW log \in Seq(Instant), RunIsLogged(state[t], log),
         \A k \in 1 .. Len(log) : log[k] < p.at,
         ~p.good => p.at <= state[t].lastBad,
         NEW since \in Int, since <= state[t].lastBad,
         NEW w \in Outcomes(t, p),
         NEW log1, log1 = IF (p.good /\ ~Exceeds(p.rtt, state[t].base)) /\ state[t].active
                          THEN Append(log, p.at) ELSE <<>>
  PROVE  /\ \A u \in Targets : u # t => Onward(state[u], w.state[u])
         /\ state[t].lastBad <= w.state[t].lastBad
         /\ RunIsLogged(w.state[t], log1)
         /\ state[t].active /\ ~w.state[t].active => Earned(log1, since)
<1> DEFINE s == state[t]
           sample == [at |-> p.at, rtt |-> p.rtt]
           held == tracked - 1
           x == Extend(World, t, p.at)
           Result == /\ \A u \in Targets : u # t => Onward(state[u], w.state[u])
                     /\ s.lastBad <= w.state[t].lastBad
                     /\ RunIsLogged(w.state[t], log1)
                     /\ s.active /\ ~w.state[t].active => Earned(log1, since)
<1>1. /\ WorldOK(World) /\ World \in Worlds /\ World.samples = samples /\ World.state = state
      /\ samples \in Nat /\ s \in States /\ s.active \in BOOLEAN /\ GoodState(s)
      /\ \A u \in Targets : Onward(state[u], state[u])
  <2>1. WorldOK(World) /\ World \in Worlds /\ World.samples = samples /\ World.state = state
    BY DEF Kept, World, WorldOK, Counted
  <2>2. samples \in Nat /\ \A u \in Targets : state[u] \in States
    BY <2>1 DEF Worlds
  <2> QED BY <2>1, <2>2, OnwardIsReflexive, StateTimes DEF WorldOK
<1>2. p.at \in Instant /\ p.at \in Int /\ p.base \in Baseline /\ s.lastBad \in Int
  BY <1>1, StateTimes DEF Probes, Instant
<1>3. p.at <= s.lastBad => s.healthySince = None
  <2>1. SUFFICES ASSUME p.at <= s.lastBad, s.healthySince # None PROVE FALSE
    OBVIOUS
  <2>2. PICK m \in 1 .. Len(log) : log[m] = s.healthySince
    BY <2>1 DEF RunIsLogged, LoggedFrom
  <2>3. s.lastBad <= s.healthySince /\ s.healthySince < p.at /\ s.healthySince \in Int
    BY <1>1, <2>1, <2>2, StateTimes DEF RunIsLogged
  <2> QED BY <1>2, <2>1, <2>3
<1>0. held \in Nat /\ held + samples <= MaxTracked
  OBVIOUS
<1>4. ASSUME w = World, p.at <= s.lastBad PROVE Result
  <2>1. s.healthySince = None
    BY <1>3, <1>4
  <2> QED BY <1>1, <1>2, <1>4, <2>1 DEF RunIsLogged
<1>5. ASSUME p.good, w = Fault(World, t, p, p.at + p.rtt) PROVE Result
  <2>1. p.rtt \in Nat /\ p.rtt <= Timeout
    BY <1>5, PolicyAssumption DEF Probes
  <2>2. p.at + p.rtt \in 0 .. MaxTime + Timeout
    BY <2>1, ProbeTimes
  <2>3. AllOnward(World, w) /\ w.state[t].healthySince = None
    BY <1>1, <1>2, <1>5, <2>2, FaultGoesOn
  <2> QED BY <1>1, <2>3 DEF AllOnward, Onward, RunIsLogged
<1>6. p.good => sample \in Samples
  BY <1>2 DEF Probes, Samples
<1> HIDE DEF sample, held
<1>7. ASSUME p.good, ~s.active, w \in AddSample(World, t, sample, held) PROVE Result
  <2>1. AllOnward(World, w)
    BY <1>0, <1>1, <1>6, <1>7, AddSampleGoesOn
  <2>2. s.healthySince = None
    BY <1>1, <1>7 DEF GoodState
  <2>3. w.state[t].healthySince = None
    BY <1>1, <2>1, <2>2 DEF AllOnward, Onward
  <2> QED BY <1>1, <1>7, <2>1, <2>3 DEF AllOnward, Onward, RunIsLogged
<1>8. ASSUME p.good, s.active, ~TooSlow(s, p), s.lastBad <= p.at,
             w \in {Recover(v, t) : v \in AddSample(x, t, sample, held)}
      PROVE  Result
  <2>1. PICK v \in AddSample(x, t, sample, held) : w = Recover(v, t)
    BY <1>8
  <2>2. log1 = Append(log, p.at) /\ log1 \in Seq(Instant)
    BY <1>2, <1>8, AppendProperties DEF TooSlow
  <2>3. WorldOK(x) /\ x.samples <= World.samples /\ SameModes(World, x)
    BY <1>1, <1>2, <1>8, ExtendKeeps
  <2>4. /\ RunIsLogged(x.state[t], log1) /\ s.lastBad <= x.state[t].lastBad
        /\ \A u \in Targets : u # t => x.state[u] = state[u]
    BY <1>1, <1>2, <1>8, <2>2, ExtendIsLogged
  <2> HIDE DEF x
  <2>5. ~Exceeds(sample.rtt, x.state[t].base) /\ x.state[t].active
    BY <1>1, <1>8, <2>3 DEF TooSlow, SameModes, sample
  <2>6. held + x.samples <= MaxTracked
    <3>1. x.samples \in Nat
      BY <2>3 DEF WorldOK, Counted, Worlds
    <3> QED BY <1>0, <1>1, <2>3, <3>1, PolicyAssumption
  <2>7. WorldOK(v) /\ AllOnward(x, v)
    BY <1>0, <1>6, <1>8, <2>1, <2>3, <2>5, <2>6, AddSampleKeeps, AddSampleGoesOn
  <2>8. RunIsLogged(v.state[t], log1) /\ x.state[t].lastBad <= v.state[t].lastBad
        /\ v.state[t].active
    BY <2>4, <2>5, <2>7, RunStaysLogged DEF AllOnward, Onward
  <2>9. s.lastBad <= v.state[t].lastBad /\ since <= v.state[t].lastBad
    <3>1. x.state[t] \in States /\ v.state[t] \in States
      BY <2>3, <2>7 DEF WorldOK, Counted, Worlds
    <3>2. x.state[t].lastBad \in Int /\ v.state[t].lastBad \in Int
      BY <3>1, StateTimes
    <3> QED BY <1>2, <2>4, <2>8, <3>2
  <2>10. /\ RunIsLogged(w.state[t], log1) /\ w.state[t].lastBad = v.state[t].lastBad
         /\ \A u \in Targets : u # t => w.state[u] = v.state[u]
         /\ v.state[t].active /\ ~w.state[t].active => Earned(log1, since)
    BY <2>1, <2>2, <2>7, <2>8, <2>9, RecoverIsEarned
  <2> QED BY <2>4, <2>7, <2>8, <2>9, <2>10 DEF AllOnward
<1>9. \/ w = World /\ p.at <= s.lastBad
      \/ p.good /\ w = Fault(World, t, p, p.at + p.rtt)
      \/ p.good /\ ~s.active /\ w \in AddSample(World, t, sample, held)
      \/ /\ p.good /\ s.active /\ ~TooSlow(s, p) /\ s.lastBad <= p.at
         /\ w \in {Recover(v, t) : v \in AddSample(x, t, sample, held)}
  BY <1>1, <1>2 DEF Outcomes, sample, held
<1> HIDE DEF x
<1> QED BY <1>4, <1>5, <1>7, <1>8, <1>9

-----------------------------------------------------------------------------
(* Recoveries: the steps.                                                  *)

\* The counters and times of the logs are numbers.
LEMMA NotedTypes ==
  ASSUME Kept, Queued, Noted, NEW t \in Targets
  PROVE  /\ state[t] \in States /\ state[t].lastBad \in Int
         /\ sent[t] \in Int /\ broken[t] \in Int /\ settled[t] \in Seq(Instant)
         /\ Len(settled[t]) \in Nat
         /\ \A k \in 1 .. Len(settled[t]) : settled[t][k] \in Int
         /\ fifo[t] \in Seq(Probes) /\ Len(fifo[t]) \in Nat
         /\ \A i \in 1 .. Len(fifo[t]) : fifo[t][i] \in Probes /\ fifo[t][i].at \in Int
<1>1. /\ None \in Int /\ Instant \subseteq Int
      /\ (0 .. MaxTime + Timeout) \cup {None} \subseteq Int
  BY DEF None, Instant
<1>2. state[t] \in States
  BY DEF Kept, WorldOK, Counted, Worlds, World
<1>3. sent[t] \in Int /\ broken[t] \in Int /\ settled[t] \in Seq(Instant)
  BY <1>1 DEF Noted
<1>4. Len(settled[t]) \in Nat /\ \A k \in 1 .. Len(settled[t]) : settled[t][k] \in Int
  BY <1>1, <1>3, LenProperties, ElementOfSeq
<1>5. fifo[t] \in Seq(Probes)
  BY DEF Queued, Fifos
<1>6. Len(fifo[t]) \in Nat /\ \A i \in 1 .. Len(fifo[t]) : fifo[t][i] \in Probes
  BY <1>5, LenProperties, ElementOfSeq
<1>7. \A i \in 1 .. Len(fifo[t]) : fifo[t][i].at \in Int
  BY <1>1, <1>6 DEF Probes
<1> QED BY <1>2, <1>3, <1>4, <1>5, <1>6, <1>7, StateTimes

\* A target that goes on keeps its account.
LEMMA StaysTold ==
  ASSUME Kept, Queued, Noted, NEW t \in Targets, Told(t), Onward(state[t], state'[t]),
         \/ settled'[t] = settled[t]
         \/ settled'[t] = <<>> /\ state[t].healthySince = None,
         InOrder(fifo'[t], settled[t], sent'[t]), sent'[t] <= clock',
         BadIsKnown(fifo'[t], state'[t]), broken'[t] <= state'[t].lastBad
  PROVE  Justified(t)
<1>1. InOrder(fifo'[t], settled'[t], sent'[t])
  BY EmptySeq DEF InOrder
<1>2. RunIsLogged(state'[t], settled'[t])
  BY RunStaysLogged DEF Told
<1> QED BY <1>1, <1>2 DEF Justified, Told, Onward, InOrder, BadIsKnown, RunIsLogged, LoggedFrom

\* So does one whose probes and history are left alone.
LEMMA AsideStaysTold ==
  ASSUME Kept, Queued, Noted, NEW t \in Targets, Told(t), Onward(state[t], state'[t]),
         state'[t] \in States, fifo'[t] = fifo[t], settled'[t] = settled[t],
         sent'[t] = sent[t], broken'[t] = broken[t],
         clock \in Int, clock' \in Int, clock <= clock'
  PROVE  Justified(t)
<1>1. state'[t].lastBad \in Int
  BY StateTimes
<1>2. /\ \A i \in 1 .. Len(fifo[t]) : fifo[t][i].at \in Int
      /\ state[t].lastBad \in Int /\ broken[t] \in Int /\ sent[t] \in Int
      /\ state[t].lastBad <= state'[t].lastBad
  BY NotedTypes DEF Onward
<1>3. BadIsKnown(fifo'[t], state'[t])
  BY <1>1, <1>2 DEF BadIsKnown, Told
<1>4. broken'[t] <= state'[t].lastBad /\ sent'[t] <= clock'
  BY <1>1, <1>2 DEF Told
<1> QED BY <1>3, <1>4, StaysTold DEF Told

\* The greater of two.
LEMMA MaxOfTwo ==
  ASSUME NEW m \in Int, NEW n \in Int
  PROVE  Max({m, n}) \in {m, n} /\ m <= Max({m, n}) /\ n <= Max({m, n})
<1>1. \E k \in {m, n} : \A j \in {m, n} : k >= j
  OBVIOUS
<1>2. Max({m, n}) \in {m, n} /\ \A j \in {m, n} : Max({m, n}) >= j
  BY <1>1 DEF Max
<1> QED BY <1>2

\* What is stored goes on from what was there.
LEMMA StoreGoesOn ==
  ASSUME NEW w, WorldOK(w), AllOnward(World, w), Store(w)
  PROVE  \A u \in Targets : state'[u] \in States /\ Onward(state[u], state'[u])
<1>1. state' = w.state /\ w.state \in [Targets -> States]
  BY DEF Store, WorldOK, Counted, Worlds
<1> QED BY <1>1 DEF AllOnward, World

\* A probe is done: a bad one has been noted.
LEMMA FinishAccounts ==
  ASSUME Looping, Kept, Queued, Bounded, Noted, \A u \in Targets : Told(u),
         NEW t \in Targets, NEW i \in Nat, i \in 1 .. Len(fifo[t]),
         NEW good \in BOOLEAN, NEW rtt \in Rtts \cup {None},
         NEW w, WorldOK(w), AllOnward(World, w), Finish(w, t, i, good, rtt),
         ~good => fifo[t][i].at <= w.state[t].lastBad,
         broken' \in [Targets -> (0 .. MaxTime + Timeout) \cup {None}],
         \A u \in Targets : u # t => broken'[u] = broken[u],
         broken'[t] <= w.state[t].lastBad, UNCHANGED <<clock, bounds>>
  PROVE  Accounts
<1> DEFINE p == fifo[t][i]
           p1 == [p EXCEPT !.accepted = TRUE, !.done = TRUE, !.good = good,
                           !.rtt = rtt, !.early = None]
           q == [fifo[t] EXCEPT ![i] = p1]
<1>1. fifo \in Fifos /\ fifo[t] \in Seq(Probes) /\ p \in Probes /\ clock \in Int
  BY ElementOfSeq DEF Queued, Fifos, Looping, Instant
<1>2. p1.at = p.at /\ p1.good = good
  BY <1>1 DEF Probes
<1>3. [fifo[t] EXCEPT ![i].accepted = TRUE, ![i].done = TRUE, ![i].good = good,
                      ![i].rtt = rtt, ![i].early = None] = q
  BY <1>1
<1> HIDE DEF p1
<1>4. /\ fifo' = [fifo EXCEPT ![t] = q] /\ Store(w)
      /\ settled' = IF state[t].active THEN settled ELSE [settled EXCEPT ![t] = <<>>]
      /\ settling' = IF Head(q).done THEN t ELSE NoTarget
  BY <1>3 DEF Finish
<1>5. /\ Len(q) = Len(fifo[t])
      /\ \A j \in 1 .. Len(fifo[t]) : q[j] = IF j = i THEN p1 ELSE fifo[t][j]
  BY <1>1, ExceptSeq
<1> HIDE DEF q
<1>6. /\ fifo'[t] = q /\ \A u \in Targets : u # t => fifo'[u] = fifo[u]
      /\ state' = w.state /\ UNCHANGED <<clock, sent, changes>>
  BY <1>1, <1>4 DEF Fifos, Store, bounds
<1>7. \A u \in Targets : state'[u] \in States /\ Onward(state[u], state'[u])
  BY <1>4, StoreGoesOn
<1>8. /\ settled' \in [Targets -> Seq(Instant)]
      /\ \A u \in Targets : u # t => settled'[u] = settled[u]
      /\ \/ settled'[t] = settled[t]
         \/ settled'[t] = <<>> /\ ~state[t].active
  <2>1. <<>> \in Seq(Instant)
    BY EmptySeq
  <2> QED BY <1>4, <2>1 DEF Noted
<1>9. Noted'
  BY <1>4, <1>6, <1>8, TargetsAssumption DEF Noted, Instant
<1>10. ASSUME NEW u \in Targets, u # t PROVE Justified(u)
  BY <1>1, <1>6, <1>7, <1>8, <1>10, AsideStaysTold
<1>11. Justified(t)
  <2>1. settled'[t] = settled[t] \/ (settled'[t] = <<>> /\ state[t].healthySince = None)
    BY <1>8 DEF Kept, WorldOK, World, GoodState
  <2>2. Told(t) /\ state'[t].lastBad \in Int /\ state[t].lastBad <= state'[t].lastBad
    BY <1>7, StateTimes DEF Onward
  <2>3. InOrder(q, settled[t], sent[t])
    <3>1. \A j \in 1 .. Len(q) : q[j].at = fifo[t][j].at
      BY <1>2, <1>5
    <3> QED BY <1>5, <2>2, <3>1 DEF Told, InOrder
  <2>4. BadIsKnown(q, state'[t])
    <3>1. /\ \A j \in 1 .. Len(fifo[t]) : fifo[t][j].at \in Int
          /\ state[t].lastBad \in Int
      BY NotedTypes
    <3>2. ASSUME NEW j \in 1 .. Len(q), q[j].done, ~q[j].good
          PROVE  q[j].at <= state'[t].lastBad
      BY <1>2, <1>5, <1>6, <2>2, <3>1, <3>2 DEF Told, BadIsKnown
    <3> QED BY <3>2 DEF BadIsKnown
  <2> QED BY <1>6, <1>7, <2>1, <2>2, <2>3, <2>4, StaysTold DEF Told
<1> QED BY <1>9, <1>10, <1>11 DEF Accounts

\* A reply: one that is bad has been bad since the probe was sent.
LEMMA ReplyAccounts ==
  ASSUME Looping, Kept, Queued, Bounded, Noted, \A u \in Targets : Told(u),
         NEW t \in Targets, NEW i \in Nat, i \in 1 .. Len(fifo[t]),
         NEW rtt \in Rtts, Reply(t, i, rtt), UNCHANGED <<clock, bounds, broken>>
  PROVE  Accounts
<1> DEFINE p == fifo[t][i]
           late == rtt > Timeout
           bad == late \/ Exceeds(rtt, IF state[t].active THEN state[t].base ELSE p.base)
           at == IF late THEN Deadline(p) ELSE p.at + rtt
           w == IF bad THEN Fault(World, t, p, at) ELSE World
<1>1. p \in Probes /\ p.base \in Baseline /\ p.at \in Int
  BY NotedTypes DEF Probes
<1>2. Finish(w, t, i, ~bad, rtt)
  BY DEF Reply
<1>3. rtt \in Nat /\ Timeout \in Nat
  BY PolicyAssumption
<1>4. at \in 0 .. MaxTime + Timeout /\ p.at <= at
  <2>1. CASE late
    BY <1>1, <2>1, <1>3, ProbeTimes DEF Deadline
  <2>2. CASE ~late
    <3>1. rtt <= Timeout
      BY <1>3, <2>2
    <3>2. p.at + rtt \in 0 .. MaxTime + Timeout
      BY <1>1, <1>3, <3>1, ProbeTimes
    <3> QED BY <1>1, <1>3, <2>2, <3>2
  <2> QED BY <2>1, <2>2
<1>5. (~bad) \in BOOLEAN
  OBVIOUS
<1>6. WorldOK(World) /\ World.state = state /\ state[t].lastBad \in Int
  BY NotedTypes DEF Kept, World
<1>7. \A u \in Targets : Onward(state[u], state[u])
  BY NotedTypes, OnwardIsReflexive
<1> HIDE DEF p, at, bad
<1>8. /\ AllOnward(World, Fault(World, t, p, at)) /\ WorldOK(Fault(World, t, p, at))
      /\ at <= Fault(World, t, p, at).state[t].lastBad
  BY <1>1, <1>4, <1>6, FaultGoesOn, FaultKeeps
<1>9. /\ WorldOK(w) /\ AllOnward(World, w) /\ w.state[t].lastBad \in Int
      /\ bad => at <= w.state[t].lastBad
  <2>1. WorldOK(w) /\ AllOnward(World, w) /\ (bad => at <= w.state[t].lastBad)
    BY <1>6, <1>7, <1>8 DEF AllOnward
  <2>2. w.state[t] \in States
    BY <2>1 DEF WorldOK, Counted, Worlds
  <2> QED BY <2>1, <2>2, StateTimes
<1> HIDE DEF w
<1>10. bad => p.at <= w.state[t].lastBad
  BY <1>1, <1>4, <1>9
<1>11. broken'[t] <= w.state[t].lastBad
  <2>1. broken[t] <= state[t].lastBad /\ broken[t] \in Int
    BY NotedTypes DEF Told
  <2>2. state[t].lastBad <= w.state[t].lastBad
    BY <1>6, <1>9 DEF AllOnward, Onward
  <2> QED BY <1>6, <1>9, <2>1, <2>2
<1>12. /\ broken' \in [Targets -> (0 .. MaxTime + Timeout) \cup {None}]
       /\ \A u \in Targets : u # t => broken'[u] = broken[u]
  BY DEF Noted
<1> QED BY <1>2, <1>5, <1>9, <1>10, <1>11, <1>12, FinishAccounts DEF p

\* Collection failed for t: noted with what is bad.
LEMMA BrokenIsNoted ==
  ASSUME Kept, Queued, Noted, NEW t \in Targets, Told(t), NEW at \in 0 .. MaxTime + Timeout,
         NEW s \in States, state[t].lastBad <= s.lastBad, at <= s.lastBad,
         broken' = [broken EXCEPT ![t] = Max({@, at})]
  PROVE  /\ broken' \in [Targets -> (0 .. MaxTime + Timeout) \cup {None}]
         /\ \A u \in Targets : u # t => broken'[u] = broken[u]
         /\ broken'[t] <= s.lastBad
<1>1. /\ broken[t] \in Int /\ at \in Int /\ state[t].lastBad \in Int
      /\ broken[t] \in (0 .. MaxTime + Timeout) \cup {None}
  BY NotedTypes DEF Noted
<1>2. Max({broken[t], at}) \in {broken[t], at}
  BY <1>1, MaxOfTwo
<1>3. s.lastBad \in Int
  BY StateTimes
<1> QED BY <1>1, <1>2, <1>3 DEF Noted, Told

\* What is newly interrupted has its counters and times.
LEMMA InterruptionGoesOn ==
  ASSUME Kept, Queued, Bounded, NEW t \in Targets, NEW at \in 0 .. MaxTime + Timeout
  PROVE  /\ AllOnward(World, Interrupt(World, t, at)) /\ WorldOK(Interrupt(World, t, at))
         /\ at <= Interrupt(World, t, at).state[t].lastBad
         /\ Interrupt(World, t, at).state[t] \in States
<1>1. Counted(World) /\ \A u \in Targets : GoodState(World.state[u])
  BY DEF Kept, WorldOK
<1>2. ~World.state[t].active => World.state[t].healthySince = None
  BY <1>1 DEF GoodState
<1>3. WorldOK(Interrupt(World, t, at))
  BY InterruptionKeeps
<1> QED BY <1>1, <1>2, <1>3, InterruptGoesOn DEF WorldOK, Counted, Worlds

\* A write that failed.
LEMMA CompleteFailedAccounts ==
  ASSUME Looping, Kept, Queued, Bounded, Noted, \A u \in Targets : Told(u),
         NEW t \in Targets, CompleteFailed(t)
  PROVE  Accounts
<1> DEFINE w == Interrupt(World, t, clock)
           n == Len(fifo[t])
<1>1. /\ Writing(t) /\ Finish(w, t, n, FALSE, None) /\ UNCHANGED <<clock, bounds>>
      /\ broken' = [broken EXCEPT ![t] = Max({@, clock})]
  BY DEF CompleteFailed
<1>2. n \in Nat /\ n \in 1 .. Len(fifo[t])
  BY <1>1, WritingIsAProbe
<1>3. clock \in 0 .. MaxTime + Timeout /\ clock \in Int
  BY PolicyAssumption, BoundAssumption DEF Looping, Instant
<1>4. /\ AllOnward(World, w) /\ WorldOK(w) /\ clock <= w.state[t].lastBad
      /\ w.state[t] \in States
  BY <1>3, InterruptionGoesOn
<1> HIDE DEF w, n
<1>5. fifo[t][n].at <= w.state[t].lastBad
  <2>1. fifo[t][n].at <= sent[t] /\ sent[t] <= clock
    BY <1>2 DEF Told, InOrder
  <2>2. fifo[t][n].at \in Int /\ sent[t] \in Int /\ w.state[t].lastBad \in Int
    BY <1>2, <1>4, NotedTypes, StateTimes
  <2> QED BY <1>3, <1>4, <2>1, <2>2
<1>6. state[t].lastBad <= w.state[t].lastBad
  BY <1>4 DEF AllOnward, Onward, World
<1>7. /\ broken' \in [Targets -> (0 .. MaxTime + Timeout) \cup {None}]
      /\ \A u \in Targets : u # t => broken'[u] = broken[u]
      /\ broken'[t] <= w.state[t].lastBad
  BY <1>1, <1>3, <1>4, <1>6, BrokenIsNoted
<1> QED BY <1>1, <1>2, <1>4, <1>5, <1>7, FinishAccounts

\* An unanswered probe has been bad since its deadline.
LEMMA ExpireAccounts ==
  ASSUME Looping, Kept, Queued, Bounded, Noted, \A u \in Targets : Told(u),
         NEW x \in Open, Expire(x)
  PROVE  Accounts
<1> DEFINE p == ProbeAt(x)
           t == x[1]
           i == x[2]
           w == Fault(World, t, p, Deadline(p))
<1>1. /\ t \in Targets /\ i \in Nat /\ i \in 1 .. Len(fifo[t]) /\ p = fifo[t][i]
      /\ p \in Probes /\ Deadline(p) \in 0 .. MaxTime + Timeout
  BY OpenProbes DEF DeadlineOf, ProbeAt
<1>2. Finish(w, t, i, FALSE, None) /\ UNCHANGED <<clock, bounds, broken>>
  BY DEF Expire
<1>3. p.base \in Baseline /\ WorldOK(World) /\ World.state = state
  BY <1>1 DEF Probes, Kept, World
<1> HIDE DEF p, t, i
<1>4. /\ WorldOK(w) /\ AllOnward(World, w) /\ Deadline(p) <= w.state[t].lastBad
  BY <1>1, <1>3, FaultKeeps, FaultGoesOn
<1>5. w.state[t] \in States /\ state[t].lastBad <= w.state[t].lastBad
  BY <1>1, <1>3, <1>4 DEF WorldOK, Counted, Worlds, AllOnward, Onward
<1> HIDE DEF w
<1>6. p.at <= w.state[t].lastBad
  <2>1. p.at \in Int /\ w.state[t].lastBad \in Int
    BY <1>1, <1>5, NotedTypes, StateTimes
  <2> QED BY <1>4, <2>1, PolicyAssumption DEF Deadline
<1>7. broken'[t] <= w.state[t].lastBad
  <2>1. broken[t] <= state[t].lastBad /\ broken[t] \in Int /\ state[t].lastBad \in Int
    BY <1>1, NotedTypes DEF Told
  <2> QED BY <1>2, <1>5, <2>1, StateTimes
<1>8. /\ broken' \in [Targets -> (0 .. MaxTime + Timeout) \cup {None}]
      /\ \A u \in Targets : u # t => broken'[u] = broken[u]
  BY <1>2 DEF Noted
<1> QED BY <1>1, <1>2, <1>4, <1>6, <1>7, <1>8, FinishAccounts

\* A new probe was sent after all before it.
LEMMA BeginProbeAccounts ==
  ASSUME Looping, Kept, Queued, Bounded, Noted, \A u \in Targets : Told(u),
         NEW t \in Targets, NEW at \in Instant, BeginProbe(t, at)
  PROVE  Accounts
<1> DEFINE pruned == Prune(World, t, at)
           n == Len(fifo[t])
<1>0. PICK w \in Rooms(pruned, tracked) :
        /\ Store(w)
        /\ \E p : fifo' = [fifo EXCEPT ![t] = Append(@, p)] /\ p.at = at /\ ~p.done
  <2>1. PICK w \in Rooms(pruned, tracked) :
          /\ Store(w)
          /\ fifo' = [fifo EXCEPT ![t] = Append(@,
               [at |-> at, accepted |-> FALSE, done |-> FALSE, good |-> FALSE,
                rtt |-> None, early |-> None,
                base |-> IF w.state[t].active THEN w.state[t].base
                         ELSE Average(w.state[t])])]
    BY DEF BeginProbe
  <2> DEFINE p == [at |-> at, accepted |-> FALSE, done |-> FALSE, good |-> FALSE,
                   rtt |-> None, early |-> None,
                   base |-> IF w.state[t].active THEN w.state[t].base
                            ELSE Average(w.state[t])]
  <2>2. fifo' = [fifo EXCEPT ![t] = Append(@, p)] /\ p.at = at /\ ~p.done
    BY <2>1
  <2> HIDE DEF p
  <2> QED BY <2>1, <2>2
<1>1. PICK p : /\ Store(w) /\ fifo' = [fifo EXCEPT ![t] = Append(@, p)]
               /\ p.at = at /\ ~p.done
  BY <1>0
<1>2. /\ UNCHANGED <<clock, changes, settled, broken>> /\ settling' = NoTarget
      /\ sent' = [sent EXCEPT ![t] = at] /\ at > sent[t] /\ at <= clock /\ clock \in Int
  BY BoundAssumption DEF BeginProbe, MayBegin, LockFree, history, Looping, Instant
<1>3. WorldOK(World) /\ World \in Worlds /\ tracked \in Nat /\ samples \in Nat
      /\ World.samples = samples
  BY CountersAreNat DEF Kept, World, WorldOK, Counted
<1>4. WorldOK(pruned) /\ AllOnward(World, pruned) /\ pruned.samples <= samples
  BY <1>3, PruneKeeps, PruneGoesOn
<1>5. tracked + pruned.samples <= MaxTracked
  BY <1>3, <1>4, PolicyAssumption DEF Bounded, WorldOK, Counted, Worlds
<1> HIDE DEF pruned
<1>6. WorldOK(w) /\ AllOnward(World, w)
  <2>1. WorldOK(w) /\ AllOnward(pruned, w)
    BY <1>0, <1>3, <1>4, <1>5, RoomsKeep, RoomsGoOn DEF Looping
  <2> QED BY <1>3, <1>4, <2>1, AllOnwardIsTransitive DEF WorldOK, Counted
<1>7. \A u \in Targets : state'[u] \in States /\ Onward(state[u], state'[u])
  BY <1>1, <1>6, StoreGoesOn
<1>8. Noted'
  BY <1>2, TargetsAssumption DEF Noted, Instant
<1>9. ASSUME NEW u \in Targets, u # t PROVE Justified(u)
  <2>1. fifo'[u] = fifo[u] /\ sent'[u] = sent[u]
    BY <1>1, <1>2, <1>9 DEF Queued, Fifos, Noted
  <2> QED BY <1>2, <1>7, <2>1, AsideStaysTold
<1>10. Justified(t)
  <2>1. fifo'[t] = Append(fifo[t], p) /\ sent'[t] = at
    BY <1>1, <1>2 DEF Queued, Fifos, Noted
  <2>2. /\ n \in Nat /\ Len(fifo'[t]) = n + 1 /\ fifo'[t][n + 1] = p
        /\ \A i \in 1 .. n : fifo'[t][i] = fifo[t][i]
    <3>1. fifo[t] \in Seq(Probes) /\ n \in Nat
      BY NotedTypes
    <3> DEFINE S == Probes \cup {p}
    <3>2. fifo[t] \in Seq(S) /\ p \in S
      BY <3>1, SeqDef
    <3> HIDE DEF S
    <3> QED BY <2>1, <3>1, <3>2, AppendProperties
  <2>3. /\ \A i \in 1 .. n : fifo[t][i].at \in Int /\ fifo[t][i].at <= sent[t]
        /\ \A k \in 1 .. Len(settled[t]) : settled[t][k] \in Int /\ settled[t][k] <= sent[t]
        /\ sent[t] \in Int /\ at \in Int /\ Told(t)
    BY NotedTypes DEF Told, InOrder, Instant
  <2>4. InOrder(fifo'[t], settled[t], sent'[t])
    <3>1. \A i \in 1 .. n + 1 : i \in 1 .. n \/ i = n + 1
      BY <2>2
    <3>2. \A i \in 1 .. n + 1 : fifo'[t][i].at <= at
      BY <1>1, <1>2, <2>2, <2>3, <3>1
    <3>3. \A i \in 1 .. n + 1, j \in 1 .. n + 1 : i < j => fifo'[t][i].at < fifo'[t][j].at
      <4>1. SUFFICES ASSUME NEW i \in 1 .. n + 1, NEW j \in 1 .. n + 1, i < j
                     PROVE  fifo'[t][i].at < fifo'[t][j].at
        OBVIOUS
      <4>2. i \in 1 .. n
        BY <2>2, <4>1
      <4>3. CASE j \in 1 .. n
        BY <2>2, <2>3, <4>1, <4>2, <4>3 DEF Told, InOrder
      <4>4. CASE j = n + 1
        BY <1>1, <1>2, <2>2, <2>3, <4>2, <4>4
      <4> QED BY <3>1, <4>3, <4>4
    <3>4. \A k \in 1 .. Len(settled[t]), i \in 1 .. n + 1 : settled[t][k] < fifo'[t][i].at
      <4>1. SUFFICES ASSUME NEW k \in 1 .. Len(settled[t]), NEW i \in 1 .. n + 1
                     PROVE  settled[t][k] < fifo'[t][i].at
        OBVIOUS
      <4>2. CASE i \in 1 .. n
        BY <2>2, <2>3, <4>2 DEF Told, InOrder
      <4>3. CASE i = n + 1
        BY <1>1, <1>2, <2>2, <2>3, <4>3
      <4> QED BY <3>1, <4>2, <4>3
    <3>5. \A k \in 1 .. Len(settled[t]) : settled[t][k] <= at
      BY <1>2, <2>3
    <3> QED BY <2>1, <2>2, <3>2, <3>3, <3>4, <3>5 DEF InOrder
  <2>5. state[t].lastBad <= state'[t].lastBad /\ state[t].lastBad \in Int
        /\ state'[t].lastBad \in Int /\ broken[t] \in Int
    BY <1>7, NotedTypes, StateTimes DEF Onward
  <2>6. BadIsKnown(fifo'[t], state'[t])
    <3>1. SUFFICES ASSUME NEW i \in 1 .. n + 1, fifo'[t][i].done, ~fifo'[t][i].good
                   PROVE  fifo'[t][i].at <= state'[t].lastBad
      BY <2>2 DEF BadIsKnown
    <3>2. i \in 1 .. n
      BY <1>1, <2>2, <3>1
    <3>3. fifo'[t][i] = fifo[t][i]
      BY <2>2, <3>2
    <3>4. fifo[t][i].at <= state[t].lastBad
      BY <2>3, <3>1, <3>2, <3>3 DEF Told, BadIsKnown
    <3> QED BY <2>3, <2>5, <3>2, <3>3, <3>4
  <2>7. broken'[t] <= state'[t].lastBad
    BY <1>2, <2>3, <2>5 DEF Told
  <2>8. settled'[t] = settled[t] /\ sent'[t] <= clock'
    BY <1>2, <2>1
  <2> QED BY <1>7, <2>3, <2>4, <2>6, <2>7, <2>8, StaysTold
<1> QED BY <1>8, <1>9, <1>10 DEF Accounts

\* A hook that notes that collection failed, or does not look at the probes.
LEMMA QuietAccounts ==
  ASSUME Looping, Kept, Queued, Bounded, Noted, \A u \in Targets : Told(u),
         NEW t \in Targets, NEW w, WorldOK(w), AllOnward(World, w), Store(w),
         UNCHANGED <<clock, fifo, changes, settling, settled>>,
         NEW at \in Instant \cup {None}, sent' = [sent EXCEPT ![t] = at],
         sent[t] <= at, at <= clock,
         broken' \in [Targets -> (0 .. MaxTime + Timeout) \cup {None}],
         \A u \in Targets : u # t => broken'[u] = broken[u],
         broken'[t] <= w.state[t].lastBad
  PROVE  Accounts
<1>1. clock \in Int /\ at \in Int
  BY DEF Looping, Instant, None
<1>2. \A u \in Targets : state'[u] \in States /\ Onward(state[u], state'[u])
  BY StoreGoesOn
<1>3. Noted'
  BY DEF Noted, Instant
<1>4. ASSUME NEW u \in Targets, u # t PROVE Justified(u)
  <2>1. sent'[u] = sent[u] /\ fifo'[u] = fifo[u] /\ settled'[u] = settled[u]
    BY <1>4 DEF Noted
  <2> QED BY <1>1, <1>2, <1>4, <2>1, AsideStaysTold
<1>5. Justified(t)
  <2>1. sent'[t] = at /\ state' = w.state
    BY DEF Noted, Store
  <2>2. /\ sent[t] \in Int /\ Told(t)
        /\ \A i \in 1 .. Len(fifo[t]) : fifo[t][i].at \in Int
        /\ \A k \in 1 .. Len(settled[t]) : settled[t][k] \in Int
    BY NotedTypes
  <2>3. InOrder(fifo[t], settled[t], at)
    BY <1>1, <2>2 DEF Told, InOrder
  <2>4. /\ state[t].lastBad <= state'[t].lastBad /\ state[t].lastBad \in Int
        /\ state'[t].lastBad \in Int
    BY <1>2, NotedTypes, StateTimes DEF Onward
  <2>5. BadIsKnown(fifo[t], state'[t])
    BY <2>2, <2>4 DEF Told, BadIsKnown
  <2>6. fifo'[t] = fifo[t] /\ settled'[t] = settled[t] /\ sent'[t] <= clock'
    BY <2>1
  <2> QED BY <1>2, <2>1, <2>2, <2>3, <2>5, <2>6, StaysTold
<1> QED BY <1>3, <1>4, <1>5 DEF Accounts

\* A probe that is not observed, noted for its whole lifetime.
LEMMA BeginUntrackedAccounts ==
  ASSUME Looping, Kept, Queued, Bounded, Noted, \A u \in Targets : Told(u),
         NEW t \in Targets, NEW at \in Instant, BeginUntracked(t, at)
  PROVE  Accounts
<1> DEFINE pruned == Prune(World, t, at)
           l == Limit(pruned, t)
           w == Interrupt(l, t, at + Timeout)
<1>1. /\ Store(w) /\ UNCHANGED <<clock, fifo, changes, settling, settled>>
      /\ broken' = [broken EXCEPT ![t] = Max({@, at + Timeout})]
      /\ sent' = [sent EXCEPT ![t] = at]
  BY DEF BeginUntracked, Limit
<1>2. at > sent[t] /\ at <= clock /\ at \in Int /\ sent[t] \in Int
  <2>1. at > sent[t] /\ at \in clock - MaxDelay .. clock
    BY DEF BeginUntracked, MayBegin
  <2>2. at \in Int /\ sent[t] \in Int
    BY NotedTypes DEF Instant
  <2> QED BY <2>1, <2>2
<1>3. WorldOK(World) /\ World \in Worlds
  BY DEF Kept, WorldOK, Counted
<1>4. WorldOK(pruned) /\ pruned \in Worlds /\ AllOnward(World, pruned)
  BY <1>3, PruneKeeps, PruneGoesOn DEF WorldOK, Counted
<1> HIDE DEF pruned
<1>5. /\ WorldOK(l) /\ l \in Worlds /\ AllOnward(pruned, l)
  BY <1>4, LimitKeeps, LimitGoesOn DEF WorldOK, Counted
<1>6. at + Timeout \in 0 .. MaxTime + Timeout
  BY PolicyAssumption, BoundAssumption DEF Instant
<1> HIDE DEF l
<1>7. /\ WorldOK(w) /\ w \in Worlds /\ AllOnward(l, w)
      /\ at + Timeout <= w.state[t].lastBad
  <2>1. Counted(l) /\ \A u \in Targets : GoodState(l.state[u])
    BY <1>5 DEF WorldOK
  <2>2. ~l.state[t].active => l.state[t].healthySince = None
    BY <2>1 DEF GoodState
  <2>3. WorldOK(w)
    BY <1>6, <2>1, InterruptKeeps
  <2> QED BY <1>6, <2>1, <2>2, <2>3, InterruptGoesOn DEF WorldOK, Counted
<1> HIDE DEF w
<1>8. AllOnward(World, w) /\ w.state[t] \in States
  <2>1. AllOnward(World, l)
    BY <1>3, <1>4, <1>5, AllOnwardIsTransitive
  <2> QED BY <1>3, <1>5, <1>7, <2>1, AllOnwardIsTransitive DEF Worlds
<1>9. state[t].lastBad <= w.state[t].lastBad
  BY <1>8 DEF AllOnward, Onward, World
<1>10. /\ broken' \in [Targets -> (0 .. MaxTime + Timeout) \cup {None}]
       /\ \A u \in Targets : u # t => broken'[u] = broken[u]
       /\ broken'[t] <= w.state[t].lastBad
  BY <1>1, <1>6, <1>7, <1>8, <1>9, BrokenIsNoted
<1>11. at \in Instant \cup {None} /\ sent[t] <= at
  BY <1>2
<1> QED BY <1>1, <1>2, <1>7, <1>8, <1>10, <1>11, QuietAccounts

\* A scheduler gap.
LEMMA ObserveGapAccounts ==
  ASSUME Looping, Kept, Queued, Bounded, Noted, \A u \in Targets : Told(u),
         NEW t \in Targets, ObserveGap(t)
  PROVE  Accounts
<1> DEFINE w == Interrupt(World, t, clock)
<1>1. /\ Store(w) /\ UNCHANGED <<clock, fifo, changes, settling, settled, sent>>
      /\ broken' = [broken EXCEPT ![t] = Max({@, clock})]
  BY DEF ObserveGap
<1>2. clock \in 0 .. MaxTime + Timeout
  BY PolicyAssumption, BoundAssumption DEF Looping, Instant
<1>3. /\ AllOnward(World, w) /\ WorldOK(w) /\ clock <= w.state[t].lastBad
      /\ w.state[t] \in States
  BY <1>2, InterruptionGoesOn
<1> HIDE DEF w
<1>4. state[t].lastBad <= w.state[t].lastBad
  BY <1>3 DEF AllOnward, Onward, World
<1>5. /\ broken' \in [Targets -> (0 .. MaxTime + Timeout) \cup {None}]
      /\ \A u \in Targets : u # t => broken'[u] = broken[u]
      /\ broken'[t] <= w.state[t].lastBad
  BY <1>1, <1>2, <1>3, <1>4, BrokenIsNoted
<1>6. /\ sent' = [sent EXCEPT ![t] = sent[t]] /\ sent[t] \in Instant \cup {None}
      /\ sent[t] <= sent[t] /\ sent[t] <= clock
  BY <1>1, NotedTypes DEF Noted, Told
<1> QED BY <1>1, <1>3, <1>5, <1>6, QuietAccounts

\* Snapshot prunes.
LEMMA SnapshotAccounts ==
  ASSUME Looping, Kept, Queued, Bounded, Noted, \A u \in Targets : Told(u),
         NEW t \in Targets, Snapshot(t)
  PROVE  Accounts
<1> DEFINE w == Prune(World, t, clock)
<1>1. Store(w) /\ UNCHANGED <<clock, fifo, bounds, settling, settled, broken>>
  BY DEF Snapshot, history
<1>2. WorldOK(World) /\ World \in Worlds
  BY DEF Kept, WorldOK, Counted
<1>3. WorldOK(w) /\ AllOnward(World, w)
  BY <1>2, PruneKeeps, PruneGoesOn
<1> HIDE DEF w
<1>4. broken'[t] <= w.state[t].lastBad
  <2>1. w.state[t] \in States /\ state[t].lastBad <= w.state[t].lastBad
    BY <1>3 DEF WorldOK, Counted, Worlds, AllOnward, Onward, World
  <2>2. broken[t] <= state[t].lastBad /\ broken[t] \in Int /\ state[t].lastBad \in Int
    BY NotedTypes DEF Told
  <2> QED BY <1>1, <2>1, <2>2, StateTimes
<1>5. /\ broken' \in [Targets -> (0 .. MaxTime + Timeout) \cup {None}]
      /\ \A u \in Targets : u # t => broken'[u] = broken[u]
  BY <1>1 DEF Noted
<1>6. /\ sent' = [sent EXCEPT ![t] = sent[t]] /\ sent[t] \in Instant \cup {None}
      /\ sent[t] <= sent[t] /\ sent[t] <= clock /\ changes' = changes
  BY <1>1, NotedTypes DEF Noted, Told, bounds
<1> QED BY <1>1, <1>3, <1>4, <1>5, <1>6, QuietAccounts

\* One field of the newest probe is set, neither its stamp nor its result.
LEMMA NewestAccounts ==
  ASSUME Looping, Kept, Queued, Bounded, Noted, \A u \in Targets : Told(u),
         NEW t \in Targets, Writing(t), NEW p,
         fifo' = [fifo EXCEPT ![t] = [@ EXCEPT ![Len(fifo[t])] = p]],
         p.at = fifo[t][Len(fifo[t])].at, p.good = fifo[t][Len(fifo[t])].good,
         p.done = fifo[t][Len(fifo[t])].done,
         settling = NoTarget, UNCHANGED <<clock, state, bounds, history, settling>>
  PROVE  Accounts
<1> DEFINE n == Len(fifo[t])
           q == [fifo[t] EXCEPT ![n] = p]
<1>1. n \in Nat /\ n \in 1 .. n /\ fifo[t] \in Seq(Probes)
  BY WritingIsAProbe, NotedTypes
<1>2. fifo'[t] = q /\ \A u \in Targets : u # t => fifo'[u] = fifo[u]
  BY DEF Queued, Fifos
<1>3. Len(q) = n /\ \A i \in 1 .. n : q[i] = IF i = n THEN p ELSE fifo[t][i]
  <2> DEFINE S == Probes \cup {p}
  <2>1. fifo[t] \in Seq(S) /\ p \in S
    BY <1>1, SeqDef
  <2> HIDE DEF S
  <2> QED BY <1>1, <2>1, ExceptSeq
<1> HIDE DEF q
<1>4. \A i \in 1 .. n : /\ q[i].at = fifo[t][i].at /\ q[i].good = fifo[t][i].good
                        /\ q[i].done = fifo[t][i].done
  BY <1>3
<1>5. UNCHANGED <<clock, state, sent, changes, settled, broken>> /\ clock \in Int
  BY DEF bounds, history, Looping, Instant
<1>6. Noted'
  BY <1>5, TargetsAssumption DEF Noted, Instant
<1>7. \A u \in Targets : state'[u] \in States /\ Onward(state[u], state'[u])
  BY <1>5, NotedTypes, OnwardIsReflexive
<1>8. ASSUME NEW u \in Targets, u # t PROVE Justified(u)
  BY <1>2, <1>5, <1>7, <1>8, AsideStaysTold
<1>9. Justified(t)
  <2>1. Told(t)
    OBVIOUS
  <2>2. InOrder(q, settled[t], sent[t]) /\ BadIsKnown(q, state[t])
    BY <1>3, <1>4, <2>1 DEF Told, InOrder, BadIsKnown
  <2> QED BY <1>2, <1>5, <1>7, <2>1, <2>2, StaysTold DEF Told
<1> QED BY <1>6, <1>8, <1>9 DEF Accounts

\* CompleteProbe of a write that succeeded, and ObserveReply before it.
LEMMA WritingAccounts ==
  ASSUME Looping, Kept, Queued, Bounded, Noted, \A u \in Targets : Told(u),
         NEW t \in Targets,
         CompleteProbe(t) \/ \E rtt \in Rtts : ObserveEarly(t, rtt)
  PROVE  Accounts
<1> DEFINE n == Len(fifo[t])
<1>1. /\ Writing(t) /\ settling = NoTarget
      /\ UNCHANGED <<clock, state, bounds, history, settling>>
  BY DEF CompleteProbe, ObserveEarly, LockFree
<1>2. fifo[t][n] \in Probes
  BY <1>1, WritingIsAProbe
<1>3. CASE CompleteProbe(t)
  <2> DEFINE p == [fifo[t][n] EXCEPT !.accepted = TRUE]
  <2>1. fifo' = [fifo EXCEPT ![t] = [@ EXCEPT ![n] = p]]
    BY <1>3 DEF CompleteProbe, Queued, Fifos
  <2>2. p.at = fifo[t][n].at /\ p.good = fifo[t][n].good /\ p.done = fifo[t][n].done
    BY <1>2 DEF Probes
  <2> HIDE DEF p
  <2> QED BY <1>1, <2>1, <2>2, NewestAccounts
<1>4. ASSUME NEW rtt \in Rtts, ObserveEarly(t, rtt) PROVE Accounts
  <2> DEFINE p == [fifo[t][n] EXCEPT !.early = rtt]
  <2>1. fifo' = [fifo EXCEPT ![t] = [@ EXCEPT ![n] = p]]
    BY <1>4 DEF ObserveEarly, Queued, Fifos
  <2>2. p.at = fifo[t][n].at /\ p.good = fifo[t][n].good /\ p.done = fifo[t][n].done
    BY <1>2 DEF Probes
  <2> HIDE DEF p
  <2> QED BY <1>1, <2>1, <2>2, NewestAccounts
<1> QED BY <1>3, <1>4

\* UpdateEndpoint begins a new account.
LEMMA UpdateEndpointAccounts ==
  ASSUME Looping, Kept, Queued, Bounded, Noted, \A u \in Targets : Told(u),
         NEW t \in Targets, UpdateEndpoint(t)
  PROVE  Accounts
<1> DEFINE d == ClearHistory(World, t)
<1>1. /\ Store([d EXCEPT !.state[t] = Fresh]) /\ fifo' = [fifo EXCEPT ![t] = <<>>]
      /\ settled' = [settled EXCEPT ![t] = <<>>] /\ broken' = [broken EXCEPT ![t] = None]
      /\ sent' = [sent EXCEPT ![t] = None] /\ changes' = changes + 1 /\ clock' = clock
      /\ settling' = NoTarget
  BY DEF UpdateEndpoint, Replace, LockFree
<1>2. \A u \in Targets : u # t => state'[u] = state[u]
  <2>1. d.state = [state EXCEPT ![t].history =
                     SubSeq(@, Len(state[t].history) + 1, Len(@))]
    BY DEF ClearHistory, DropFirst, World
  <2>2. state' = [d.state EXCEPT ![t] = Fresh]
    <3>1. d = [d EXCEPT !.state = d.state]
      BY DEF ClearHistory, DropFirst, World
    <3> QED BY <1>1, <3>1 DEF Store, ClearHistory, DropFirst, World
  <2>3. state \in [Targets -> States]
    BY DEF Kept, WorldOK, Counted, Worlds, World
  <2> QED BY <2>1, <2>2, <2>3
<1>3. state'[t] = Fresh
  <2>1. state \in [Targets -> States]
    BY DEF Kept, WorldOK, Counted, Worlds, World
  <2> QED BY <1>1, <2>1 DEF Store, ClearHistory, DropFirst, World
<1>4. clock \in Int /\ clock \in Nat /\ changes' # changes
  <2>1. changes \in Nat /\ changes' = changes + 1
    BY <1>1 DEF Noted
  <2> QED BY <2>1 DEF Looping, Instant
<1>5. Noted'
  <2>1. <<>> \in Seq(Instant) /\ None \in Instant \cup {None}
    BY EmptySeq
  <2> QED BY <1>1, <1>4, <2>1, TargetsAssumption DEF Noted, Instant
<1>6. ASSUME NEW u \in Targets, u # t PROVE Justified(u)
  <2>1. /\ fifo'[u] = fifo[u] /\ settled'[u] = settled[u] /\ sent'[u] = sent[u]
        /\ broken'[u] = broken[u]
    BY <1>1, <1>6 DEF Queued, Fifos, Noted
  <2>2. state'[u] \in States /\ Onward(state[u], state'[u])
    BY <1>2, <1>6, NotedTypes, OnwardIsReflexive
  <2> QED BY <1>1, <1>4, <2>1, <2>2, AsideStaysTold
<1>7. Justified(t)
  <2>1. /\ fifo'[t] = <<>> /\ settled'[t] = <<>> /\ sent'[t] = None /\ broken'[t] = None
    BY <1>1 DEF Queued, Fifos, Noted
  <2>2. Len(fifo'[t]) = 0 /\ Len(settled'[t]) = 0
    BY <2>1, EmptySeq
  <2>3. InOrder(fifo'[t], settled'[t], sent'[t]) /\ BadIsKnown(fifo'[t], state'[t])
    BY <2>2 DEF InOrder, BadIsKnown
  <2>4. /\ sent'[t] <= clock' /\ broken'[t] <= state'[t].lastBad
        /\ RunIsLogged(state'[t], settled'[t])
    BY <1>1, <1>3, <1>4, <2>1 DEF Fresh, None, RunIsLogged
  <2> QED BY <1>4, <2>3, <2>4
       DEF Justified, Told, InOrder, BadIsKnown, RunIsLogged, LoggedFrom
<1> QED BY <1>5, <1>6, <1>7 DEF Accounts

\* The oldest probe is settled: with it an incident may end.
LEMMA SettleAccounts ==
  ASSUME Looping, Kept, Queued, Bounded, Noted, \A u \in Targets : Told(u),
         NEW t \in Targets, Settle(t)
  PROVE  Accounts
<1> DEFINE p == Head(fifo[t])
           rest == Tail(fifo[t])
           n == Len(fifo[t])
           log == settled[t]
           log1 == IF (p.good /\ ~Exceeds(p.rtt, state[t].base)) /\ state[t].active
                   THEN Append(log, p.at) ELSE <<>>
<1>1. PICK w \in Outcomes(t, p) : Store(w)
  BY DEF Settle
<1>2. /\ fifo' = [fifo EXCEPT ![t] = rest] /\ settling = t
      /\ settling' = IF rest # <<>> /\ Head(rest).done THEN t ELSE NoTarget
      /\ settled' = [settled EXCEPT ![t] = log1]
      /\ UNCHANGED <<clock, bounds, broken>>
  <2>1. settled' = [settled EXCEPT ![t] =
          IF (p.good /\ ~Exceeds(p.rtt, state[t].base)) /\ state[t].active
          THEN Append(@, p.at) ELSE <<>>]
    BY DEF Settle
  <2> QED BY <2>1 DEF Settle, Noted
<1>3. fifo[t] \in Seq(Probes) /\ fifo[t] # <<>>
  BY <1>2 DEF Queued, Fifos
<1>4. /\ p \in Probes /\ rest \in Seq(Probes) /\ Len(rest) = n - 1
      /\ n \in Nat \ {0} /\ p = fifo[t][1] /\ \A i \in 1 .. n - 1 : rest[i] = fifo[t][i + 1]
  BY <1>3, HeadTailProperties, LenProperties, EmptySeq
<1>5. /\ UNCHANGED <<clock, sent, changes, broken>> /\ clock \in Int
      /\ fifo'[t] = rest /\ settled'[t] = log1
      /\ \A u \in Targets : u # t => fifo'[u] = fifo[u] /\ settled'[u] = settled[u]
  BY <1>2 DEF bounds, Looping, Instant, Queued, Fifos, Noted
<1>6. /\ Told(t) /\ p.at \in Int /\ p.at \in Instant
      /\ \A i \in 1 .. n : fifo[t][i].at \in Int
      /\ log \in Seq(Instant) /\ Len(log) \in Nat
      /\ \A k \in 1 .. Len(log) : log[k] \in Int
      /\ broken[t] \in Int /\ state[t].lastBad \in Int /\ sent[t] \in Int
  BY <1>4, NotedTypes DEF Probes, Instant
<1> HIDE DEF p, rest
<1>7. tracked - 1 \in Nat /\ tracked - 1 + samples <= MaxTracked
  <2>1. Replaces(fifo, fifo', t, rest) /\ fifo \in Fifos
    BY <1>2 DEF Replaces, Queued
  <2>2. /\ Total(fifo) \in Nat /\ Total(fifo') \in Nat
        /\ Total(fifo') = Total(fifo) + (Len(rest) - n)
    BY <1>4, <2>1, FifoChanges
  <2>3. tracked \in Nat /\ samples \in Nat /\ tracked = Total(fifo)
    BY CountersAreNat DEF Queued
  <2> QED BY <1>4, <2>2, <2>3, PolicyAssumption DEF Bounded
<1>8. /\ \A k \in 1 .. Len(log) : log[k] < p.at
      /\ p.done /\ ~p.good => p.at <= state[t].lastBad
      /\ broken[t] <= state[t].lastBad
  BY <1>4, <1>6 DEF Told, InOrder, BadIsKnown
<1>9. ~p.good => p.at <= state[t].lastBad
  <2>1. p.done
    BY <1>2 DEF Noted, p
  <2> QED BY <1>8, <2>1
<1> HIDE DEF log1
<1>10. /\ \A u \in Targets : u # t => Onward(state[u], w.state[u])
       /\ state[t].lastBad <= w.state[t].lastBad
       /\ RunIsLogged(w.state[t], log1)
       /\ state[t].active /\ ~w.state[t].active => Earned(log1, broken[t])
  <2>1. RunIsLogged(state[t], log) /\ clock \in Instant
    BY <1>6 DEF Told, Looping
  <2> QED BY <1>1, <1>4, <1>6, <1>7, <1>8, <1>9, <2>1, OutcomesAreLogged DEF log1
<1>11. WorldOK(w) /\ state' = w.state /\ \A u \in Targets : w.state[u] \in States
  <2>1. WorldOK(w)
    BY <1>1, <1>4, <1>7, OutcomesKeep DEF Looping
  <2> QED BY <1>1, <2>1 DEF Store, WorldOK, Counted, Worlds
<1>12. Noted'
  <2>1. log1 \in Seq(Instant)
    BY <1>6, AppendProperties, EmptySeq DEF log1
  <2>2. settled' \in [Targets -> Seq(Instant)]
    BY <1>2, <2>1 DEF Noted
  <2> QED BY <1>2, <1>5, <2>2, TargetsAssumption DEF Noted, Instant
<1>13. ASSUME NEW u \in Targets, u # t PROVE Justified(u)
  BY <1>5, <1>10, <1>11, <1>13, AsideStaysTold
<1>14. Justified(t)
  <2>1. InOrder(rest, log1, sent[t])
    <3>1. /\ \A i \in 1 .. n - 1 : /\ rest[i].at <= sent[t] /\ rest[i].at \in Int
                                   /\ p.at < rest[i].at
          /\ \A i \in 1 .. n - 1, j \in 1 .. n - 1 : i < j => rest[i].at < rest[j].at
      <4>1. \A i \in 1 .. n - 1 : i + 1 \in 1 .. n /\ 1 \in 1 .. n /\ 1 < i + 1
        BY <1>4
      <4>2. \A i \in 1 .. n - 1, j \in 1 .. n - 1 : i < j => i + 1 < j + 1
        BY <1>4
      <4> QED BY <1>4, <1>6, <4>1, <4>2 DEF Told, InOrder
    <3>2. ASSUME NEW k \in 1 .. Len(log1)
          PROVE  log1[k] <= sent[t] /\ log1[k] \in Int /\ log1[k] <= p.at
      <4>1. log1 = Append(log, p.at) \/ Len(log1) = 0
        BY EmptySeq DEF log1
      <4>2. CASE log1 = Append(log, p.at)
        <5>1. /\ Len(log1) = Len(log) + 1 /\ log1[Len(log) + 1] = p.at
              /\ \A i \in 1 .. Len(log) : log1[i] = log[i]
          BY <1>6, <4>2, AppendProperties
        <5>2. k \in 1 .. Len(log) \/ k = Len(log) + 1
          BY <1>6, <5>1
        <5>3. p.at <= sent[t]
          BY <1>4, <1>6 DEF Told, InOrder
        <5> QED BY <1>6, <1>8, <5>1, <5>2, <5>3 DEF Told, InOrder
      <4>3. CASE Len(log1) = 0
        BY <4>3
      <4> QED BY <4>1, <4>2, <4>3
    <3> QED BY <1>4, <1>6, <3>1, <3>2 DEF InOrder
  <2>2. BadIsKnown(rest, w.state[t])
    <3>1. w.state[t].lastBad \in Int
      BY <1>11, StateTimes
    <3>2. ASSUME NEW i \in 1 .. n - 1, rest[i].done, ~rest[i].good
          PROVE  rest[i].at <= w.state[t].lastBad
      <4>1. i + 1 \in 1 .. n /\ rest[i] = fifo[t][i + 1]
        BY <1>4
      <4>2. rest[i].at <= state[t].lastBad /\ rest[i].at \in Int
        BY <1>6, <3>2, <4>1 DEF Told, BadIsKnown
      <4> QED BY <1>6, <1>10, <3>1, <4>2
    <3> QED BY <1>4, <3>2 DEF BadIsKnown
  <2>3. broken[t] <= w.state[t].lastBad
    <3>1. w.state[t].lastBad \in Int
      BY <1>11, StateTimes
    <3> QED BY <1>6, <1>8, <1>10, <3>1
  <2>4. sent[t] <= clock
    BY <1>6 DEF Told
  <2>5. /\ state'[t] = w.state[t] /\ fifo'[t] = rest /\ settled'[t] = log1
        /\ sent'[t] = sent[t] /\ broken'[t] = broken[t] /\ clock' = clock
    BY <1>5, <1>11
  <2> QED BY <1>10, <2>1, <2>2, <2>3, <2>4, <2>5
       DEF Justified, Told, InOrder, BadIsKnown, RunIsLogged, LoggedFrom
<1> QED BY <1>12, <1>13, <1>14 DEF Accounts

\* A step that leaves the controller alone.
LEMMA UnchangedAccounts ==
  ASSUME Looping, Looping', Kept, Queued, Noted, \A u \in Targets : Told(u),
         clock <= clock', UNCHANGED <<hookVars, bounds, history>>
  PROVE  Accounts
<1>1. UNCHANGED <<state, fifo, settling, sent, changes, settled, broken>>
  BY DEF hookVars, bounds, history
<1>2. Noted'
  BY <1>1 DEF Noted, Instant
<1>3. clock \in Int /\ clock' \in Int
  BY DEF Looping, Instant
<1>4. ASSUME NEW u \in Targets PROVE Justified(u)
  <2>1. state'[u] \in States /\ Onward(state[u], state'[u])
    BY <1>1, NotedTypes, OnwardIsReflexive
  <2>2. /\ fifo'[u] = fifo[u] /\ settled'[u] = settled[u] /\ sent'[u] = sent[u]
        /\ broken'[u] = broken[u]
    BY <1>1
  <2> QED BY <1>3, <2>1, <2>2, AsideStaysTold
<1> QED BY <1>2, <1>4 DEF Accounts

\* Every step accounts for what it does.
LEMMA StepAccounts ==
  ASSUME RInv, [Next]_vars, IInv'
  PROVE  Accounts
<1>1. /\ Looping /\ Kept /\ Queued /\ Bounded /\ Noted /\ \A u \in Targets : Told(u)
      /\ Looping'
  BY DEF RInv, IInv
<1>2. ASSUME NEW t \in Targets, Hook(t) PROVE Accounts
  <2>1. CASE \E at \in Instant : BeginProbe(t, at)
    BY <1>1, <2>1, BeginProbeAccounts
  <2>2. CASE \E at \in Instant : BeginUntracked(t, at)
    BY <1>1, <2>2, BeginUntrackedAccounts
  <2>3. CASE CompleteProbe(t) \/ \E rtt \in Rtts : ObserveEarly(t, rtt)
    BY <1>1, <2>3, WritingAccounts
  <2>4. CASE CompleteAnswered(t)
    <3> DEFINE n == Len(fifo[t])
               rtt == fifo[t][n].early
    <3>1. /\ Writing(t) /\ rtt # None /\ Reply(t, n, rtt)
          /\ UNCHANGED <<clock, bounds, broken>>
      BY <2>4 DEF CompleteAnswered
    <3>2. n \in Nat /\ n \in 1 .. Len(fifo[t]) /\ fifo[t][n] \in Probes
      BY <1>1, <3>1, WritingIsAProbe
    <3>3. rtt \in Rtts
      BY <3>1, <3>2 DEF Probes
    <3> HIDE DEF rtt, n
    <3> QED BY <1>1, <3>1, <3>2, <3>3, ReplyAccounts
  <2>5. CASE CompleteFailed(t)
    BY <1>1, <2>5, CompleteFailedAccounts
  <2>6. ASSUME NEW rtt \in Rtts, NEW i \in 1 .. MaxProbes, ObserveReply(t, i, rtt)
        PROVE  Accounts
    <3>1. /\ i \in Nat /\ i \in 1 .. Len(fifo[t]) /\ Reply(t, i, rtt)
          /\ UNCHANGED <<clock, bounds, broken>>
      BY <2>6 DEF ObserveReply
    <3> QED BY <1>1, <3>1, ReplyAccounts
  <2>7. CASE ObserveGap(t)
    BY <1>1, <2>7, ObserveGapAccounts
  <2>8. CASE UpdateEndpoint(t)
    BY <1>1, <2>8, UpdateEndpointAccounts
  <2>9. CASE Snapshot(t)
    BY <1>1, <2>9, SnapshotAccounts
  <2> QED BY <1>2, <2>1, <2>2, <2>3, <2>4, <2>5, <2>6, <2>7, <2>8, <2>9 DEF Hook
<1>3. ASSUME NEW t \in Targets, Settle(t) PROVE Accounts
  BY <1>1, <1>3, SettleAccounts
<1>4. ASSUME NEW x \in Open, Expire(x) PROVE Accounts
  BY <1>1, <1>4, ExpireAccounts
<1>5. CASE Scan \/ ScanDone \/ Arm \/ WakeUp \/ Return \/ Tick \/ UNCHANGED vars
  <2>1. clock \in Int
    BY <1>1 DEF Looping, Instant
  <2>2. UNCHANGED <<hookVars, bounds, history>> /\ (clock' = clock \/ clock' = clock + 1)
    BY <1>5 DEF Scan, ScanDone, Arm, WakeUp, Return, Tick, vars
  <2>3. clock <= clock'
    BY <2>1, <2>2
  <2> QED BY <1>1, <2>2, <2>3, UnchangedAccounts
<1> QED BY <1>2, <1>3, <1>4, <1>5 DEF Next, RunStep, SettleStep

\* Nothing is sent or settled at first.
LEMMA InitRInv == Init => RInv
<1> SUFFICES ASSUME Init PROVE RInv
  OBVIOUS
<1>1. /\ clock = 0 /\ state = [t \in Targets |-> Fresh]
      /\ fifo = [t \in Targets |-> <<>>] /\ settling = NoTarget /\ changes = 0
      /\ sent = [t \in Targets |-> None] /\ settled = [t \in Targets |-> <<>>]
      /\ broken = [t \in Targets |-> None]
  BY DEF Init
<1>2. IInv
  BY InitIInv
<1>3. Noted
  BY <1>1, EmptySeq, TargetsAssumption DEF Noted
<1>4. ASSUME NEW t \in Targets PROVE Told(t)
  <2>1. Len(fifo[t]) = 0 /\ Len(settled[t]) = 0 /\ state[t] = Fresh
    BY <1>1, EmptySeq
  <2>2. sent[t] <= clock /\ broken[t] <= Fresh.lastBad /\ Fresh.healthySince = None
    BY <1>1 DEF None, Fresh
  <2> QED BY <2>1, <2>2 DEF Told, InOrder, BadIsKnown, RunIsLogged
<1> QED BY <1>2, <1>3, <1>4 DEF RInv

\* In every behaviour, step by step.
LEMMA NextRInv == RInv /\ [Next]_vars => RInv'
<1> SUFFICES ASSUME RInv, [Next]_vars PROVE RInv'
  OBVIOUS
<1>1. IInv'
  BY NextIInv DEF RInv
<1>2. Accounts
  BY <1>1, StepAccounts
<1> QED BY <1>1, <1>2 DEF RInv, Accounts, Justified

\* The end of a log is the evidence that the property speaks of.
LEMMA EarnedIsHealthy ==
  ASSUME NEW t \in Targets, settled'[t] \in Seq(Instant), Earned(settled'[t], broken[t])
  PROVE  \E n \in 1 .. Len(settled'[t]) : Healthy(Evidence(t, n), t)
<1> DEFINE log == settled'[t]
           k == Len(log)
<1>1. PICK m \in 1 .. k :
        /\ log[k] - log[m] >= RecoverAfter
        /\ \A i \in m + 1 .. k : log[i] - log[i - 1] <= 2 * FastInterval
        /\ broken[t] <= log[m]
  BY DEF Earned
<1> DEFINE n == k - m + 1
           e == SubSeq(log, m, k)
<1>2. k \in Nat /\ m \in Nat /\ 1 <= m /\ m <= k
  BY LenProperties
<1>3. n \in 1 .. k /\ k - n + 1 = m /\ Evidence(t, n) = e
  BY <1>2 DEF Evidence
<1>4. Len(e) = n /\ \A i \in 1 .. n : e[i] = log[m + i - 1]
  <2>1. \A i \in m .. k : log[i] \in Instant
    BY <1>2, ElementOfSeq
  <2>2. m \in Int /\ k \in Int
    BY <1>2
  <2> HIDE DEF log, k
  <2>3. /\ Len(e) = IF m <= k THEN k - m + 1 ELSE 0
        /\ \A i \in 1 .. k - m + 1 : e[i] = log[m + i - 1]
    BY <2>1, <2>2, SubSeqProperties, SMTT(30) DEF k
  <2> QED BY <1>2, <2>3
<1> HIDE DEF log, k, n, e
<1>5. e[1] = log[m] /\ e[Len(e)] = log[k]
  <2>1. 1 \in 1 .. n /\ n \in 1 .. n /\ m + 1 - 1 = m /\ m + n - 1 = k
    BY <1>2 DEF n
  <2> QED BY <1>4, <2>1
<1>6. ASSUME NEW i \in 2 .. Len(e) PROVE e[i] - e[i - 1] <= 2 * FastInterval
  <2>1. /\ i \in 1 .. n /\ i - 1 \in 1 .. n /\ m + i - 1 \in m + 1 .. k
        /\ m + (i - 1) - 1 = (m + i - 1) - 1
    BY <1>2, <1>4 DEF n
  <2> QED BY <1>1, <1>4, <2>1
<1>7. Healthy(e, t)
  BY <1>1, <1>5, <1>6 DEF Healthy
<1> QED BY <1>3, <1>7 DEF log, k
\* An incident ends, for any policy, only when the probes settled last bear
\* it out, whatever the order in which results, gaps and evictions arrive.
THEOREM RecoveriesAreEarned == Spec => RecoveryIsEarned
<1>1. RInv /\ [Next]_vars =>
        [\A t \in Targets :
           state[t].active /\ ~state'[t].active /\ changes' = changes =>
             \E n \in 1 .. Len(settled'[t]) : Healthy(Evidence(t, n), t)]_vars
  <2> SUFFICES ASSUME RInv, [Next]_vars, NEW t \in Targets,
                      state[t].active, ~state'[t].active, changes' = changes
               PROVE  \E n \in 1 .. Len(settled'[t]) : Healthy(Evidence(t, n), t)
    OBVIOUS
  <2>1. IInv'
    BY NextIInv DEF RInv
  <2>2. Accounts
    BY <2>1, StepAccounts
  <2>3. settled'[t] \in Seq(Instant) /\ Earned(settled'[t], broken[t])
    BY <2>2 DEF Accounts, Justified, Noted, Instant
  <2> QED BY <2>3, EarnedIsHealthy
<1> QED BY <1>1, InitRInv, NextRInv, PTL DEF Spec, RecoveryIsEarned
=============================================================================
