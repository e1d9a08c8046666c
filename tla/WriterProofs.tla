---------------------------- MODULE WriterProofs ----------------------------
(***************************************************************************)
(* Proofs about Writer, for any numbers of probes and replies, any sizes   *)
(* and retentions: the types, that every event that reaches the bus is     *)
(* stored once, and that the rows, the map of kept replies and the         *)
(* counters account for the replies of every committed batch.              *)
(***************************************************************************)
EXTENDS Writer, Sums, SequenceTheorems
-----------------------------------------------------------------------------
(* The invariant.                                                          *)

\* A kept reply is one of the probe it is kept for.
Entries == [event : Events, addedAt : Nat]
Keeps ==
  {f \in UNION {[D -> Entries] : D \in SUBSET Probes} :
     /\ Cardinality(DOMAIN f) <= MaxOrphans
     /\ \A n \in DOMAIN f : f[n].event.kind = "reply" /\ f[n].event.probe = n}
Counters == [late : Nat, mismatch : Nat, replaced : Nat]
Tables == {f \in [Probes -> RowOrNone] : \A n \in Probes : f[n].duplicates > 0 => f[n].reply > 0}
Worlds == [rows : Tables, counts : Counters, orphans : Keeps,
           dirty : SUBSET Probes, failed : BOOLEAN]
There(w, n) == w.rows[n] # NoRow
\* Only stored minutes are dirty, and a row that is there leaves no reply waiting.
Sound(w) ==
  /\ w \in Worlds
  /\ \A n \in w.dirty : There(w, n)
  /\ \A n \in DOMAIN w.orphans : ~There(w, n)

Typed ==
  /\ clock \in 0 .. MaxTime
  /\ closed \in BOOLEAN /\ cancelled \in BOOLEAN /\ space \in BOOLEAN /\ ready \in BOOLEAN
  /\ bus \in Seq(Events) /\ batch \in Seq(Events) /\ log \in Seq(Events)
  /\ Len(batch) <= BatchSize
  /\ sentAt \in [Probes -> Nat \cup {None}] /\ replies \in [Probes -> 0 .. MaxReplies]
  /\ writing \subseteq Probes /\ Cardinality(writing) <= Senders
  /\ pc \in {"next", "collect", "apply", "recover", "paused", "expire",
             "pressed", "returned", "failed"}
  /\ stage \in 0 .. 2
  /\ rollup \in [Probes -> RowOrNone] /\ retired \in [Probes -> RowOrNone]
\* A minute that is not dirty has been computed.
Summed == \A n \in Probes \ dirty : Stored(n) => rollup[n] # NoRow
\* A batch is begun with nothing in hand, and what closes the bus comes after
\* its producers.
Running ==
  /\ pc \in {"next", "expire", "pressed"} => batch = <<>>
  /\ pc = "returned" /\ ~cancelled => closed /\ bus = <<>> /\ batch = <<>>
  /\ closed => writing = {}
  /\ \A n \in writing : sentAt[n] # None
\* The tables fit together: what is said of a world holds of the stored one.
Kept ==
  /\ rows \in Tables /\ counts \in Counters /\ orphans \in Keeps /\ dirty \subseteq Probes
  /\ \A n \in dirty : Stored(n)
  /\ \A n \in DOMAIN orphans : ~Stored(n)
Logged == \A n \in Probes : (Row(n) \in Range(log)) <=> (Stored(n) \/ retired[n] # NoRow)

IInv == Typed /\ Kept /\ Summed /\ Running /\ InOnePlace /\ Logged
-----------------------------------------------------------------------------
(* Sequences.                                                              *)

\* An event more at the end.
LEMMA PositionsAppend ==
  ASSUME NEW S, NEW s \in Seq(S), NEW x \in S, NEW e
  PROVE  /\ Cardinality(Positions(e, s)) \in Nat
         /\ Cardinality(Positions(e, Append(s, x)))
              = Cardinality(Positions(e, s)) + (IF x = e THEN 1 ELSE 0)
<1> DEFINE r == Append(s, x)
           I == {i \in 1 .. Len(s) : s[i] = e}
           J == {i \in 1 .. Len(r) : r[i] = e}
           n == Len(s) + 1
<1>1. /\ Len(s) \in Nat /\ Len(r) = n /\ r \in Seq(S)
      /\ \A i \in 1 .. Len(s) : r[i] = s[i]
      /\ r[n] = x
  BY AppendProperties, LenProperties
<1>2. Positions(e, s) = I /\ Positions(e, r) = J
  BY <1>1, LenProperties DEF Positions
<1>3. IsFiniteSet(I) /\ Cardinality(I) \in Nat
  <2>1. IsFiniteSet(1 .. Len(s)) /\ I \subseteq 1 .. Len(s)
    BY <1>1, FS_Interval
  <2> HIDE DEF I
  <2> QED BY <2>1, FS_Subset, FS_CardinalityType
<1>4. n \notin I
  BY <1>1
<1> HIDE DEF r
<1>5. CASE x = e
  <2>1. J = I \cup {n}
    BY <1>1, <1>5
  <2> HIDE DEF I, J, n
  <2>2. Cardinality(J) = Cardinality(I) + 1
    BY <1>3, <1>4, <2>1, FS_AddElement
  <2> QED BY <1>2, <1>3, <1>5, <2>2 DEF r
<1>6. CASE x # e
  <2>1. J = I
    BY <1>1, <1>6
  <2> HIDE DEF I, J, n
  <2> QED BY <1>2, <1>3, <1>6, <2>1 DEF r
<1> QED BY <1>5, <1>6

\* What is nowhere, and what is somewhere.
LEMMA PositionsOf ==
  ASSUME NEW S, NEW s \in Seq(S), NEW e
  PROVE  /\ Cardinality(Positions(e, s)) \in Nat
         /\ Cardinality(Positions(e, s)) = 0 <=> e \notin Range(s)
<1>1. DOMAIN s = 1 .. Len(s) /\ Len(s) \in Nat
  BY LenProperties
<1>2. IsFiniteSet(DOMAIN s) /\ Positions(e, s) \subseteq DOMAIN s
  BY <1>1, FS_Interval DEF Positions
<1>3. IsFiniteSet(Positions(e, s))
  BY <1>2, FS_Subset
<1>4. Cardinality(Positions(e, s)) \in Nat
  BY <1>3, FS_CardinalityType
<1>5. Cardinality(Positions(e, s)) = 0 <=> Positions(e, s) = {}
  BY <1>3, FS_EmptySet
<1>6. Positions(e, s) = {} <=> e \notin Range(s)
  BY DEF Positions, Range
<1> QED BY <1>4, <1>5, <1>6

\* What has been received is still held, in the same order.
LEMMA HeldCollects ==
  ASSUME NEW l \in Seq(Events), NEW b \in Seq(Events), NEW u \in Seq(Events), u # <<>>
  PROVE  (l \o Append(b, Head(u))) \o Tail(u) = (l \o b) \o u
<1>1. Head(u) \in Events /\ Tail(u) \in Seq(Events) /\ Len(Tail(u)) = Len(u) - 1
  BY HeadTailProperties
<1> QED BY <1>1, SMTT(30)

\* The same for the first event of a batch, for a batch that is stored, and for
\* an event that is published.
LEMMA HeldMoves ==
  ASSUME NEW l \in Seq(Events), NEW b \in Seq(Events), NEW u \in Seq(Events)
  PROVE  /\ b = <<>> /\ u # <<>> => (l \o <<Head(u)>>) \o Tail(u) = (l \o b) \o u
         /\ ((l \o b) \o <<>>) \o u = (l \o b) \o u
         /\ \A e \in Events : (l \o b) \o Append(u, e) = Append((l \o b) \o u, e)
<1>1. ASSUME b = <<>>, u # <<>> PROVE (l \o <<Head(u)>>) \o Tail(u) = (l \o b) \o u
  BY <1>1, HeldCollects
<1>2. ((l \o b) \o <<>>) \o u = (l \o b) \o u
  <2>1. l \o b \in Seq(Events)
    BY ConcatProperties
  <2> QED BY <2>1, ConcatEmptySeq
<1>3. ASSUME NEW e \in Events PROVE (l \o b) \o Append(u, e) = Append((l \o b) \o u, e)
  OBVIOUS
<1> QED BY <1>1, <1>2, <1>3
-----------------------------------------------------------------------------
(* A transaction, event by event.                                          *)

\* The recursion over the batch has a solution.
LEMMA AfterExists ==
  ASSUME NEW k \in Nat
  PROVE  \E f : f = [i \in 0 .. k |-> IF i = 0 THEN World ELSE ApplyEvent(f[i - 1], batch[i])]
<1> DEFINE Solves(f, n) ==
             f = [i \in 0 .. n |-> IF i = 0 THEN World ELSE ApplyEvent(f[i - 1], batch[i])]
           N == {n \in Nat : ~ \E f : Solves(f, n)}
<1> SUFFICES ASSUME N # {} PROVE FALSE
  OBVIOUS
<1>1. PICK n \in N : \A m \in N : ~ (<<m, n>> \in OpToRel(<, Nat))
  <2>1. N \subseteq Nat
    OBVIOUS
  <2> HIDE DEF N
  <2> QED BY <2>1, WFMin, NatLessThanWellFounded
<1>2. n \in Nat /\ \A m \in Nat : m < n => m \notin N
  BY <1>1 DEF OpToRel
<1>3. ASSUME n = 0 PROVE FALSE
  <2> DEFINE f == [i \in 0 .. 0 |-> World]
  <2>1. Solves(f, 0)
    OBVIOUS
  <2> QED BY <1>1, <1>3, <2>1
<1>4. ASSUME n # 0 PROVE FALSE
  <2>1. n - 1 \in Nat /\ n - 1 < n
    BY <1>2, <1>4
  <2>2. PICK f : Solves(f, n - 1)
    BY <1>2, <2>1
  <2>3. \A i \in 0 .. n - 1 : f[i] = IF i = 0 THEN World ELSE ApplyEvent(f[i - 1], batch[i])
    BY <2>2
  <2> DEFINE g == [i \in 0 .. n |-> IF i = 0 THEN World ELSE ApplyEvent(f[i - 1], batch[i])]
  <2>4. \A i \in 0 .. n - 1 : g[i] = f[i]
    BY <1>2, <2>3
  <2>5. \A i \in 0 .. n : i # 0 => i - 1 \in 0 .. n - 1
    BY <1>2
  <2>6. Solves(g, n)
    <3>1. \A i \in 0 .. n : i # 0 => f[i - 1] = g[i - 1]
      BY <2>4, <2>5
    <3> DEFINE h == [i \in 0 .. n |-> IF i = 0 THEN World ELSE ApplyEvent(g[i - 1], batch[i])]
    <3>2. \A i \in 0 .. n : g[i] = h[i]
      BY <3>1
    <3> QED BY <3>2
  <2> QED BY <1>1, <2>6
<1> QED BY <1>3, <1>4

\* So it starts with the tables as they are and goes on event by event.
LEMMA AfterUnfolds ==
  ASSUME batch \in Seq(Events)
  PROVE  /\ After[0] = World
         /\ \A i \in 1 .. Len(batch) : After[i] = ApplyEvent(After[i - 1], batch[i])
<1> DEFINE n == Len(batch)
           F(f) == f = [i \in 0 .. n |-> IF i = 0 THEN World ELSE ApplyEvent(f[i - 1], batch[i])]
<1>1. n \in Nat
  BY LenProperties
<1>2. \E f : F(f)
  BY <1>1, AfterExists
<1>3. After = CHOOSE f : F(f)
  BY DEF After
<1>4. F(After)
  BY <1>2, <1>3
<1>5. \A i \in 0 .. n : After[i] = IF i = 0 THEN World ELSE ApplyEvent(After[i - 1], batch[i])
  BY <1>4
<1> QED BY <1>1, <1>5

\* An event is a row or a reply of a probe.
LEMMA EventKinds ==
  ASSUME NEW e \in Events
  PROVE  /\ e.probe \in Probes /\ e.kind \in {"row", "reply"}
         /\ e.kind = "row" => e = Row(e.probe)
         /\ e.kind = "reply" => e.number \in 1 .. MaxReplies
         /\ \A n : e = Row(n) => e.kind = "row" /\ e.probe = n
<1>1. (\E n \in Probes : e = Row(n)) \/ \E n \in Probes, k \in 1 .. MaxReplies : e = Reply(n, k)
  BY DEF Events
<1> QED BY <1>1 DEF Row, Reply

\* A world while an event is applied: a reply may wait for a row that has come.
Fits(w) == w \in Worlds /\ \A n \in w.dirty : There(w, n)

\* There is no row without a reply counter of its own.
LEMMA Rows ==
  ASSUME NEW r \in RowOrNone
  PROVE  /\ r # NoRow => r \in [reply : 0 .. MaxReplies, duplicates : Nat]
         /\ r \in [reply : 0 .. MaxReplies, duplicates : Nat] => r # NoRow
BY DEF RowOrNone, NoRow, None

\* A row is put into the table.
LEMMA TablesChange ==
  ASSUME NEW f \in Tables, NEW n \in Probes,
         NEW r \in [reply : 0 .. MaxReplies, duplicates : Nat], r.duplicates > 0 => r.reply > 0,
         NEW g, DOMAIN g = Probes, g[n] = r, g = [m \in DOMAIN g |-> g[m]],
         \A m \in Probes : m # n => g[m] = f[m]
  PROVE  g \in Tables /\ g[n] # NoRow
<1>1. f \in [Probes -> RowOrNone] /\ r \in RowOrNone
  BY DEF Tables, RowOrNone
<1>2. \A m \in Probes : g[m] \in RowOrNone
  BY <1>1
<1>3. g \in [Probes -> RowOrNone]
  BY <1>2
<1>4. \A m \in Probes : g[m].duplicates > 0 => g[m].reply > 0
  BY DEF Tables
<1> QED BY <1>3, <1>4, Rows DEF Tables

\* applyReply: no row comes or goes, and a clean minute stays as it was.
LEMMA AttachFits ==
  ASSUME NEW w, Fits(w), NEW e \in Events, e.kind = "reply", There(w, e.probe),
         NEW v, v = AttachReply(w, e)
  PROVE  /\ Fits(v) /\ v.orphans = w.orphans /\ v.failed = w.failed /\ w.dirty \subseteq v.dirty
         /\ \A m \in Probes : There(v, m) <=> There(w, m)
<1> DEFINE n == e.probe
<1>1. n \in Probes /\ e.number \in 1 .. MaxReplies
  BY EventKinds
<1>2. /\ w.rows \in Tables /\ w.counts \in Counters /\ w.orphans \in Keeps
      /\ w.dirty \in SUBSET Probes /\ w.failed \in BOOLEAN /\ w \in Worlds
  BY DEF Fits, Worlds
<1>3. w.rows[n] \in [reply : 0 .. MaxReplies, duplicates : Nat]
      /\ (w.rows[n].duplicates > 0 => w.rows[n].reply > 0)
  BY <1>1, <1>2, Rows DEF There, Tables
<1>7. n = e.probe /\ There(w, n)
  OBVIOUS
<1>8. \A m \in w.dirty : There(w, m)
  BY DEF Fits
<1> HIDE DEF n
<1>4. CASE n \in Strays
  <2>1. v = [w EXCEPT !.counts.mismatch = @ + 1]
    BY <1>4 DEF AttachReply, n
  <2>2. [w.counts EXCEPT !.mismatch = @ + 1] \in Counters
    BY <1>2 DEF Counters
  <2>3. /\ v.rows = w.rows /\ v.orphans = w.orphans /\ v.dirty = w.dirty /\ v.failed = w.failed
        /\ v.counts = [w.counts EXCEPT !.mismatch = @ + 1] /\ v \in Worlds
    BY <1>2, <2>1, <2>2 DEF Worlds
  <2> QED BY <2>3 DEF Fits, There
<1>5. CASE n \notin Strays /\ w.rows[n].reply = 0
  <2>1. v = [w EXCEPT !.rows[n].reply = e.number, !.dirty = @ \cup {n}]
    BY <1>5 DEF AttachReply, n
  <2>0. PICK r : r = [w.rows[n] EXCEPT !.reply = e.number]
    OBVIOUS
  <2>7. PICK f : f = [w.rows EXCEPT ![n] = r]
    OBVIOUS
  <2>2. r \in [reply : 0 .. MaxReplies, duplicates : Nat] /\ (r.duplicates > 0 => r.reply > 0)
    BY <1>1, <1>3, <2>0
  <2>3. f \in Tables /\ f[n] # NoRow /\ \A m \in Probes : m # n => f[m] = w.rows[m]
    <3>1. w.rows \in Tables /\ n \in Probes /\ DOMAIN w.rows = Probes
      BY <1>1, <1>2 DEF Tables
    <3>2. DOMAIN f = Probes /\ f[n] = r /\ f = [m \in DOMAIN f |-> f[m]]
          /\ \A m \in Probes : m # n => f[m] = w.rows[m]
      BY <2>7, <3>1
    <3> QED BY <3>1, <3>2, <2>2, TablesChange
  <2>4. v.rows = f /\ v.dirty = w.dirty \cup {n}
        /\ v.orphans = w.orphans /\ v.failed = w.failed /\ v.counts = w.counts
    BY <1>2, <2>0, <2>7, <2>1 DEF Worlds, Tables
  <2>5. v \in Worlds
    BY <1>1, <1>2, <2>1, <2>3, <2>4 DEF Worlds
  <2>6. \A m \in Probes : There(v, m) <=> There(w, m)
    BY <1>7, <2>3, <2>4 DEF There
  <2>8. \A m \in v.dirty : There(v, m)
    BY <1>1, <1>2, <1>7, <1>8, <2>4, <2>6
  <2> QED BY <2>4, <2>5, <2>6, <2>8 DEF Fits
<1>6. CASE n \notin Strays /\ w.rows[n].reply # 0
  <2>1. v = [w EXCEPT !.rows[n].duplicates = @ + 1]
    BY <1>6 DEF AttachReply, n
  <2>0. PICK r : r = [w.rows[n] EXCEPT !.duplicates = @ + 1]
    OBVIOUS
  <2>7. PICK f : f = [w.rows EXCEPT ![n] = r]
    OBVIOUS
  <2>2. r \in [reply : 0 .. MaxReplies, duplicates : Nat] /\ (r.duplicates > 0 => r.reply > 0)
    BY <1>1, <1>3, <1>6, <2>0
  <2>3. f \in Tables /\ f[n] # NoRow /\ \A m \in Probes : m # n => f[m] = w.rows[m]
    <3>1. w.rows \in Tables /\ n \in Probes /\ DOMAIN w.rows = Probes
      BY <1>1, <1>2 DEF Tables
    <3>2. DOMAIN f = Probes /\ f[n] = r /\ f = [m \in DOMAIN f |-> f[m]]
          /\ \A m \in Probes : m # n => f[m] = w.rows[m]
      BY <2>7, <3>1
    <3> QED BY <3>1, <3>2, <2>2, TablesChange
  <2>4. v.rows = f /\ v.dirty = w.dirty
        /\ v.orphans = w.orphans /\ v.failed = w.failed /\ v.counts = w.counts
    BY <1>2, <2>0, <2>7, <2>1 DEF Worlds, Tables
  <2>5. v \in Worlds
    BY <1>1, <1>2, <2>1, <2>3, <2>4 DEF Worlds
  <2>6. \A m \in Probes : There(v, m) <=> There(w, m)
    BY <1>7, <2>3, <2>4 DEF There
  <2>8. \A m \in v.dirty : There(v, m)
    BY <1>1, <1>2, <1>7, <1>8, <2>4, <2>6
  <2> QED BY <2>4, <2>5, <2>6, <2>8 DEF Fits
<1> QED BY <1>4, <1>5, <1>6

\* There are finitely many probes.
LEMMA ProbesAreFinite == IsFiniteSet(Probes)
<1>1. MaxProbes \in Nat
  BY SizeAssumption
<1> QED BY <1>1, FS_Interval DEF Probes

\* Kept replies are forgotten.
LEMMA KeepsShrink ==
  ASSUME NEW f \in Keeps, NEW D, D \subseteq DOMAIN f, NEW g, g = [m \in D |-> f[m]]
  PROVE  g \in Keeps /\ DOMAIN g = D
<1>1. /\ DOMAIN f \subseteq Probes /\ f \in [DOMAIN f -> Entries]
      /\ Cardinality(DOMAIN f) <= MaxOrphans
      /\ \A n \in DOMAIN f : f[n].event.kind = "reply" /\ f[n].event.probe = n
  BY DEF Keeps
<1>2. g \in [D -> Entries] /\ D \in SUBSET Probes /\ DOMAIN g = D
  BY <1>1
<1>3. \A n \in DOMAIN g : g[n].event.kind = "reply" /\ g[n].event.probe = n
  BY <1>1
<1>4. Cardinality(D) <= MaxOrphans
  <2>1. IsFiniteSet(Probes)
    BY ProbesAreFinite
  <2>2. IsFiniteSet(DOMAIN f)
    BY <1>1, <2>1, FS_Subset
  <2>3. IsFiniteSet(D) /\ Cardinality(D) <= Cardinality(DOMAIN f)
    BY <2>2, FS_Subset
  <2>4. Cardinality(D) \in Nat /\ Cardinality(DOMAIN f) \in Nat /\ MaxOrphans \in Nat
    BY <2>2, <2>3, FS_CardinalityType, SizeAssumption
  <2> QED BY <1>1, <2>3, <2>4
<1> QED BY <1>2, <1>3, <1>4 DEF Keeps

\* A reply more is kept.
LEMMA KeepsGrow ==
  ASSUME NEW f \in Keeps, NEW n \in Probes, NEW x \in Entries,
         x.event.kind = "reply", x.event.probe = n, ~ (Cardinality(DOMAIN f) >= MaxOrphans),
         NEW g, g = [m \in DOMAIN f \cup {n} |-> IF m = n THEN x ELSE f[m]]
  PROVE  g \in Keeps /\ DOMAIN g = DOMAIN f \cup {n}
<1> DEFINE D == DOMAIN f \cup {n}
<1>1. /\ DOMAIN f \subseteq Probes /\ f \in [DOMAIN f -> Entries]
      /\ \A m \in DOMAIN f : f[m].event.kind = "reply" /\ f[m].event.probe = m
  BY DEF Keeps
<1>2. g \in [D -> Entries] /\ D \in SUBSET Probes /\ DOMAIN g = D
  BY <1>1
<1>3. \A m \in DOMAIN g : g[m].event.kind = "reply" /\ g[m].event.probe = m
  BY <1>1
<1>4. Cardinality(D) <= MaxOrphans
  <2>1. IsFiniteSet(Probes)
    BY ProbesAreFinite
  <2>2. IsFiniteSet(DOMAIN f)
    BY <1>1, <2>1, FS_Subset
  <2>3. Cardinality(D) = Cardinality(DOMAIN f) \/ Cardinality(D) = Cardinality(DOMAIN f) + 1
    BY <2>2, FS_AddElement
  <2>4. Cardinality(DOMAIN f) \in Nat /\ MaxOrphans \in Nat
    BY <2>2, FS_CardinalityType, SizeAssumption
  <2> QED BY <2>3, <2>4
<1> QED BY <1>2, <1>3, <1>4 DEF Keeps

\* insertProbe: the row is there, its minute is dirty, and no reply waits for it.
LEMMA InsertFits ==
  ASSUME NEW w, Sound(w), NEW n \in Probes, NEW v, v = InsertProbe(w, n)
  PROVE  /\ Sound(v) /\ v.failed = w.failed /\ w.dirty \subseteq v.dirty /\ n \in v.dirty
         /\ \A m \in Probes : There(v, m) <=> m = n \/ There(w, m)
<1>1. /\ w.rows \in Tables /\ w.counts \in Counters /\ w.orphans \in Keeps
      /\ w.dirty \in SUBSET Probes /\ w.failed \in BOOLEAN /\ w \in Worlds
      /\ \A m \in w.dirty : There(w, m)
      /\ \A m \in DOMAIN w.orphans : ~There(w, m)
  BY DEF Sound, Worlds
<1>2. PICK u : u = [w EXCEPT !.rows[n] = NewRow, !.dirty = @ \cup {n}]
  OBVIOUS
<1>3. PICK f : f = [w.rows EXCEPT ![n] = NewRow]
  OBVIOUS
<1>4. f \in Tables /\ f[n] # NoRow /\ \A m \in Probes : m # n => f[m] = w.rows[m]
  <2>1. /\ DOMAIN f = Probes /\ f[n] = NewRow /\ f = [m \in DOMAIN f |-> f[m]]
        /\ \A m \in Probes : m # n => f[m] = w.rows[m]
    BY <1>1, <1>3 DEF Tables
  <2>2. NewRow \in [reply : 0 .. MaxReplies, duplicates : Nat] /\ NewRow.duplicates = 0
    BY SizeAssumption DEF NewRow
  <2> HIDE DEF NewRow
  <2> QED BY <1>1, <2>1, <2>2, TablesChange
<1>5. /\ u.rows = f /\ u.dirty = w.dirty \cup {n} /\ u.orphans = w.orphans
      /\ u.failed = w.failed /\ u.counts = w.counts
  BY <1>1, <1>2, <1>3 DEF Worlds
<1>6. u \in Worlds
  BY <1>1, <1>2, <1>4, <1>5 DEF Worlds
<1>7. \A m \in Probes : There(u, m) <=> m = n \/ There(w, m)
  BY <1>4, <1>5 DEF There
<1>8. Fits(u)
  BY <1>1, <1>5, <1>6, <1>7 DEF Fits
<1>9. CASE n \notin DOMAIN w.orphans
  <2>1. v = u
    BY <1>2, <1>9 DEF InsertProbe
  <2>2. \A m \in DOMAIN u.orphans : ~There(u, m)
    <3>1. DOMAIN w.orphans \subseteq Probes
      BY <1>1 DEF Keeps
    <3> QED BY <1>1, <1>5, <1>7, <1>9, <3>1
  <2> QED BY <1>5, <1>7, <1>8, <2>1, <2>2 DEF Fits, Sound
<1>10. CASE n \in DOMAIN w.orphans
  <2>1. PICK e : e = w.orphans[n].event
    OBVIOUS
  <2>2. e \in Events /\ e.kind = "reply" /\ e.probe = n
    BY <1>1, <1>10, <2>1 DEF Keeps, Entries
  <2>3. PICK x : x = AttachReply(u, e)
    OBVIOUS
  <2>4. /\ Fits(x) /\ x.orphans = u.orphans /\ x.failed = u.failed /\ u.dirty \subseteq x.dirty
        /\ \A m \in Probes : There(x, m) <=> There(u, m)
    BY <1>7, <1>8, <2>2, <2>3, AttachFits
  <2>5. v = [x EXCEPT !.orphans = Without(@, n)]
    BY <1>2, <1>10, <2>1, <2>3 DEF InsertProbe
  <2>6. PICK g : g = Without(w.orphans, n)
    OBVIOUS
  <2>7. g \in Keeps /\ DOMAIN g = DOMAIN w.orphans \ {n}
    BY <1>1, <2>6, KeepsShrink DEF Without
  <2>8. x \in Worlds /\ \A m \in x.dirty : There(x, m)
    BY <2>4 DEF Fits
  <2>9. /\ v.orphans = g /\ v.rows = x.rows /\ v.dirty = x.dirty
        /\ v.counts = x.counts /\ v.failed = x.failed /\ v \in Worlds
    <3>1. v.orphans = g
      BY <1>5, <2>4, <2>5, <2>6, <2>8 DEF Worlds
    <3> QED BY <2>5, <2>7, <2>8, <3>1 DEF Worlds
  <2>10. \A m \in Probes : There(v, m) <=> m = n \/ There(w, m)
    BY <1>7, <2>4, <2>9 DEF There
  <2>11. \A m \in v.dirty : There(v, m)
    BY <2>8, <2>9 DEF There
  <2>12. \A m \in DOMAIN v.orphans : ~There(v, m)
    <3>1. DOMAIN w.orphans \subseteq Probes
      BY <1>1 DEF Keeps
    <3> QED BY <1>1, <2>7, <2>9, <2>10, <3>1
  <2> QED BY <1>5, <2>4, <2>9, <2>10, <2>11, <2>12 DEF Sound
<1> QED BY <1>9, <1>10

\* A reply without a row changes no row, and is kept for one that is not there.
LEMMA KeepFits ==
  ASSUME NEW w, Sound(w), NEW e \in Events, e.kind = "reply", ~There(w, e.probe),
         clock \in Nat, NEW v, v = KeepReply(w, e)
  PROVE  /\ Sound(v) /\ v.rows = w.rows /\ v.dirty = w.dirty
         /\ v.failed \/ v.failed = w.failed
<1>1. /\ w.rows \in Tables /\ w.counts \in Counters /\ w.orphans \in Keeps
      /\ w.dirty \in SUBSET Probes /\ w.failed \in BOOLEAN /\ w \in Worlds
      /\ \A m \in w.dirty : There(w, m)
      /\ \A m \in DOMAIN w.orphans : ~There(w, m)
  BY DEF Sound, Worlds
<1>2. PICK n : n = e.probe
  OBVIOUS
<1>3. n \in Probes /\ ~There(w, n)
  BY <1>2, EventKinds
<1>4. CASE sentAt[n] <= prunedThrough
  <2>1. v = [w EXCEPT !.counts.late = @ + 1]
    BY <1>2, <1>4 DEF KeepReply
  <2>2. [w.counts EXCEPT !.late = @ + 1] \in Counters
    BY <1>1 DEF Counters
  <2>3. /\ v.rows = w.rows /\ v.orphans = w.orphans /\ v.dirty = w.dirty /\ v.failed = w.failed
        /\ v.counts = [w.counts EXCEPT !.late = @ + 1] /\ v \in Worlds
    BY <1>1, <2>1, <2>2 DEF Worlds
  <2> QED BY <1>1, <2>3 DEF Sound, There
<1>5. CASE ~ (sentAt[n] <= prunedThrough) /\ Cardinality(DOMAIN w.orphans) >= MaxOrphans
  <2>1. v = [w EXCEPT !.failed = TRUE]
    BY <1>2, <1>5 DEF KeepReply
  <2>2. /\ v.rows = w.rows /\ v.orphans = w.orphans /\ v.dirty = w.dirty /\ v.failed = TRUE
        /\ v.counts = w.counts /\ v \in Worlds
    BY <1>1, <2>1 DEF Worlds
  <2> QED BY <1>1, <2>2 DEF Sound, There
<1>6. CASE ~ (sentAt[n] <= prunedThrough) /\ ~ (Cardinality(DOMAIN w.orphans) >= MaxOrphans)
  <2>1. PICK x : x = [event |-> e, addedAt |-> clock]
    OBVIOUS
  <2>2. x \in Entries /\ x.event.kind = "reply" /\ x.event.probe = n
    BY <1>2, <2>1 DEF Entries
  <2>3. PICK g : g = [m \in DOMAIN w.orphans \cup {n} |-> IF m = n THEN x ELSE w.orphans[m]]
    OBVIOUS
  <2>4. g \in Keeps /\ DOMAIN g = DOMAIN w.orphans \cup {n}
    BY <1>1, <1>3, <1>6, <2>2, <2>3, KeepsGrow
  <2>5. PICK y \in Nat : y = IF n \in DOMAIN w.orphans THEN 1 ELSE 0
    OBVIOUS
  <2>6. v = [w EXCEPT !.orphans = g, !.counts.replaced = @ + y]
    BY <1>2, <1>6, <2>1, <2>3, <2>5 DEF KeepReply
  <2>7. [w.counts EXCEPT !.replaced = @ + y] \in Counters
    BY <1>1 DEF Counters
  <2>8. /\ v.rows = w.rows /\ v.orphans = g /\ v.dirty = w.dirty /\ v.failed = w.failed
        /\ v.counts = [w.counts EXCEPT !.replaced = @ + y] /\ v \in Worlds
    BY <1>1, <2>4, <2>6, <2>7 DEF Worlds
  <2> QED BY <1>1, <1>3, <2>4, <2>8 DEF Sound, There
<1> QED BY <1>4, <1>5, <1>6

\* An event: dirty minutes stay dirty, rows stay, a clean row was there
\* before, and a row comes with its event and with nothing else.
LEMMA EventApplies ==
  ASSUME NEW w, Sound(w), NEW e \in Events, clock \in Nat, NEW v, v = ApplyEvent(w, e)
  PROVE  /\ Sound(v) /\ w.dirty \subseteq v.dirty
         /\ \A m \in Probes : There(w, m) => There(v, m)
         /\ \A m \in Probes \ v.dirty : There(v, m) => There(w, m)
         /\ ~v.failed =>
              /\ ~w.failed
              /\ \A m \in Probes : There(v, m) <=> There(w, m) \/ e = Row(m)
<1>1. /\ e.probe \in Probes /\ e.kind \in {"row", "reply"}
      /\ e.kind = "row" => e = Row(e.probe)
      /\ \A n : e = Row(n) => e.kind = "row" /\ e.probe = n
  BY EventKinds
<1>2. CASE w.failed
  <2>1. v = w
    BY <1>2 DEF ApplyEvent
  <2> QED BY <1>2, <2>1
<1>3. CASE ~w.failed /\ e.kind = "row"
  <2>1. v = InsertProbe(w, e.probe)
    BY <1>3 DEF ApplyEvent
  <2>2. /\ Sound(v) /\ w.dirty \subseteq v.dirty /\ e.probe \in v.dirty
        /\ \A m \in Probes : There(v, m) <=> m = e.probe \/ There(w, m)
    BY <1>1, <2>1, InsertFits
  <2> QED BY <1>1, <1>3, <2>2
<1>4. CASE ~w.failed /\ e.kind = "reply" /\ There(w, e.probe)
  <2>1. v = AttachReply(w, e)
    BY <1>4 DEF ApplyEvent, There
  <2>2. Fits(w)
    BY DEF Sound, Fits
  <2>3. /\ Fits(v) /\ v.orphans = w.orphans /\ w.dirty \subseteq v.dirty
        /\ \A m \in Probes : There(v, m) <=> There(w, m)
    BY <1>4, <2>1, <2>2, AttachFits
  <2>4. Sound(v)
    <3>1. DOMAIN w.orphans \subseteq Probes
      BY DEF Sound, Worlds, Keeps
    <3> QED BY <2>3, <3>1 DEF Sound, Fits
  <2> QED BY <1>1, <1>4, <2>3, <2>4
<1>5. CASE ~w.failed /\ e.kind = "reply" /\ ~There(w, e.probe)
  <2>1. v = KeepReply(w, e)
    BY <1>5 DEF ApplyEvent, There
  <2>2. Sound(v) /\ v.rows = w.rows /\ v.dirty = w.dirty
    BY <1>5, <2>1, KeepFits
  <2> QED BY <1>1, <1>5, <2>2 DEF There
<1> QED BY <1>1, <1>2, <1>3, <1>4, <1>5

\* The world after i events of the batch: it follows from the tables and from
\* those events.
Follows(i) ==
  /\ Sound(After[i]) /\ dirty \subseteq After[i].dirty
  /\ \A m \in Probes : Stored(m) => There(After[i], m)
  /\ \A m \in Probes \ After[i].dirty : There(After[i], m) => Stored(m)
  /\ ~After[i].failed =>
       \A m \in Probes : There(After[i], m) <=> Stored(m) \/ \E j \in 1 .. i : batch[j] = Row(m)

\* So it is after every event of the batch.
LEMMA BatchApplies ==
  ASSUME batch \in Seq(Events), clock \in Nat, Sound(World)
  PROVE  \A i \in 0 .. Len(batch) : Follows(i)
<1> DEFINE N == {i \in Nat : i <= Len(batch) /\ ~Follows(i)}
<1> SUFFICES ASSUME N # {} PROVE FALSE
  OBVIOUS
<1>1. PICK i \in N : \A j \in N : ~ (<<j, i>> \in OpToRel(<, Nat))
  <2>1. N \subseteq Nat
    OBVIOUS
  <2> HIDE DEF N
  <2> QED BY <2>1, WFMin, NatLessThanWellFounded
<1>2. i \in Nat /\ i <= Len(batch) /\ ~Follows(i) /\ \A j \in Nat : j < i => j \notin N
  BY <1>1 DEF OpToRel
<1>3. Len(batch) \in Nat
  BY LenProperties
<1>4. /\ After[0] = World
      /\ \A j \in 1 .. Len(batch) : After[j] = ApplyEvent(After[j - 1], batch[j])
  BY AfterUnfolds
<1>5. ASSUME i = 0 PROVE FALSE
  <2>1. \A m : There(World, m) <=> Stored(m)
    BY DEF World, There, Stored
  <2>2. World.dirty = dirty
    BY DEF World
  <2>3. Follows(0)
    BY <1>4, <2>1, <2>2 DEF Follows
  <2> QED BY <1>2, <1>5, <2>3
<1>6. ASSUME i # 0 PROVE FALSE
  <2>1. i - 1 \in Nat /\ i - 1 < i /\ i - 1 <= Len(batch) /\ i \in 1 .. Len(batch)
    BY <1>2, <1>3, <1>6
  <2>2. Follows(i - 1)
    BY <1>2, <2>1
  <2>3. PICK w : w = After[i - 1]
    OBVIOUS
  <2>4. PICK v : v = After[i]
    OBVIOUS
  <2>5. PICK e : e = batch[i]
    OBVIOUS
  <2>6. e \in Events /\ v = ApplyEvent(w, e)
    BY <1>4, <2>1, <2>3, <2>4, <2>5, ElementOfSeq
  <2>7. /\ Sound(w) /\ dirty \subseteq w.dirty
        /\ \A m \in Probes : Stored(m) => There(w, m)
        /\ \A m \in Probes \ w.dirty : There(w, m) => Stored(m)
        /\ ~w.failed =>
             \A m \in Probes : There(w, m) <=> Stored(m) \/ \E j \in 1 .. i - 1 : batch[j] = Row(m)
    BY <2>2, <2>3 DEF Follows
  <2>8. /\ Sound(v) /\ w.dirty \subseteq v.dirty
        /\ \A m \in Probes : There(w, m) => There(v, m)
        /\ \A m \in Probes \ v.dirty : There(v, m) => There(w, m)
        /\ ~v.failed =>
             /\ ~w.failed
             /\ \A m \in Probes : There(v, m) <=> There(w, m) \/ e = Row(m)
    BY <2>6, <2>7, EventApplies
  <2>9. \A m : (\E j \in 1 .. i : batch[j] = Row(m))
                 <=> (\E j \in 1 .. i - 1 : batch[j] = Row(m)) \/ e = Row(m)
    <3>1. \A j : j \in 1 .. i <=> j \in 1 .. i - 1 \/ j = i
      BY <1>2, <2>1
    <3> QED BY <2>5, <3>1
  <2>10. Follows(i)
    <3>1. dirty \subseteq v.dirty
      BY <2>7, <2>8
    <3>2. \A m \in Probes : Stored(m) => There(v, m)
      BY <2>7, <2>8
    <3>3. \A m \in Probes \ v.dirty : There(v, m) => Stored(m)
      BY <2>7, <2>8
    <3>4. ~v.failed => \A m \in Probes :
            There(v, m) <=> Stored(m) \/ \E j \in 1 .. i : batch[j] = Row(m)
      BY <2>7, <2>8, <2>9
    <3> QED BY <2>4, <2>8, <3>1, <3>2, <3>3, <3>4 DEF Follows
  <2> QED BY <1>2, <2>10
<1> QED BY <1>5, <1>6
-----------------------------------------------------------------------------
(* The invariant, action by action.                                        *)

\* The transaction begins with the tables as they are stored.
LEMMA WorldIsSound == Kept => Sound(World)
<1> SUFFICES ASSUME Kept PROVE Sound(World)
  OBVIOUS
<1>1. PICK w : w = World
  OBVIOUS
<1>2. w.rows = rows /\ w.dirty = dirty /\ w.orphans = orphans /\ w \in Worlds
  BY <1>1 DEF Kept, World, Worlds
<1>3. \A n : There(w, n) <=> Stored(n)
  BY <1>2 DEF There, Stored
<1> QED BY <1>1, <1>2, <1>3 DEF Kept, Sound

\* A conjunct holds on when nothing it speaks of changes.
LEMMA Undisturbed ==
  /\ Kept /\ UNCHANGED <<rows, counts, orphans, dirty>> => Kept'
  /\ Summed /\ UNCHANGED <<rows, dirty, rollup>> => Summed'
  /\ Running /\ UNCHANGED <<pc, batch, cancelled, closed, bus, writing, sentAt>> => Running'
  /\ InOnePlace /\ UNCHANGED <<log, batch, bus, sentAt, writing, replies>> => InOnePlace'
  /\ Logged /\ UNCHANGED <<log, rows, retired>> => Logged'
<1>1. Kept /\ UNCHANGED <<rows, counts, orphans, dirty>> => Kept'
  BY DEF Kept, Stored
<1>2. Summed /\ UNCHANGED <<rows, dirty, rollup>> => Summed'
  BY DEF Summed, Stored
<1>3. Running /\ UNCHANGED <<pc, batch, cancelled, closed, bus, writing, sentAt>> => Running'
  BY DEF Running
<1>4. InOnePlace /\ UNCHANGED <<log, batch, bus, sentAt, writing, replies>> => InOnePlace'
  BY DEF InOnePlace, Held
<1>5. Logged /\ UNCHANGED <<log, rows, retired>> => Logged'
  BY DEF Logged, Stored
<1> QED BY <1>1, <1>2, <1>3, <1>4, <1>5

\* Events that move on are still in one place.
LEMMA PlacesStay ==
  ASSUME InOnePlace, Held' = Held, UNCHANGED <<sentAt, writing, replies>>
  PROVE  InOnePlace'
<1>1. \A e : Positions(e, Held)' = Positions(e, Held')
  BY DEF Positions
<1> QED BY <1>1 DEF InOnePlace, Positions

\* Rows that are deleted are remembered as retired, and what stays is as it was.
LEMMA RowsRetire ==
  ASSUME Typed, Kept, Logged, NEW cutoff, NEW unfinished, unfinished \subseteq dirty,
         DeleteRows(cutoff, unfinished), UNCHANGED <<log, counts, orphans>>
  PROVE  /\ Kept' /\ Logged' /\ retired' \in [Probes -> RowOrNone]
         /\ dirty' \subseteq unfinished
         /\ \A n \in unfinished \ dirty' : ~Stored(n)'
         /\ \A n \in Probes : Stored(n)' => Stored(n) /\ rows'[n] = rows[n]
<1> DEFINE S == Prunable(cutoff, unfinished)
<1>1. \A n \in S : n \in Probes /\ Stored(n)
  BY DEF Prunable
<1> HIDE DEF S
<1>2. /\ rows' = [n \in Probes |-> IF n \in S THEN NoRow ELSE rows[n]]
      /\ retired' = [n \in Probes |-> IF n \in S THEN rows[n] ELSE retired[n]]
      /\ dirty' = unfinished \ S
  BY DEF DeleteRows, S
<1>3. rows \in [Probes -> RowOrNone] /\ \A n \in Probes : rows[n].duplicates > 0 => rows[n].reply > 0
  BY DEF Kept, Tables
<1>4. rows' \in [Probes -> RowOrNone] /\ retired' \in [Probes -> RowOrNone]
  BY <1>2, <1>3 DEF Typed, RowOrNone
<1>5. rows' \in Tables
  <2>1. ~ (NoRow.duplicates > 0)
    BY DEF NoRow, None
  <2>2. \A n \in Probes : rows'[n].duplicates > 0 => rows'[n].reply > 0
    BY <1>2, <1>3, <2>1
  <2> QED BY <1>4, <2>2 DEF Tables
<1>6. \A n \in Probes : Stored(n)' <=> Stored(n) /\ n \notin S
  BY <1>2 DEF Stored
<1>7. \A n \in Probes : Stored(n)' => rows'[n] = rows[n]
  BY <1>2, <1>6
<1>8. \A n \in dirty' : Stored(n)'
  BY <1>2, <1>6 DEF Kept
<1>9. \A n \in DOMAIN orphans' : ~Stored(n)'
  <2>1. DOMAIN orphans \subseteq Probes
    BY DEF Kept, Keeps
  <2> QED BY <1>6, <2>1 DEF Kept
<1>10. Kept'
  BY <1>2, <1>5, <1>8, <1>9 DEF Kept
<1>11. Logged'
  <2>1. \A n \in Probes : retired'[n] # NoRow <=> n \in S \/ retired[n] # NoRow
    BY <1>1, <1>2 DEF Stored
  <2> QED BY <1>1, <1>6, <2>1 DEF Logged
<1> QED BY <1>1, <1>2, <1>4, <1>6, <1>7, <1>10, <1>11

\* At the start nothing is sent, stored or kept.
LEMMA InitIInv == Init => IInv
<1> SUFFICES ASSUME Init PROVE IInv
  OBVIOUS
<1>1. /\ {MaxProbes, MaxReplies, MaxTime, Senders, BatchSize, MaxOrphans} \subseteq Nat
      /\ NoRow \in RowOrNone
  BY SizeAssumption DEF RowOrNone
<1>2. Typed
  <2>1. Cardinality({}) = 0
    BY FS_EmptySet
  <2>2. <<>> \in Seq(Events) /\ Len(<<>>) = 0
    OBVIOUS
  <2>3. bus \in Seq(Events) /\ batch \in Seq(Events) /\ log \in Seq(Events) /\ Len(batch) <= BatchSize
    BY <1>1, <2>2 DEF Init
  <2>4. writing \subseteq Probes /\ Cardinality(writing) <= Senders
    BY <1>1, <2>1 DEF Init
  <2>5. sentAt \in [Probes -> Nat \cup {None}] /\ replies \in [Probes -> 0 .. MaxReplies]
    BY <1>1 DEF Init
  <2>6. rollup \in [Probes -> RowOrNone] /\ retired \in [Probes -> RowOrNone]
    BY <1>1 DEF Init
  <2>7. clock \in 0 .. MaxTime /\ stage \in 0 .. 2
    BY <1>1 DEF Init
  <2> QED BY <2>3, <2>4, <2>5, <2>6, <2>7 DEF Init, Typed
<1>3. Kept
  <2>1. rows \in Tables
    <3>1. ~ (NoRow.duplicates > 0)
      BY DEF NoRow, None
    <3> QED BY <1>1, <3>1 DEF Init, Tables
  <2>2. orphans \in Keeps /\ DOMAIN orphans = {}
    <3>1. Cardinality({}) = 0
      BY FS_EmptySet
    <3>2. orphans \in [{} -> Entries] /\ DOMAIN orphans = {}
      BY DEF Init
    <3> QED BY <1>1, <3>1, <3>2, SMTT(30) DEF Keeps
  <2> QED BY <2>1, <2>2 DEF Init, Kept, Counters
<1>4. Summed /\ Running
  BY DEF Init, Summed, Running, Stored
<1>5. InOnePlace
  <2>1. Held = <<>> /\ <<>> \in Seq(Events)
    BY DEF Init, Held
  <2>2. \A e : Cardinality(Positions(e, Held)) = 0
    <3>1. \A e : Positions(e, <<>>) = {}
      BY DEF Positions
    <3> QED BY <2>1, <3>1, FS_EmptySet
  <2> QED BY <2>2 DEF Init, InOnePlace
<1>6. Logged
  BY DEF Init, Logged, Stored, Range
<1> QED BY <1>2, <1>3, <1>4, <1>5, <1>6 DEF IInv

\* A transaction that commits: the log grows by the batch, and the tables by
\* the rows in it.
LEMMA CommitStep == IInv /\ Commit => IInv'
<1> SUFFICES ASSUME IInv, Commit PROVE IInv'
  OBVIOUS
<1>1. Typed /\ Kept /\ Summed /\ Running /\ InOnePlace /\ Logged
  BY DEF IInv
<1>2. clock \in Nat /\ batch \in Seq(Events) /\ log \in Seq(Events) /\ bus \in Seq(Events)
  BY <1>1, SizeAssumption DEF Typed
<1>3. PICK w : w = After[Len(batch)]
  OBVIOUS
<1>4. /\ Sound(w) /\ dirty \subseteq w.dirty
      /\ \A m \in Probes \ w.dirty : There(w, m) => Stored(m)
      /\ ~w.failed =>
           \A m \in Probes : There(w, m) <=> Stored(m) \/ \E j \in 1 .. Len(batch) : batch[j] = Row(m)
  <2>1. Len(batch) \in 0 .. Len(batch)
    BY <1>2, LenProperties
  <2>2. Follows(Len(batch))
    BY <1>1, <1>2, <2>1, WorldIsSound, BatchApplies
  <2> QED BY <1>3, <2>2 DEF Follows
<1>5. /\ ~w.failed /\ rows' = w.rows /\ counts' = w.counts /\ orphans' = w.orphans
      /\ dirty' = w.dirty
  BY <1>3 DEF Commit
<1>6. /\ log' = log \o batch /\ batch' = <<>> /\ pc' = "expire" /\ stage' = 0
      /\ UNCHANGED <<clock, cancelled, space, envVars, ready, rollup, prunedThrough, retired>>
  BY DEF Commit
<1>7. \A m : There(w, m) <=> Stored(m)'
  BY <1>5 DEF There, Stored
<1>8. Typed'
  <2>1. log \o batch \in Seq(Events) /\ <<>> \in Seq(Events) /\ Len(<<>>) = 0
    BY <1>2, ConcatProperties
  <2> QED BY <1>1, <1>6, <2>1, SizeAssumption, SMTT(30) DEF Typed, envVars
<1>9. Kept'
  BY <1>4, <1>5, <1>7 DEF Kept, Sound, Worlds, Keeps
<1>10. Summed'
  BY <1>1, <1>4, <1>5, <1>6, <1>7 DEF Summed
<1>11. Running'
  BY <1>1, <1>6 DEF Running, envVars
<1>12. InOnePlace'
  <2>1. ((log \o batch) \o <<>>) \o bus = (log \o batch) \o bus
    BY <1>2, HeldMoves
  <2>2. Held' = Held
    BY <1>6, <2>1 DEF Held, envVars
  <2> QED BY <1>1, <1>6, <2>2, PlacesStay DEF envVars
<1>13. Logged'
  <2>1. Range(log') = Range(log) \cup Range(batch)
    BY <1>2, <1>6, RangeConcatenation
  <2>2. \A e : e \in Range(batch) <=> \E j \in 1 .. Len(batch) : batch[j] = e
    BY <1>2, LenProperties DEF Range
  <2>3. \A m \in Probes : There(w, m) <=> Stored(m) \/ Row(m) \in Range(batch)
    BY <1>4, <1>5, <2>2
  <2> QED BY <1>1, <1>6, <1>7, <2>1, <2>3 DEF Logged
<1> QED BY <1>8, <1>9, <1>10, <1>11, <1>12, <1>13 DEF IInv

\* An event that is published is one more, and the only one of its kind.
LEMMA PublishStep ==
  ASSUME IInv, NEW e \in Events, bus' = Append(bus, e), UNCHANGED <<log, batch>>
  PROVE  /\ bus' \in Seq(Events)
         /\ \A d : Cardinality(Positions(d, Held)') =
                     Cardinality(Positions(d, Held)) + (IF e = d THEN 1 ELSE 0)
         /\ \A d : Cardinality(Positions(d, Held)) \in Nat
<1>1. bus \in Seq(Events) /\ batch \in Seq(Events) /\ log \in Seq(Events)
  BY DEF IInv, Typed
<1>2. Held \in Seq(Events)
  BY <1>1, ConcatProperties DEF Held
<1>3. Held' = Append(Held, e)
  BY <1>1, HeldMoves DEF Held
<1>4. \A d : Positions(d, Held)' = Positions(d, Held')
  BY DEF Positions
<1> QED BY <1>1, <1>2, <1>3, <1>4, PositionsAppend, AppendProperties

\* The send loops, the receive loops and the application.
LEMMA EnvironmentStep == IInv /\ Environment => IInv'
<1> SUFFICES ASSUME IInv, Environment PROVE IInv'
  OBVIOUS
<1>1. Typed /\ Kept /\ Summed /\ Running /\ InOnePlace /\ Logged
  BY DEF IInv
<1>2. ASSUME NEW n \in Probes, Send(n) PROVE IInv'
  <2>1. n \notin writing /\ sentAt[n] = None
    BY <1>1, <1>2 DEF Running, Send
  <2>2. clock \in Nat /\ clock # None
    BY <1>1, SizeAssumption DEF Typed, None
  <2>3. sentAt' = [sentAt EXCEPT ![n] = clock] /\ writing' = writing \cup {n}
    BY <1>2 DEF Send
  <2>4. Cardinality(writing') <= Senders
    <3>1. IsFiniteSet(writing)
      BY <1>1, ProbesAreFinite, FS_Subset DEF Typed
    <3>2. Cardinality(writing') = Cardinality(writing) + 1
      BY <2>1, <2>3, <3>1, FS_AddElement
    <3> QED BY <1>2, <3>1, <3>2, FS_CardinalityType, SizeAssumption DEF Send
  <2>5. Typed'
    BY <1>1, <1>2, <2>2, <2>3, <2>4 DEF Typed, Send, runVars, dbVars, pruneVars
  <2>6. Running'
    BY <1>1, <1>2, <2>2, <2>3 DEF Running, Send, runVars, Typed
  <2>7. InOnePlace'
    <3>1. Held' = Held
      BY <1>2 DEF Send, runVars, Held
    <3>2. \A e : Positions(e, Held)' = Positions(e, Held)
      BY <3>1 DEF Positions
    <3>3. \A m \in Probes : (sentAt[m] = None \/ m \in writing)
                              <=> (sentAt'[m] = None \/ m \in writing')
      BY <1>1, <2>1, <2>3 DEF Typed
    <3> QED BY <1>1, <1>2, <3>2, <3>3 DEF InOnePlace, Send
  <2> QED BY <1>1, <1>2, <2>5, <2>6, <2>7, Undisturbed DEF IInv, Send, runVars, dbVars, pruneVars
<1>3. ASSUME NEW n \in Probes, PublishRow(n) PROVE IInv'
  <2>1. n \in writing /\ sentAt[n] # None /\ ~closed
    BY <1>1, <1>3 DEF Running, PublishRow
  <2>2. writing' = writing \ {n} /\ bus' = Append(bus, Row(n)) /\ Row(n) \in Events
    BY <1>3 DEF PublishRow, Events
  <2>3. /\ bus' \in Seq(Events)
        /\ \A d : Cardinality(Positions(d, Held)') =
                    Cardinality(Positions(d, Held)) + (IF Row(n) = d THEN 1 ELSE 0)
        /\ \A d : Cardinality(Positions(d, Held)) \in Nat
    BY <1>3, <2>2, PublishStep DEF PublishRow, runVars
  <2>4. Cardinality(writing') <= Senders
    <3>1. IsFiniteSet(writing)
      BY <1>1, ProbesAreFinite, FS_Subset DEF Typed
    <3>2. Cardinality(writing') = Cardinality(writing) - 1
      BY <2>1, <2>2, <3>1, FS_RemoveElement
    <3> QED BY <1>1, <3>1, <3>2, FS_CardinalityType, SizeAssumption, SMTT(30) DEF Typed
  <2>5. Typed'
    BY <1>1, <1>3, <2>2, <2>3, <2>4 DEF Typed, PublishRow, runVars, dbVars, pruneVars
  <2>6. Running'
    BY <1>1, <1>3, <2>1, <2>2 DEF Running, PublishRow, runVars
  <2>7. InOnePlace'
    <3>1. \A m : (Row(n) = Row(m)) <=> n = m
      BY DEF Row
    <3>2. \A m, k : Row(n) # Reply(m, k)
      BY DEF Row, Reply
    <3>3. \A m \in Probes : (sentAt'[m] = None \/ m \in writing')
                              <=> (sentAt[m] = None \/ m \in writing) /\ m # n
      BY <1>3, <2>1, <2>2 DEF PublishRow
    <3>4. \A m \in Probes : Cardinality(Positions(Row(m), Held)') =
            IF sentAt'[m] = None \/ m \in writing' THEN 0 ELSE 1
      BY <1>1, <2>1, <2>3, <3>1, <3>3 DEF InOnePlace
    <3>5. \A m \in Probes : \A k \in 1 .. MaxReplies :
            Cardinality(Positions(Reply(m, k), Held)') = IF k <= replies'[m] THEN 1 ELSE 0
      BY <1>1, <1>3, <2>3, <3>2 DEF InOnePlace, PublishRow
    <3> QED BY <3>4, <3>5 DEF InOnePlace, Positions
  <2> QED BY <1>1, <1>3, <2>5, <2>6, <2>7, Undisturbed DEF IInv, PublishRow, runVars, dbVars, pruneVars
<1>4. ASSUME NEW n \in Probes, PublishReply(n) PROVE IInv'
  <2>1. /\ ~closed /\ replies[n] \in 0 .. MaxReplies /\ replies[n] + 1 \in 1 .. MaxReplies
        /\ replies' = [replies EXCEPT ![n] = @ + 1]
    BY <1>1, <1>4, SizeAssumption, SMTT(30) DEF Typed, PublishReply
  <2>2. PICK e : e = Reply(n, replies[n] + 1)
    OBVIOUS
  <2>3. e \in Events /\ bus' = Append(bus, e)
    BY <1>4, <2>1, <2>2 DEF PublishReply, Events
  <2>4. /\ bus' \in Seq(Events)
        /\ \A d : Cardinality(Positions(d, Held)') =
                    Cardinality(Positions(d, Held)) + (IF e = d THEN 1 ELSE 0)
        /\ \A d : Cardinality(Positions(d, Held)) \in Nat
    BY <1>4, <2>3, PublishStep DEF PublishReply, runVars
  <2>5. Typed'
    BY <1>1, <1>4, <2>1, <2>4 DEF Typed, PublishReply, runVars, dbVars, pruneVars
  <2>6. Running'
    BY <1>1, <1>4, <2>1 DEF Running, PublishReply, runVars
  <2>7. InOnePlace'
    <3>1. \A m, k : (e = Reply(m, k)) <=> m = n /\ k = replies[n] + 1
      BY <2>2 DEF Reply
    <3>2. \A m : e # Row(m)
      BY <2>2 DEF Row, Reply
    <3>3. \A m \in Probes : replies'[m] = IF m = n THEN replies[m] + 1 ELSE replies[m]
      BY <1>1, <2>1 DEF Typed
    <3>4. \A m \in Probes : Cardinality(Positions(Row(m), Held)') =
            IF sentAt'[m] = None \/ m \in writing' THEN 0 ELSE 1
      BY <1>1, <1>4, <2>4, <3>2 DEF InOnePlace, PublishReply
    <3>5. \A m \in Probes : \A k \in 1 .. MaxReplies :
            Cardinality(Positions(Reply(m, k), Held)') = IF k <= replies'[m] THEN 1 ELSE 0
      <4> SUFFICES ASSUME NEW m \in Probes, NEW k \in 1 .. MaxReplies
                   PROVE  Cardinality(Positions(Reply(m, k), Held)') = IF k <= replies'[m] THEN 1 ELSE 0
        OBVIOUS
      <4>1. replies[m] \in Nat /\ k \in Nat
        BY <1>1, SizeAssumption DEF Typed
      <4>2. Cardinality(Positions(Reply(m, k), Held)) = IF k <= replies[m] THEN 1 ELSE 0
        BY <1>1 DEF InOnePlace
      <4> QED BY <2>4, <3>1, <3>3, <4>1, <4>2
    <3> QED BY <3>4, <3>5 DEF InOnePlace, Positions
  <2> QED BY <1>1, <1>4, <2>5, <2>6, <2>7, Undisturbed DEF IInv, PublishReply, runVars, dbVars, pruneVars
<1>5. CASE Close
  <2>1. Typed' /\ Running'
    BY <1>1, <1>5 DEF Typed, Running, Close, Prompt, runVars, dbVars, pruneVars
  <2> QED BY <1>1, <1>5, <2>1, Undisturbed DEF IInv, Close, runVars, dbVars, pruneVars
<1>6. CASE CancelWriter
  <2>1. Typed' /\ Running'
    BY <1>1, <1>6 DEF Typed, Running, CancelWriter, envVars, runVars, dbVars, pruneVars
  <2> QED BY <1>1, <1>6, <2>1, Undisturbed DEF IInv, CancelWriter, envVars, runVars, dbVars, pruneVars
<1>7. CASE SpaceChanges
  <2>1. Typed'
    BY <1>1, <1>7 DEF Typed, SpaceChanges, envVars, runVars, dbVars, pruneVars
  <2> QED BY <1>1, <1>7, <2>1, Undisturbed DEF IInv, SpaceChanges, envVars, runVars, dbVars, pruneVars
<1>8. CASE Tick
  <2>1. Typed'
    BY <1>1, <1>8, SizeAssumption, SMTT(30) DEF Typed, Tick, envVars, runVars, dbVars, pruneVars
  <2> QED BY <1>1, <1>8, <2>1, Undisturbed DEF IInv, Tick, envVars, runVars, dbVars, pruneVars
<1> QED BY <1>2, <1>3, <1>4, <1>5, <1>6, <1>7, <1>8 DEF Environment

\* Control moves on, or the writer fails: nothing that is stored changes.
LEMMA Moves ==
  ASSUME IInv, NEW next,
         next \in {"next", "collect", "apply", "recover", "paused", "expire",
                   "pressed", "returned", "failed"},
         pc' = next, stage' \in 0 .. 2, ready' \in BOOLEAN,
         next \in {"next", "expire", "pressed"} => batch = <<>>,
         next = "returned" /\ ~cancelled => closed /\ bus = <<>> /\ batch = <<>>,
         UNCHANGED <<clock, cancelled, space, envVars, batch, log, rows, dirty,
                     rollup, retired, counts, orphans>>
  PROVE  IInv'
<1>1. Typed /\ Kept /\ Summed /\ Running /\ InOnePlace /\ Logged
  BY DEF IInv
<1>2. Typed'
  BY <1>1 DEF Typed, envVars
<1>3. Running'
  BY <1>1 DEF Running, envVars
<1> QED BY <1>1, <1>2, <1>3, Undisturbed DEF IInv, envVars

\* Rows are deleted, after the minutes in some set were recomputed.
LEMMA PruneStep ==
  ASSUME IInv, NEW cutoff, NEW done, done \subseteq dirty,
         DeleteRows(cutoff, dirty \ done),
         rollup' = [n \in Probes |-> IF n \in done THEN rows[n] ELSE rollup[n]],
         pc' = pc \/ pc' = "paused" \/ (batch = <<>> /\ pc' \in {"next", "pressed"}),
         stage' \in 0 .. 2, ready' \in BOOLEAN,
         UNCHANGED <<clock, cancelled, space, envVars, batch, log, counts, orphans>>
  PROVE  IInv'
<1>1. Typed /\ Kept /\ Summed /\ Running /\ InOnePlace /\ Logged
  BY DEF IInv
<1> DEFINE U == dirty \ done
<1>2. U \subseteq dirty /\ DeleteRows(cutoff, U)
  OBVIOUS
<1> HIDE DEF U
<1>3. /\ Kept' /\ Logged' /\ retired' \in [Probes -> RowOrNone]
      /\ dirty' \subseteq U
      /\ \A n \in U \ dirty' : ~Stored(n)'
      /\ \A n \in Probes : Stored(n)' => Stored(n) /\ rows'[n] = rows[n]
  BY <1>1, <1>2, RowsRetire
<1>4. Typed'
  <2>1. rollup' \in [Probes -> RowOrNone]
    BY <1>1 DEF Typed, Kept, Tables
  <2> QED BY <1>1, <1>3, <2>1 DEF Typed, envVars
<1>5. Summed'
  <2> SUFFICES ASSUME NEW n \in Probes, n \notin dirty', Stored(n)'
               PROVE  rollup'[n] # NoRow
    BY DEF Summed
  <2>1. Stored(n) /\ n \notin U
    BY <1>3
  <2>2. CASE n \in done
    BY <2>1, <2>2 DEF Stored
  <2>3. CASE n \notin done
    BY <1>1, <2>1, <2>3 DEF Summed, U
  <2> QED BY <2>2, <2>3
<1>6. Running'
  BY <1>1 DEF Running, envVars
<1> QED BY <1>1, <1>3, <1>4, <1>5, <1>6, Undisturbed DEF IInv, envVars

\* The raw rows alone: no minute is recomputed.
LEMMA PruneOnly ==
  ASSUME IInv, NEW cutoff, DeleteRows(cutoff, dirty), rollup' = rollup,
         pc' = pc \/ pc' = "paused" \/ (batch = <<>> /\ pc' \in {"next", "pressed"}),
         stage' \in 0 .. 2, ready' \in BOOLEAN,
         UNCHANGED <<clock, cancelled, space, envVars, batch, log, counts, orphans>>
  PROVE  IInv'
<1>1. PICK done : done = {}
  OBVIOUS
<1>2. done \subseteq dirty /\ dirty \ done = dirty
  BY <1>1
<1>3. rollup' = [n \in Probes |-> IF n \in done THEN rows[n] ELSE rollup[n]]
  BY <1>1 DEF IInv, Typed
<1>4. DeleteRows(cutoff, dirty \ done)
  BY <1>2
<1> QED BY <1>2, <1>3, <1>4, PruneStep

\* The writer itself.
LEMMA WriterKeeps == IInv /\ WriterStep => IInv'
<1> SUFFICES ASSUME IInv, WriterStep PROVE IInv'
  OBVIOUS
<1>1. Typed /\ Kept /\ Summed /\ Running /\ InOnePlace /\ Logged
  BY DEF IInv
<1>2. bus \in Seq(Events) /\ batch \in Seq(Events) /\ log \in Seq(Events)
      /\ ready \in BOOLEAN /\ stage \in 0 .. 2
  BY <1>1 DEF Typed
<1>3. CASE TakeFirst
  <2>1. batch = <<>> /\ bus # <<>> /\ batch' = <<Head(bus)>> /\ bus' = Tail(bus) /\ pc' = "collect"
    BY <1>1, <1>3 DEF TakeFirst, Running
  <2>2. Head(bus) \in Events /\ Tail(bus) \in Seq(Events)
    BY <1>2, <2>1, HeadTailProperties
  <2>3. <<Head(bus)>> \in Seq(Events) /\ Len(<<Head(bus)>>) = 1
    BY <2>2
  <2>4. 1 <= BatchSize
    BY SizeAssumption, RetentionAssumption
  <2>5. Typed' /\ Running'
    BY <1>1, <1>3, <2>1, <2>2, <2>3, <2>4
       DEF Typed, Running, TakeFirst, collecting, dbVars, pruneVars
  <2>6. InOnePlace'
    BY <1>1, <1>2, <1>3, <2>1, HeldMoves, PlacesStay DEF Held, TakeFirst, collecting
  <2> QED BY <1>1, <1>3, <2>5, <2>6, Undisturbed
         DEF IInv, TakeFirst, collecting, dbVars, pruneVars
<1>4. CASE Collect
  <2>1. /\ bus # <<>> /\ batch' = Append(batch, Head(bus)) /\ bus' = Tail(bus)
        /\ pc = "collect" /\ pc' = pc /\ Len(batch) < BatchSize
    BY <1>4 DEF Collect
  <2>2. Head(bus) \in Events /\ Tail(bus) \in Seq(Events)
    BY <1>2, <2>1, HeadTailProperties
  <2>3. batch' \in Seq(Events) /\ Len(batch') = Len(batch) + 1
    BY <1>2, <2>1, <2>2, AppendProperties
  <2>4. Len(batch') <= BatchSize
    BY <1>2, <2>1, <2>3, SizeAssumption, LenProperties, SMTT(30)
  <2>5. Typed' /\ Running'
    BY <1>1, <1>4, <2>1, <2>2, <2>3, <2>4
       DEF Typed, Running, Collect, collecting, dbVars, pruneVars
  <2>6. InOnePlace'
    <3>1. (log \o Append(batch, Head(bus))) \o Tail(bus) = (log \o batch) \o bus
      BY <1>2, <2>1, HeldCollects
    <3>2. Held' = Held
      BY <1>4, <2>1, <3>1 DEF Held, Collect, collecting
    <3> QED BY <1>1, <1>4, <3>2, PlacesStay DEF Collect, collecting
  <2> QED BY <1>1, <1>4, <2>5, <2>6, Undisturbed
         DEF IInv, Collect, collecting, dbVars, pruneVars
<1>5. CASE CollectDone
  BY <1>1, <1>2, <1>5, Moves DEF CollectDone, Goto, dbVars, pruneVars
<1>6. CASE ReturnClosed
  BY <1>1, <1>2, <1>6, Moves DEF ReturnClosed, Goto, dbVars, pruneVars, Running
<1>7. CASE ReturnCancelled
  BY <1>1, <1>2, <1>7, Moves DEF ReturnCancelled, Goto, dbVars, pruneVars
<1>8. CASE Commit
  BY <1>8, CommitStep
<1>9. CASE OrphanLimit
  BY <1>1, <1>2, <1>9, Moves DEF OrphanLimit, Fail, dbVars, pruneVars
<1>10. CASE Full
  BY <1>1, <1>2, <1>10, Moves DEF Full, FindsFull, Restored
<1>11. CASE PruneRaw
  BY <1>2, <1>11, PruneOnly DEF PruneRaw, FindsFull, Restored, Prune
<1>12. CASE PruneRawHalf
  BY <1>2, <1>12, PruneOnly DEF PruneRawHalf, FindsFull, Restored
<1>13. CASE PruneRest
  BY <1>1, <1>2, <1>13, Moves DEF PruneRest, FindsFull, Restored
<1>14. CASE Pause
  <2>1. pc' = "paused" /\ stage' = 0 /\ ready' = FALSE
        /\ UNCHANGED <<clock, cancelled, space, envVars, batch, log>> /\ UNCHANGED dbVars
    BY <1>14 DEF Pause
  <2>2. UNCHANGED <<rows, dirty, rollup, retired, counts, orphans>>
    BY <2>1 DEF dbVars, pruneVars
  <2>3. stage' \in 0 .. 2
    BY <2>1
  <2>4. ready' \in BOOLEAN
    BY <2>1
  <2> QED BY <2>1, <2>2, <2>3, <2>4, Moves
<1>15. CASE Retry
  BY <1>1, <1>2, <1>15, Moves DEF Retry, Goto, dbVars, pruneVars
<1>16. CASE ExpireOrphans
  <2>1. /\ pc = "expire" /\ pc' = "next"
        /\ orphans' = [n \in DOMAIN orphans \ Expired |-> orphans[n]]
        /\ counts' = [counts EXCEPT !.late = @ + Cardinality(Expired)]
    BY <1>16 DEF ExpireOrphans, Restrict
  <2>2. Cardinality(Expired) \in Nat
    <3>1. Expired \subseteq Probes
      BY <1>1 DEF Expired, Kept, Keeps
    <3> QED BY <3>1, ProbesAreFinite, FS_Subset, FS_CardinalityType
  <2>3. orphans' \in Keeps /\ DOMAIN orphans' = DOMAIN orphans \ Expired
    BY <1>1, <2>1, KeepsShrink DEF Kept
  <2>4. counts' \in Counters
    BY <1>1, <2>1, <2>2 DEF Kept, Counters
  <2>5. Kept'
    BY <1>1, <1>16, <2>3, <2>4 DEF Kept, ExpireOrphans, pruneVars, Stored
  <2>6. Typed' /\ Running'
    BY <1>1, <1>16 DEF Typed, Running, ExpireOrphans, pruneVars, envVars
  <2> QED BY <1>1, <1>16, <2>5, <2>6, Undisturbed DEF IInv, ExpireOrphans, pruneVars, envVars
<1>17. CASE OrphanExpires
  BY <1>1, <1>2, <1>17, Moves DEF OrphanExpires, Fail, dbVars, pruneVars
<1>18. CASE ExpireFails
  BY <1>1, <1>2, <1>18, Moves DEF ExpireFails, Fail, dbVars, pruneVars
<1>19. CASE Maintain
  <2>1. batch = <<>> /\ pc' \in {"next", "pressed"} /\ Eligible \subseteq dirty
    BY <1>1, <1>19 DEF Maintain, Running, Eligible
  <2> QED BY <1>2, <1>19, <2>1, PruneStep DEF Maintain, Prune
<1>20. CASE Relieve
  <2>1. batch = <<>>
    BY <1>1, <1>20 DEF Relieve, Running
  <2> QED BY <1>2, <1>20, <2>1, PruneOnly DEF Relieve, Prune
<1>21. CASE RelieveNot
  <2>1. batch = <<>>
    BY <1>1, <1>21 DEF RelieveNot, Running
  <2> QED BY <1>2, <1>21, <2>1, Moves DEF RelieveNot, dbVars, pruneVars
<1>22. CASE MaintainFails
  BY <1>1, <1>2, <1>22, Moves DEF MaintainFails, Fail, dbVars, pruneVars
<1> QED BY <1>3, <1>4, <1>5, <1>6, <1>7, <1>8, <1>9, <1>10, <1>11, <1>12, <1>13, <1>14,
           <1>15, <1>16, <1>17, <1>18, <1>19, <1>20, <1>21, <1>22 DEF WriterStep

\* The invariant is inductive.
LEMMA Inductive == Spec => []IInv
<1>1. IInv /\ [Next]_vars => IInv'
  <2>1. IInv /\ UNCHANGED vars => IInv'
    <3> SUFFICES ASSUME IInv, UNCHANGED vars PROVE IInv'
      OBVIOUS
    <3>1. pc \in {"next", "collect", "apply", "recover", "paused", "expire",
                  "pressed", "returned", "failed"}
          /\ stage \in 0 .. 2 /\ ready \in BOOLEAN
          /\ (pc \in {"next", "expire", "pressed"} => batch = <<>>)
          /\ (pc = "returned" /\ ~cancelled => closed /\ bus = <<>> /\ batch = <<>>)
      BY DEF IInv, Typed, Running
    <3> QED BY <3>1, Moves DEF vars, runVars, dbVars, pruneVars
  <2> QED BY <2>1, WriterKeeps, EnvironmentStep DEF Next
<1> QED BY <1>1, InitIInv, PTL DEF Spec
-----------------------------------------------------------------------------
(* What follows.                                                           *)

\* A batch never exceeds its size, kept replies never exceed their limit, and
\* only stored minutes are dirty or rolled up.
THEOREM TypeCorrect == Spec => []TypeOK
<1>1. IInv => TypeOK
  <2> SUFFICES ASSUME IInv PROVE TypeOK
    OBVIOUS
  <2>1. Typed /\ Kept /\ Summed
    BY DEF IInv
  <2>2. Range(bus) \cup Range(batch) \cup Range(log) \subseteq Events
    <3>1. \A s \in Seq(Events) : Range(s) \subseteq Events
      BY LenProperties, ElementOfSeq DEF Range
    <3> QED BY <2>1, <3>1 DEF Typed
  <2>3. /\ rows \in [Probes -> RowOrNone]
        /\ \A n \in Probes : rows[n].duplicates > 0 => rows[n].reply > 0
    BY <2>1 DEF Kept, Tables
  <2>4. DOMAIN orphans \subseteq Probes /\ Cardinality(DOMAIN orphans) <= MaxOrphans
    BY <2>1 DEF Kept, Keeps
  <2>5. dirty \subseteq {n \in Probes : Stored(n)}
    BY <2>1 DEF Kept
  <2> QED BY <2>1, <2>2, <2>3, <2>4, <2>5 DEF Typed, Summed, TypeOK
<1> QED BY <1>1, Inductive, PTL

\* The replies of a probe are numbered without a gap: what is stored of them
\* when all of them are is as many as there were.
LEMMA RepliesCounted ==
  ASSUME IInv, Held = log, NEW n \in Probes
  PROVE  Cardinality({e \in RepliesIn(log) : e.probe = n}) = replies[n]
<1>1. log \in Seq(Events) /\ replies[n] \in 0 .. MaxReplies
  BY DEF IInv, Typed
<1>2. \A k \in 1 .. MaxReplies : Reply(n, k) \in Range(log) <=> k <= replies[n]
  <2>1. \A k \in 1 .. MaxReplies :
          Cardinality(Positions(Reply(n, k), log)) = IF k <= replies[n] THEN 1 ELSE 0
    BY DEF IInv, InOnePlace
  <2> QED BY <1>1, <2>1, PositionsOf
<1>3. \A e \in Range(log) : e \in Events
  BY <1>1, LenProperties, ElementOfSeq DEF Range
<1> DEFINE R == {e \in RepliesIn(log) : e.probe = n}
           N == 1 .. replies[n]
           f == [k \in N |-> Reply(n, k)]
<1>4. replies[n] \in Nat /\ MaxReplies \in Nat /\ N \subseteq 1 .. MaxReplies
  BY <1>1, SizeAssumption
<1>5. \A k \in N : f[k] \in R
  BY <1>2, <1>4 DEF RepliesIn, Reply
<1>6. \A k, l \in N : f[k] = f[l] => k = l
  BY DEF Reply
<1>7. \A e \in R : \E k \in N : f[k] = e
  <2> SUFFICES ASSUME NEW e \in R PROVE \E k \in N : f[k] = e
    OBVIOUS
  <2>1. e \in Range(log) /\ e.kind = "reply" /\ e.probe = n /\ e \in Events
    BY <1>3 DEF RepliesIn
  <2>2. PICK k \in 1 .. MaxReplies : e = Reply(n, k)
    BY <2>1 DEF Events, Row, Reply
  <2>3. k \in N
    BY <1>2, <1>4, <2>1, <2>2
  <2> QED BY <2>2, <2>3
<1> HIDE DEF R
<1>8. f \in Bijection(N, R)
  BY <1>5, <1>6, <1>7 DEF Bijection, Injection, Surjection, IsInjective
<1>9. IsFiniteSet(N) /\ Cardinality(N) = replies[n]
  BY <1>4, FS_Interval, SMTT(30)
<1> QED BY <1>8, <1>9, FS_Bijection DEF R, ExistsBijection

\* Every event that reaches the bus is in one place, the table holds what the
\* log says, and a writer that ends with the bus has stored everything.
THEOREM EventsStoredOnce == Spec => []EventOnce
<1>1. IInv => EventOnce
  <2> SUFFICES ASSUME IInv PROVE EventOnce
    OBVIOUS
  <2>1. InOnePlace /\ Logged /\ Kept /\ Running /\ Typed
    BY DEF IInv
  <2>2. RowsFollowLog
    BY <2>1 DEF RowsFollowLog, Logged, Kept
  <2>3. CloseDrains
    <3> SUFFICES ASSUME pc = "returned", ~cancelled, NEW n \in Probes
                 PROVE  /\ sentAt[n] # None => Row(n) \in Range(log)
                        /\ Cardinality({e \in RepliesIn(log) : e.probe = n}) = replies[n]
      BY DEF CloseDrains
    <3>1. bus = <<>> /\ batch = <<>> /\ writing = {} /\ log \in Seq(Events)
      BY <2>1 DEF Running, Typed
    <3>2. Held = log
      BY <3>1, ConcatEmptySeq DEF Held
    <3>3. sentAt[n] # None => Cardinality(Positions(Row(n), log)) = 1
      BY <2>1, <3>1, <3>2 DEF InOnePlace
    <3> QED BY <3>1, <3>2, <3>3, PositionsOf, RepliesCounted
  <2> QED BY <2>1, <2>2, <2>3 DEF EventOnce
<1> QED BY <1>1, Inductive, PTL
-----------------------------------------------------------------------------
(* Where the replies are: what the tables, the map and the counters say of *)
(* a world, event by event.                                                *)

Of(r) == IF r = NoRow THEN 0 ELSE r.duplicates + (IF r.reply = 0 THEN 0 ELSE 1)
Told(f) == [n \in Probes |-> Of(f[n]) + Of(retired[n])]
Account(w) ==
  SumFunctionOnSet(Told(w.rows), Probes) + Cardinality(DOMAIN w.orphans)
    + w.counts.late + w.counts.mismatch + w.counts.replaced
Retired == retired \in [Probes -> RowOrNone]

\* A row holds a number of replies.
LEMMA RowsHoldReplies ==
  ASSUME NEW r \in RowOrNone
  PROVE  Of(r) \in Nat
BY DEF Of, RowOrNone, NoRow, None

\* One row changes, and the sum by as much.
LEMMA ToldChanges ==
  ASSUME Retired, NEW f \in Tables, NEW g \in Tables, NEW n \in Probes,
         \A m \in Probes : m # n => g[m] = f[m]
  PROVE  /\ SumFunctionOnSet(Told(f), Probes) \in Nat /\ SumFunctionOnSet(Told(g), Probes) \in Nat
         /\ Of(f[n]) \in Nat /\ Of(g[n]) \in Nat
         /\ SumFunctionOnSet(Told(g), Probes)
              = SumFunctionOnSet(Told(f), Probes) + (Of(g[n]) - Of(f[n]))
<1>1. f \in [Probes -> RowOrNone] /\ g \in [Probes -> RowOrNone]
  BY DEF Tables
<1>2. \A m \in Probes : Of(f[m]) \in Nat /\ Of(g[m]) \in Nat /\ Of(retired[m]) \in Nat
  BY <1>1, RowsHoldReplies DEF Retired
<1>3. Told(f) \in [Probes -> Nat] /\ Told(g) \in [Probes -> Nat]
  BY <1>2 DEF Told
<1>4. \A m \in Probes : m # n => Told(g)[m] = Told(f)[m]
  BY DEF Told
<1>5. Told(f)[n] = Of(f[n]) + Of(retired[n]) /\ Told(g)[n] = Of(g[n]) + Of(retired[n])
  BY DEF Told
<1>6. /\ SumFunctionOnSet(Told(f), Probes) \in Nat /\ SumFunctionOnSet(Told(g), Probes) \in Nat
      /\ SumFunctionOnSet(Told(g), Probes)
           = SumFunctionOnSet(Told(f), Probes) + (Told(g)[n] - Told(f)[n])
  BY <1>3, <1>4, ProbesAreFinite, SumFunctionChanges
<1> QED BY <1>2, <1>5, <1>6

\* What a world says are numbers.
LEMMA AccountIsNat ==
  ASSUME Retired, NEW w \in Worlds
  PROVE  /\ SumFunctionOnSet(Told(w.rows), Probes) \in Nat /\ IsFiniteSet(DOMAIN w.orphans)
         /\ Cardinality(DOMAIN w.orphans) \in Nat
         /\ w.counts.late \in Nat /\ w.counts.mismatch \in Nat /\ w.counts.replaced \in Nat
         /\ Account(w) \in Nat
<1>1. w.rows \in Tables /\ w.counts \in Counters /\ DOMAIN w.orphans \subseteq Probes
  BY DEF Worlds, Keeps
<1>2. Told(w.rows) \in [Probes -> Nat]
  <2>1. \A m \in Probes : Of(w.rows[m]) \in Nat /\ Of(retired[m]) \in Nat
    BY <1>1, RowsHoldReplies DEF Retired, Tables
  <2> QED BY <2>1 DEF Told
<1>3. SumFunctionOnSet(Told(w.rows), Probes) \in Nat
  BY <1>2, ProbesAreFinite, SumFunctionIsNat
<1>4. IsFiniteSet(DOMAIN w.orphans) /\ Cardinality(DOMAIN w.orphans) \in Nat
  BY <1>1, ProbesAreFinite, FS_Subset, FS_CardinalityType
<1>5. w.counts.late \in Nat /\ w.counts.mismatch \in Nat /\ w.counts.replaced \in Nat
  BY <1>1 DEF Counters
<1> QED BY <1>3, <1>4, <1>5 DEF Account

\* applyReply accounts for one reply more.
LEMMA AttachAccounts ==
  ASSUME Retired, NEW w, Fits(w), NEW e \in Events, e.kind = "reply", There(w, e.probe),
         NEW v, v = AttachReply(w, e)
  PROVE  v \in Worlds /\ v.orphans = w.orphans /\ Account(v) = Account(w) + 1
<1>1. e.probe \in Probes /\ e.number \in 1 .. MaxReplies
  BY EventKinds
<1>2. Fits(v) /\ v.orphans = w.orphans /\ v \in Worlds /\ w \in Worlds
  BY AttachFits DEF Fits
<1>3. PICK n \in Probes : n = e.probe
  BY <1>1
<1>4. /\ w.rows \in Tables /\ v.rows \in Tables /\ w.counts \in Counters
      /\ w.rows[n] \in [reply : 0 .. MaxReplies, duplicates : Nat]
      /\ w.rows[n] # NoRow /\ w.rows \in [Probes -> RowOrNone]
  BY <1>2, <1>3, Rows DEF Worlds, There, Tables
<1>5. /\ SumFunctionOnSet(Told(w.rows), Probes) \in Nat /\ Cardinality(DOMAIN w.orphans) \in Nat
      /\ w.counts.late \in Nat /\ w.counts.mismatch \in Nat /\ w.counts.replaced \in Nat
  BY <1>2, AccountIsNat
<1>6. CASE n \in Strays
  <2>1. v = [w EXCEPT !.counts.mismatch = @ + 1]
    BY <1>3, <1>6 DEF AttachReply
  <2>2. /\ v.rows = w.rows /\ v.counts = [w.counts EXCEPT !.mismatch = @ + 1]
    BY <1>2, <2>1 DEF Worlds
  <2>3. /\ v.counts.late = w.counts.late /\ v.counts.mismatch = w.counts.mismatch + 1
        /\ v.counts.replaced = w.counts.replaced
    BY <1>4, <2>2 DEF Counters
  <2> QED BY <1>2, <1>5, <2>2, <2>3 DEF Account
<1>7. CASE n \notin Strays
  <2>1. PICK r : r = IF w.rows[n].reply = 0 THEN [w.rows[n] EXCEPT !.reply = e.number]
                     ELSE [w.rows[n] EXCEPT !.duplicates = @ + 1]
    OBVIOUS
  <2>2. v.rows = [w.rows EXCEPT ![n] = r] /\ v.counts = w.counts
    <3>1. CASE w.rows[n].reply = 0
      <4>1. v = [w EXCEPT !.rows[n].reply = e.number, !.dirty = @ \cup {n}]
        BY <1>3, <1>7, <3>1 DEF AttachReply
      <4> QED BY <1>2, <1>4, <2>1, <3>1, <4>1 DEF Worlds
    <3>2. CASE w.rows[n].reply # 0
      <4>1. v = [w EXCEPT !.rows[n].duplicates = @ + 1]
        BY <1>3, <1>7, <3>2 DEF AttachReply
      <4> QED BY <1>2, <1>4, <2>1, <3>2, <4>1 DEF Worlds
    <3> QED BY <3>1, <3>2
  <2>3. v.rows[n] = r /\ \A m \in Probes : m # n => v.rows[m] = w.rows[m]
    BY <1>4, <2>2
  <2>4. Of(r) = Of(w.rows[n]) + 1
    <3>1. r # NoRow
      <4>1. r \in [reply : 0 .. MaxReplies, duplicates : Nat]
        BY <1>1, <1>4, <2>1
      <4>2. r \in RowOrNone
        BY <4>1 DEF RowOrNone
      <4> QED BY <4>1, <4>2, Rows
    <3>2. w.rows[n].reply \in Nat /\ w.rows[n].duplicates \in Nat /\ e.number # 0
      BY <1>1, <1>4
    <3>3. r.duplicates = w.rows[n].duplicates + (IF w.rows[n].reply = 0 THEN 0 ELSE 1) /\ r.reply # 0
      BY <1>4, <2>1, <3>2
    <3> QED BY <1>4, <3>1, <3>2, <3>3 DEF Of
  <2>5. /\ Of(w.rows[n]) \in Nat
        /\ SumFunctionOnSet(Told(v.rows), Probes)
             = SumFunctionOnSet(Told(w.rows), Probes) + (Of(v.rows[n]) - Of(w.rows[n]))
    BY <1>4, <2>3, ToldChanges
  <2>6. SumFunctionOnSet(Told(v.rows), Probes) = SumFunctionOnSet(Told(w.rows), Probes) + 1
    BY <1>5, <2>3, <2>4, <2>5
  <2> QED BY <1>2, <1>5, <2>2, <2>6 DEF Account
<1> QED BY <1>2, <1>6, <1>7

\* insertProbe: a reply that waited for the row is now attached to it.
LEMMA InsertAccounts ==
  ASSUME Retired, NEW w, Sound(w), NEW n \in Probes, ~There(w, n), NEW v, v = InsertProbe(w, n)
  PROVE  /\ v \in Worlds /\ Account(v) = Account(w)
         /\ \A m \in DOMAIN v.orphans : m \in DOMAIN w.orphans /\ v.orphans[m] = w.orphans[m]
<1>1. /\ w.rows \in Tables /\ w.counts \in Counters /\ w.orphans \in Keeps
      /\ w.dirty \in SUBSET Probes /\ w \in Worlds /\ \A m \in w.dirty : There(w, m)
  BY DEF Sound, Worlds
<1>2. v \in Worlds
  BY InsertFits DEF Sound
<1>3. PICK u : u = [w EXCEPT !.rows[n] = NewRow, !.dirty = @ \cup {n}]
  OBVIOUS
<1>4. PICK f : f = [w.rows EXCEPT ![n] = NewRow]
  OBVIOUS
<1>5. f \in Tables /\ f[n] = NewRow /\ f[n] # NoRow /\ \A m \in Probes : m # n => f[m] = w.rows[m]
  <2>1. /\ DOMAIN f = Probes /\ f[n] = NewRow /\ f = [m \in DOMAIN f |-> f[m]]
        /\ \A m \in Probes : m # n => f[m] = w.rows[m]
    BY <1>1, <1>4 DEF Tables
  <2>2. NewRow \in [reply : 0 .. MaxReplies, duplicates : Nat] /\ NewRow.duplicates = 0
    BY SizeAssumption DEF NewRow
  <2> HIDE DEF NewRow
  <2> QED BY <1>1, <2>1, <2>2, TablesChange
<1>6. /\ u.rows = f /\ u.dirty = w.dirty \cup {n} /\ u.orphans = w.orphans
      /\ u.counts = w.counts /\ u \in Worlds
  BY <1>1, <1>3, <1>4, <1>5 DEF Worlds
<1>7. Account(u) = Account(w)
  <2>1. Of(f[n]) = 0 /\ Of(w.rows[n]) = 0
    BY <1>5 DEF Of, NewRow, There
  <2>2. SumFunctionOnSet(Told(f), Probes) = SumFunctionOnSet(Told(w.rows), Probes)
    BY <1>1, <1>5, <2>1, ToldChanges
  <2> QED BY <1>6, <2>2 DEF Account
<1>8. CASE n \notin DOMAIN w.orphans
  <2>1. v = u
    BY <1>3, <1>8 DEF InsertProbe
  <2> QED BY <1>2, <1>6, <1>7, <2>1
<1>9. CASE n \in DOMAIN w.orphans
  <2>1. PICK e : e = w.orphans[n].event
    OBVIOUS
  <2>2. e \in Events /\ e.kind = "reply" /\ e.probe = n
    BY <1>1, <1>9, <2>1 DEF Keeps, Entries
  <2>3. Fits(u) /\ There(u, n)
    BY <1>1, <1>5, <1>6 DEF Fits, There
  <2>4. PICK x : x = AttachReply(u, e)
    OBVIOUS
  <2>5. x \in Worlds /\ x.orphans = w.orphans /\ Account(x) = Account(w) + 1
    BY <1>6, <1>7, <2>2, <2>3, <2>4, AttachAccounts
  <2>6. v = [x EXCEPT !.orphans = Without(@, n)]
    BY <1>3, <1>9, <2>1, <2>4 DEF InsertProbe
  <2>7. /\ v.rows = x.rows /\ v.counts = x.counts
        /\ v.orphans = [m \in DOMAIN w.orphans \ {n} |-> w.orphans[m]]
    BY <2>5, <2>6 DEF Worlds, Without
  <2>8. Cardinality(DOMAIN v.orphans) = Cardinality(DOMAIN w.orphans) - 1
    <3>1. IsFiniteSet(DOMAIN w.orphans) /\ DOMAIN v.orphans = DOMAIN w.orphans \ {n}
      BY <1>1, <2>7, AccountIsNat
    <3> QED BY <1>9, <3>1, FS_RemoveElement
  <2>9. Account(v) = Account(w)
    <3>1. /\ Account(x) \in Nat /\ Account(w) \in Nat
          /\ SumFunctionOnSet(Told(x.rows), Probes) \in Nat /\ Cardinality(DOMAIN w.orphans) \in Nat
          /\ x.counts.late \in Nat /\ x.counts.mismatch \in Nat /\ x.counts.replaced \in Nat
      BY <1>1, <2>5, AccountIsNat
    <3>2. Account(v) = SumFunctionOnSet(Told(x.rows), Probes) + (Cardinality(DOMAIN w.orphans) - 1)
                         + x.counts.late + x.counts.mismatch + x.counts.replaced
      BY <2>7, <2>8 DEF Account
    <3>3. Account(x) = SumFunctionOnSet(Told(x.rows), Probes) + Cardinality(DOMAIN w.orphans)
                         + x.counts.late + x.counts.mismatch + x.counts.replaced
      BY <2>5 DEF Account
    <3>4. PICK a \in Nat, b \in Nat, c \in Nat, d \in Nat, r \in Nat :
            /\ a = SumFunctionOnSet(Told(x.rows), Probes) /\ b = Cardinality(DOMAIN w.orphans)
            /\ c = x.counts.late /\ d = x.counts.mismatch /\ r = x.counts.replaced
      BY <3>1
    <3>5. Account(v) = a + (b - 1) + c + d + r /\ Account(x) = a + b + c + d + r
      BY <3>2, <3>3, <3>4
    <3> QED BY <2>5, <3>1, <3>5
  <2>10. \A m \in DOMAIN v.orphans : m \in DOMAIN w.orphans /\ v.orphans[m] = w.orphans[m]
    BY <2>7
  <2> QED BY <1>2, <2>9, <2>10
<1> QED BY <1>8, <1>9

\* A reply without a row is counted, or kept: in the place of another, if there
\* was one, which is then a reply replaced.
LEMMA KeepAccounts ==
  ASSUME Retired, NEW w, Sound(w), NEW e \in Events, e.kind = "reply", ~There(w, e.probe),
         clock \in Nat, NEW v, v = KeepReply(w, e), ~v.failed
  PROVE  /\ v \in Worlds
         /\ Account(v) = Account(w) + 1
         /\ \A m \in DOMAIN v.orphans :
              v.orphans[m].event = e \/ (m \in DOMAIN w.orphans /\ v.orphans[m] = w.orphans[m])
<1>1. w.counts \in Counters /\ w.orphans \in Keeps /\ w \in Worlds
  BY DEF Sound, Worlds
<1>2. PICK n \in Probes : n = e.probe
  BY EventKinds
<1>3. v \in Worlds
  BY KeepFits DEF Sound
<1>4. /\ SumFunctionOnSet(Told(w.rows), Probes) \in Nat /\ IsFiniteSet(DOMAIN w.orphans)
      /\ Cardinality(DOMAIN w.orphans) \in Nat
      /\ w.counts.late \in Nat /\ w.counts.mismatch \in Nat /\ w.counts.replaced \in Nat
  BY <1>1, AccountIsNat
<1>5. CASE sentAt[n] <= prunedThrough
  <2>1. v = [w EXCEPT !.counts.late = @ + 1]
    BY <1>2, <1>5 DEF KeepReply
  <2>2. /\ v.rows = w.rows /\ v.orphans = w.orphans
        /\ v.counts.late = w.counts.late + 1 /\ v.counts.mismatch = w.counts.mismatch
        /\ v.counts.replaced = w.counts.replaced
    BY <1>1, <2>1 DEF Worlds, Counters
  <2> QED BY <1>3, <1>4, <2>2 DEF Account
<1>6. CASE ~ (sentAt[n] <= prunedThrough)
  <2>1. ~ (Cardinality(DOMAIN w.orphans) >= MaxOrphans)
    <3>1. ASSUME Cardinality(DOMAIN w.orphans) >= MaxOrphans PROVE FALSE
      <4>1. v = [w EXCEPT !.failed = TRUE]
        BY <1>2, <1>6, <3>1 DEF KeepReply
      <4>2. v.failed = TRUE
        BY <1>1, <4>1 DEF Worlds
      <4> QED BY <4>2
    <3> QED BY <3>1
  <2>2. PICK g : g = [m \in DOMAIN w.orphans \cup {n} |->
                       IF m = n THEN [event |-> e, addedAt |-> clock] ELSE w.orphans[m]]
    OBVIOUS
  <2>3. PICK x : x = IF n \in DOMAIN w.orphans THEN 1 ELSE 0
    OBVIOUS
  <2>4. v = [w EXCEPT !.orphans = g, !.counts.replaced = @ + x]
    BY <1>2, <1>6, <2>1, <2>2, <2>3 DEF KeepReply
  <2>5. /\ v.rows = w.rows /\ v.orphans = g /\ DOMAIN g = DOMAIN w.orphans \cup {n}
        /\ v.counts = [w.counts EXCEPT !.replaced = @ + x]
    BY <1>1, <2>2, <2>4 DEF Worlds
  <2>6. /\ v.counts.late = w.counts.late /\ v.counts.mismatch = w.counts.mismatch
        /\ v.counts.replaced = w.counts.replaced + x
    BY <1>1, <2>5 DEF Counters
  <2>7. Cardinality(DOMAIN g) + x = Cardinality(DOMAIN w.orphans) + 1
    <3>1. CASE n \in DOMAIN w.orphans
      <4>1. DOMAIN g = DOMAIN w.orphans /\ x = 1
        BY <2>3, <2>5, <3>1
      <4> QED BY <4>1
    <3>2. CASE n \notin DOMAIN w.orphans
      <4>1. Cardinality(DOMAIN g) = Cardinality(DOMAIN w.orphans) + 1 /\ x = 0
        BY <1>4, <2>3, <2>5, <3>2, FS_AddElement
      <4> QED BY <1>4, <4>1
    <3> QED BY <3>1, <3>2
  <2>8. Account(v) = Account(w) + 1
    <3>1. IsFiniteSet(DOMAIN g) /\ Cardinality(DOMAIN g) \in Nat /\ x \in Nat
      BY <1>4, <2>3, <2>5, FS_AddElement, FS_CardinalityType
    <3>2. PICK a \in Nat, b \in Nat, c \in Nat, d \in Nat, r \in Nat, h \in Nat :
            /\ a = SumFunctionOnSet(Told(w.rows), Probes) /\ b = Cardinality(DOMAIN w.orphans)
            /\ c = w.counts.late /\ d = w.counts.mismatch /\ r = w.counts.replaced
            /\ h = Cardinality(DOMAIN g)
      BY <1>4, <3>1
    <3>3. Account(w) = a + b + c + d + r
      BY <3>2 DEF Account
    <3>4. Account(v) = a + h + c + d + (r + x)
      BY <2>5, <2>6, <3>2 DEF Account
    <3>5. h + x = b + 1
      BY <2>7, <3>2
    <3>6. a + h + c + d + (r + x) = a + b + c + d + r + 1
      BY <3>1, <3>5
    <3> QED BY <3>3, <3>4, <3>6
  <2>9. \A m \in DOMAIN v.orphans :
          v.orphans[m].event = e \/ (m \in DOMAIN w.orphans /\ v.orphans[m] = w.orphans[m])
    BY <2>2, <2>5
  <2> QED BY <1>3, <2>8, <2>9
<1> QED BY <1>5, <1>6

\* The world accounts for the replies of S, and what is kept is of S.
Balances(w, S) ==
  /\ IsFiniteSet(S) /\ Account(w) = Cardinality(S)
  /\ \A m \in DOMAIN w.orphans : w.orphans[m].event \in S

\* So it does after an event that is new.
LEMMA EventBalances ==
  ASSUME Retired, clock \in Nat, NEW w, Sound(w), NEW S, Balances(w, S),
         NEW e \in Events, e \notin S, e.kind = "row" => ~There(w, e.probe),
         NEW v, v = ApplyEvent(w, e), ~v.failed,
         NEW R, R = IF e.kind = "reply" THEN S \cup {e} ELSE S
  PROVE  Balances(v, R)
<1>1. e.probe \in Probes /\ e.kind \in {"row", "reply"}
  BY EventKinds
<1>2. ~w.failed /\ w \in Worlds
  BY EventApplies DEF Sound
<1>3. IsFiniteSet(S) /\ Cardinality(S) \in Nat /\ Account(w) \in Nat
  BY <1>2, AccountIsNat, FS_CardinalityType DEF Balances
<1>4. CASE e.kind = "row"
  <2>1. v = InsertProbe(w, e.probe) /\ R = S
    BY <1>2, <1>4 DEF ApplyEvent
  <2>2. /\ Account(v) = Account(w)
        /\ \A m \in DOMAIN v.orphans : m \in DOMAIN w.orphans /\ v.orphans[m] = w.orphans[m]
    BY <1>1, <1>4, <2>1, InsertAccounts
  <2>3. \A m \in DOMAIN v.orphans : v.orphans[m].event \in R
    BY <2>1, <2>2 DEF Balances
  <2> QED BY <2>1, <2>2, <2>3 DEF Balances
<1>5. CASE e.kind = "reply"
  <2>1. R = S \cup {e} /\ IsFiniteSet(R) /\ Cardinality(R) = Cardinality(S) + 1
    BY <1>3, <1>5, FS_AddElement
  <2>2. CASE There(w, e.probe)
    <3>1. v = AttachReply(w, e)
      BY <1>2, <1>5, <2>2 DEF ApplyEvent, There
    <3>2. Fits(w)
      BY DEF Sound, Fits
    <3>3. v.orphans = w.orphans /\ Account(v) = Account(w) + 1
      BY <1>5, <2>2, <3>1, <3>2, AttachAccounts
    <3> QED BY <1>3, <2>1, <3>3 DEF Balances
  <2>3. CASE ~There(w, e.probe)
    <3>1. v = KeepReply(w, e)
      BY <1>2, <1>5, <2>3 DEF ApplyEvent, There
    <3>2. /\ Account(v) = Account(w) + 1
          /\ \A m \in DOMAIN v.orphans :
               v.orphans[m].event = e \/ (m \in DOMAIN w.orphans /\ v.orphans[m] = w.orphans[m])
      BY <1>5, <2>3, <3>1, KeepAccounts
    <3>3. \A m \in DOMAIN v.orphans : v.orphans[m].event \in R
      BY <2>1, <3>2 DEF Balances
    <3> QED BY <1>3, <2>1, <3>2, <3>3 DEF Balances
  <2> QED BY <2>2, <2>3
<1> QED BY <1>1, <1>4, <1>5

\* An event of the batch is in it once, and not in the log.
LEMMA BatchIsNew ==
  ASSUME Typed, InOnePlace, NEW i \in 1 .. Len(batch)
  PROVE  batch[i] \in Events /\ batch[i] \notin Range(log)
         /\ \A j \in 1 .. i - 1 : batch[j] # batch[i]
<1>1. /\ log \in Seq(Events) /\ batch \in Seq(Events) /\ bus \in Seq(Events)
      /\ Len(log) \in Nat /\ Len(batch) \in Nat /\ Len(bus) \in Nat
      /\ DOMAIN log = 1 .. Len(log)
  BY LenProperties DEF Typed
<1>2. PICK e \in Events : e = batch[i]
  BY <1>1, ElementOfSeq
<1>3. /\ log \o batch \in Seq(Events) /\ Len(log \o batch) = Len(log) + Len(batch)
      /\ \A p \in 1 .. Len(log) : (log \o batch)[p] = log[p]
      /\ \A p \in 1 .. Len(batch) : (log \o batch)[p + Len(log)] = batch[p]
  BY <1>1, ConcatProperties, SMTT(30)
<1>4. /\ Held \in Seq(Events) /\ Len(Held) = Len(log) + Len(batch) + Len(bus)
      /\ \A p \in 1 .. Len(log) + Len(batch) : Held[p] = (log \o batch)[p]
  BY <1>1, <1>3, ConcatProperties, SMTT(30) DEF Held
<1>5. /\ \A p \in 1 .. Len(log) : Held[p] = log[p]
      /\ \A p \in 1 .. Len(batch) : Held[p + Len(log)] = batch[p]
  <2>1. PICK r : r = log \o batch
    OBVIOUS
  <2>2. ASSUME NEW p \in 1 .. Len(log) PROVE Held[p] = log[p]
    <3>1. p \in 1 .. Len(log) + Len(batch)
      BY <1>1
    <3> QED BY <1>3, <1>4, <2>1, <3>1
  <2>3. ASSUME NEW p \in 1 .. Len(batch) PROVE Held[p + Len(log)] = batch[p]
    <3>1. p + Len(log) \in 1 .. Len(log) + Len(batch)
      BY <1>1
    <3> QED BY <1>3, <1>4, <2>1, <3>1
  <2> QED BY <2>2, <2>3
<1>6. DOMAIN Held = 1 .. Len(Held) /\ IsFiniteSet(Positions(e, Held))
  <2>1. DOMAIN Held = 1 .. Len(Held) /\ Len(Held) \in Nat
    BY <1>4, LenProperties
  <2>2. IsFiniteSet(DOMAIN Held) /\ Positions(e, Held) \subseteq DOMAIN Held
    BY <2>1, FS_Interval DEF Positions
  <2> QED BY <2>1, <2>2, FS_Subset
<1>7. Cardinality(Positions(e, Held)) <= 1
  <2>1. (\E n \in Probes : e = Row(n)) \/ \E n \in Probes, k \in 1 .. MaxReplies : e = Reply(n, k)
    BY DEF Events
  <2> QED BY <2>1 DEF InOnePlace
<1>8. \A p, q \in DOMAIN Held : Held[p] = e /\ Held[q] = e => p = q
  <2> SUFFICES ASSUME NEW p \in DOMAIN Held, NEW q \in DOMAIN Held,
                      Held[p] = e, Held[q] = e, p # q
               PROVE  FALSE
    OBVIOUS
  <2>1. PICK one : one = {p}
    OBVIOUS
  <2>2. PICK both : both = one \cup {q}
    OBVIOUS
  <2>3. both \subseteq Positions(e, Held)
    BY <2>1, <2>2 DEF Positions
  <2>4. IsFiniteSet(one) /\ Cardinality(one) = 1 /\ q \notin one
    BY <2>1, FS_Singleton
  <2>5. Cardinality(both) = Cardinality(one) + 1
    BY <2>2, <2>4, FS_AddElement
  <2>6. Cardinality(both) <= Cardinality(Positions(e, Held))
        /\ Cardinality(Positions(e, Held)) \in Nat
    BY <1>6, <2>3, FS_Subset, FS_CardinalityType
  <2> QED BY <1>7, <2>4, <2>5, <2>6
<1>9. /\ \A j \in 1 .. Len(batch) : j + Len(log) \in DOMAIN Held
      /\ \A j \in 1 .. Len(log) : j \in DOMAIN Held
      /\ i + Len(log) \in DOMAIN Held /\ Held[i + Len(log)] = e
  <2>1. PICK a \in Nat, b \in Nat, c \in Nat : a = Len(log) /\ b = Len(batch) /\ c = Len(bus)
    BY <1>1
  <2>2. DOMAIN Held = 1 .. (a + b + c)
    BY <1>4, <1>6, <2>1
  <2>3. \A j \in 1 .. b : j + a \in 1 .. (a + b + c)
    OBVIOUS
  <2>4. \A j \in 1 .. a : j \in 1 .. (a + b + c)
    OBVIOUS
  <2>5. Held[i + Len(log)] = e
    BY <1>2, <1>5
  <2> QED BY <2>1, <2>2, <2>3, <2>4, <2>5
<1>10. e \notin Range(log)
  <2> SUFFICES ASSUME NEW p \in 1 .. Len(log), log[p] = e PROVE FALSE
    BY <1>1 DEF Range
  <2>1. p \in DOMAIN Held /\ Held[p] = e
    BY <1>5, <1>9
  <2>2. p = i + Len(log)
    BY <1>8, <1>9, <2>1
  <2> QED BY <1>1, <2>2
<1>11. \A j \in 1 .. i - 1 : batch[j] # e
  <2> SUFFICES ASSUME NEW j \in 1 .. i - 1, batch[j] = e PROVE FALSE
    OBVIOUS
  <2>1. j \in 1 .. Len(batch)
    BY <1>1
  <2>2. j + Len(log) \in DOMAIN Held /\ Held[j + Len(log)] = e
    BY <1>5, <1>9, <2>1
  <2>3. j + Len(log) = i + Len(log)
    BY <1>8, <1>9, <2>2
  <2> QED BY <1>1, <2>3
<1> QED BY <1>2, <1>10, <1>11

\* The replies that are stored when the first i events of the batch are.
Seen(i) == RepliesIn(log) \cup {e \in Events : e.kind = "reply" /\ \E j \in 1 .. i : batch[j] = e}

\* The tables as they are balance with the log: of a row that is there none was
\* retired.
Balanced ==
  /\ Balances(World, RepliesIn(log))
  /\ \A n \in Probes : Stored(n) => retired[n] = NoRow

\* So the world balances after every event of the batch.
LEMMA BatchBalances ==
  ASSUME IInv, Balanced
  PROVE  \A i \in 0 .. Len(batch) : ~After[i].failed => Balances(After[i], Seen(i))
<1>0. /\ Typed /\ Kept /\ InOnePlace /\ Logged /\ clock \in Nat /\ batch \in Seq(Events)
      /\ Retired /\ Len(batch) \in Nat
  BY SizeAssumption, LenProperties DEF IInv, Typed, Retired
<1> DEFINE N == {i \in Nat : i <= Len(batch) /\ ~ (~After[i].failed => Balances(After[i], Seen(i)))}
<1> SUFFICES ASSUME N # {} PROVE FALSE
  OBVIOUS
<1>1. PICK i \in N : \A j \in N : ~ (<<j, i>> \in OpToRel(<, Nat))
  <2>1. N \subseteq Nat
    OBVIOUS
  <2> HIDE DEF N
  <2> QED BY <2>1, WFMin, NatLessThanWellFounded
<1>2. /\ i \in Nat /\ i <= Len(batch) /\ ~After[i].failed /\ ~Balances(After[i], Seen(i))
      /\ \A j \in Nat : j < i => j \notin N
  BY <1>1 DEF OpToRel
<1>3. /\ After[0] = World
      /\ \A j \in 1 .. Len(batch) : After[j] = ApplyEvent(After[j - 1], batch[j])
  BY <1>0, AfterUnfolds
<1>4. \A j \in 0 .. Len(batch) : Follows(j)
  BY <1>0, WorldIsSound, BatchApplies
<1>5. ASSUME i = 0 PROVE FALSE
  <2>1. Seen(0) = RepliesIn(log)
    BY DEF Seen
  <2> QED BY <1>2, <1>3, <1>5, <2>1 DEF Balanced
<1>6. ASSUME i # 0 PROVE FALSE
  <2>1. i - 1 \in Nat /\ i - 1 < i /\ i - 1 <= Len(batch) /\ i \in 1 .. Len(batch)
        /\ i - 1 \in 0 .. Len(batch)
    BY <1>0, <1>2, <1>6
  <2>2. ~After[i - 1].failed => Balances(After[i - 1], Seen(i - 1))
    BY <1>2, <2>1
  <2>3. PICK w : w = After[i - 1]
    OBVIOUS
  <2>4. PICK v : v = After[i]
    OBVIOUS
  <2>5. PICK e : e = batch[i]
    OBVIOUS
  <2>6. e \in Events /\ e \notin Range(log) /\ \A j \in 1 .. i - 1 : batch[j] # e
    BY <1>0, <2>1, <2>5, BatchIsNew
  <2>7. v = ApplyEvent(w, e) /\ ~v.failed /\ Sound(w)
    BY <1>2, <1>3, <1>4, <2>1, <2>3, <2>4, <2>5 DEF Follows
  <2>8. ~w.failed
    BY <1>0, <2>6, <2>7, EventApplies
  <2>9. Balances(w, Seen(i - 1))
    BY <2>2, <2>3, <2>8
  <2>10. e \notin Seen(i - 1)
    BY <2>6 DEF Seen, RepliesIn
  <2>11. e.kind = "row" => ~There(w, e.probe)
    <3> SUFFICES ASSUME e.kind = "row", There(w, e.probe) PROVE FALSE
      OBVIOUS
    <3>1. e.probe \in Probes /\ e = Row(e.probe)
      BY <2>6, EventKinds
    <3>2. Stored(e.probe) \/ \E j \in 1 .. i - 1 : batch[j] = Row(e.probe)
      BY <1>4, <2>1, <2>3, <2>8, <3>1 DEF Follows
    <3>3. ~Stored(e.probe)
      BY <1>0, <2>6, <3>1 DEF Logged
    <3> QED BY <2>6, <3>1, <3>2, <3>3
  <2>12. Seen(i) = IF e.kind = "reply" THEN Seen(i - 1) \cup {e} ELSE Seen(i - 1)
    <3>1. \A j : j \in 1 .. i <=> j \in 1 .. i - 1 \/ j = i
      BY <1>2, <2>1
    <3>2. \A d \in Events : (\E j \in 1 .. i : batch[j] = d)
                              <=> (\E j \in 1 .. i - 1 : batch[j] = d) \/ d = e
      BY <2>5, <3>1
    <3> QED BY <2>6, <3>2 DEF Seen
  <2>13. Balances(v, Seen(i))
    BY <1>0, <2>6, <2>7, <2>9, <2>10, <2>11, <2>12, EventBalances
  <2> QED BY <1>2, <2>4, <2>13
<1> QED BY <1>5, <1>6

\* Nothing is sent, stored or kept at the start.
LEMMA InitBalanced == Init => Balanced
<1> SUFFICES ASSUME Init PROVE Balanced
  OBVIOUS
<1>1. IInv /\ Kept /\ Typed /\ Retired
  BY InitIInv DEF IInv, Typed, Retired
<1>2. PICK w : w = World
  OBVIOUS
<1>3. /\ w.rows = rows /\ w.orphans = orphans /\ w.counts = counts
      /\ w \in Worlds
  BY <1>1, <1>2, WorldIsSound DEF Sound, World
<1>4. RepliesIn(log) = {}
  BY DEF Init, RepliesIn, Range
<1>5. IsFiniteSet({}) /\ Cardinality({}) = 0
  BY FS_EmptySet
<1>6. SumFunctionOnSet(Told(w.rows), Probes) = 0
  <2>1. \A n \in Probes : Told(w.rows)[n] = 0
    BY <1>3 DEF Init, Told, Of
  <2> QED BY <2>1, ProbesAreFinite, SumFunctionZero
<1>7. /\ DOMAIN w.orphans = {} /\ w.counts.late = 0 /\ w.counts.mismatch = 0
      /\ w.counts.replaced = 0
  BY <1>3 DEF Init
<1>8. Account(w) = 0
  BY <1>5, <1>6, <1>7 DEF Account
<1>9. Balances(w, RepliesIn(log))
  BY <1>4, <1>5, <1>7, <1>8 DEF Balances
<1> QED BY <1>2, <1>9 DEF Init, Balanced, Stored

\* It balances as long as nothing it speaks of changes.
LEMMA StaysBalanced ==
  ASSUME Balanced, UNCHANGED <<rows, retired, counts, orphans, log>>
  PROVE  Balanced'
<1>1. World'.rows = World.rows /\ World'.orphans = World.orphans /\ World'.counts = World.counts
  BY DEF World
<1>2. \A f : Told(f)' = Told(f)
  BY DEF Told
<1>3. Account(World)' = Account(World)
  BY <1>1 DEF Account, Told, World
<1>4. RepliesIn(log)' = RepliesIn(log)
  BY DEF RepliesIn
<1> QED BY <1>1, <1>3, <1>4 DEF Balanced, Balances, Stored, World

\* A row that is deleted takes its replies with it.
LEMMA RetireBalanced ==
  ASSUME IInv, Balanced, NEW cutoff, NEW unfinished, DeleteRows(cutoff, unfinished),
         UNCHANGED <<log, counts, orphans>>
  PROVE  Balanced'
<1> DEFINE S == Prunable(cutoff, unfinished)
<1>1. \A n \in S : n \in Probes /\ Stored(n)
  BY DEF Prunable
<1> HIDE DEF S
<1>2. /\ rows' = [n \in Probes |-> IF n \in S THEN NoRow ELSE rows[n]]
      /\ retired' = [n \in Probes |-> IF n \in S THEN rows[n] ELSE retired[n]]
  BY DEF DeleteRows, S
<1>3. \A n \in Probes : Stored(n) => retired[n] = NoRow
  BY DEF Balanced
<1>4. rows \in [Probes -> RowOrNone] /\ retired \in [Probes -> RowOrNone]
  BY DEF IInv, Typed, Kept, Tables
<1>5. \A n \in Probes : Of(rows'[n]) + Of(retired'[n]) = Of(rows[n]) + Of(retired[n])
  <2>1. SUFFICES ASSUME NEW n \in Probes
                 PROVE  Of(rows'[n]) + Of(retired'[n]) = Of(rows[n]) + Of(retired[n])
    OBVIOUS
  <2>2. CASE n \in S
    <3>1. rows'[n] = NoRow /\ retired'[n] = rows[n] /\ retired[n] = NoRow
      BY <1>1, <1>2, <1>3, <2>2
    <3>2. Of(NoRow) = 0 /\ Of(rows[n]) \in Nat
      BY <1>4, RowsHoldReplies DEF Of
    <3> QED BY <3>1, <3>2
  <2>3. CASE n \notin S
    BY <1>2, <2>3
  <2> QED BY <2>2, <2>3
<1>6. Told(rows)' = Told(rows)
  BY <1>5 DEF Told
<1>7. /\ World.rows = rows /\ World.orphans = orphans /\ World.counts = counts
      /\ World'.rows = rows' /\ World'.orphans = orphans /\ World'.counts = counts
  BY DEF World
<1>8. Account(World)' = Account(World)
  BY <1>6, <1>7 DEF Account, World
<1>9. RepliesIn(log)' = RepliesIn(log)
  BY DEF RepliesIn
<1>10. \A n \in Probes : Stored(n)' => retired'[n] = NoRow
  BY <1>2, <1>3 DEF Stored
<1> QED BY <1>7, <1>8, <1>9, <1>10 DEF Balanced, Balances, World

\* A batch that is stored.
LEMMA CommitBalanced == IInv /\ Balanced /\ Commit => Balanced'
<1> SUFFICES ASSUME IInv, Balanced, Commit PROVE Balanced'
  OBVIOUS
<1>1. /\ Typed /\ Kept /\ Logged /\ InOnePlace
      /\ batch \in Seq(Events) /\ log \in Seq(Events) /\ Len(batch) \in Nat /\ clock \in Nat
  BY SizeAssumption, LenProperties DEF IInv, Typed
<1>2. PICK w : w = After[Len(batch)]
  OBVIOUS
<1>3. /\ ~w.failed /\ rows' = w.rows /\ counts' = w.counts /\ orphans' = w.orphans
      /\ log' = log \o batch /\ retired' = retired
  BY <1>2 DEF Commit, pruneVars
<1>4. Len(batch) \in 0 .. Len(batch)
  BY <1>1
<1>5. Balances(w, Seen(Len(batch)))
  BY <1>2, <1>3, <1>4, BatchBalances
<1>6. \A e : e \in Range(batch) <=> \E j \in 1 .. Len(batch) : batch[j] = e
  BY <1>1, LenProperties DEF Range
<1>7. RepliesIn(log') = Seen(Len(batch))
  <2>1. Range(log') = Range(log) \cup Range(batch)
    BY <1>1, <1>3, RangeConcatenation
  <2>2. \A e \in Range(batch) : e \in Events
    BY <1>1, <1>6, ElementOfSeq
  <2> QED BY <1>6, <2>1, <2>2 DEF RepliesIn, Seen
<1>8. World'.rows = w.rows /\ World'.orphans = w.orphans /\ World'.counts = w.counts
  BY <1>3 DEF World
<1>9. Account(World)' = Account(w)
  BY <1>3, <1>8 DEF Account, Told, World
<1>10. \A n \in Probes : Stored(n)' => retired'[n] = NoRow
  <2> SUFFICES ASSUME NEW n \in Probes, Stored(n)' PROVE retired[n] = NoRow
    BY <1>3
  <2>1. There(w, n)
    BY <1>3 DEF Stored, There
  <2>2. Stored(n) \/ \E j \in 1 .. Len(batch) : batch[j] = Row(n)
    <3>1. Follows(Len(batch))
      BY <1>1, <1>4, WorldIsSound, BatchApplies
    <3> QED BY <1>2, <1>3, <2>1, <3>1 DEF Follows
  <2>3. CASE Stored(n)
    BY <2>3 DEF Balanced
  <2>4. ASSUME NEW j \in 1 .. Len(batch), batch[j] = Row(n) PROVE retired[n] = NoRow
    <3>1. Row(n) \notin Range(log)
      BY <1>1, <2>4, BatchIsNew
    <3> QED BY <1>1, <3>1 DEF Logged
  <2> QED BY <2>2, <2>3, <2>4
<1> QED BY <1>5, <1>7, <1>8, <1>9, <1>10 DEF Balanced, Balances, World

\* A reply that waited for too long is counted.
LEMMA ExpireBalanced == IInv /\ Balanced /\ ExpireOrphans => Balanced'
<1> SUFFICES ASSUME IInv, Balanced, ExpireOrphans PROVE Balanced'
  OBVIOUS
<1>1. Kept /\ Retired
  BY DEF IInv, Typed, Retired
<1>2. /\ orphans' = [n \in DOMAIN orphans \ Expired |-> orphans[n]]
      /\ counts' = [counts EXCEPT !.late = @ + Cardinality(Expired)]
      /\ rows' = rows /\ retired' = retired /\ log' = log
  BY DEF ExpireOrphans, Restrict, pruneVars
<1>3. PICK w : w = World
  OBVIOUS
<1>4. w.rows = rows /\ w.orphans = orphans /\ w.counts = counts /\ w \in Worlds
  BY <1>1, <1>3, WorldIsSound DEF Sound, World
<1>5. World'.rows = rows /\ World'.orphans = orphans' /\ World'.counts = counts'
  BY <1>2 DEF World
<1>6. /\ counts'.late = counts.late + Cardinality(Expired) /\ counts'.mismatch = counts.mismatch
      /\ counts'.replaced = counts.replaced
      /\ counts.late \in Nat /\ counts.mismatch \in Nat /\ counts.replaced \in Nat
  BY <1>1, <1>2 DEF Kept, Counters
<1>7. /\ IsFiniteSet(DOMAIN orphans) /\ SumFunctionOnSet(Told(rows), Probes) \in Nat
  BY <1>1, <1>4, AccountIsNat
<1>8. /\ Cardinality(Expired) \in Nat /\ Cardinality(DOMAIN orphans') \in Nat
      /\ Cardinality(DOMAIN orphans) = Cardinality(DOMAIN orphans') + Cardinality(Expired)
  <2>1. PICK left : left = DOMAIN orphans'
    OBVIOUS
  <2>2. /\ left \subseteq DOMAIN orphans /\ Expired \subseteq DOMAIN orphans
        /\ left \cap Expired = {} /\ left \cup Expired = DOMAIN orphans
    BY <1>2, <2>1 DEF Expired
  <2>3. IsFiniteSet(left) /\ IsFiniteSet(Expired)
    BY <1>7, <2>2, FS_Subset
  <2>4. Cardinality(left \cup Expired) = Cardinality(left) + Cardinality(Expired)
    BY <2>2, <2>3, DisjointUnion
  <2> QED BY <2>1, <2>2, <2>3, <2>4, FS_CardinalityType
<1>9. Account(World)' = Account(w)
  <2>1. PICK a \in Nat, b \in Nat, c \in Nat, d \in Nat, r \in Nat, x \in Nat :
          /\ a = SumFunctionOnSet(Told(rows), Probes) /\ b = Cardinality(DOMAIN orphans')
          /\ c = counts.late /\ d = counts.mismatch /\ r = counts.replaced /\ x = Cardinality(Expired)
    BY <1>6, <1>7, <1>8
  <2>2. Account(w) = a + (b + x) + c + d + r
    BY <1>4, <1>8, <2>1 DEF Account
  <2>3. Account(World)' = a + b + (c + x) + d + r
    BY <1>2, <1>5, <1>6, <2>1 DEF Account, Told, World
  <2> QED BY <2>1, <2>2, <2>3
<1>10. \A n \in DOMAIN orphans' : n \in DOMAIN orphans /\ orphans'[n] = orphans[n]
  BY <1>2
<1>11. RepliesIn(log)' = RepliesIn(log)
  BY <1>2 DEF RepliesIn
<1>12. Balances(w, RepliesIn(log))
  BY <1>3 DEF Balanced
<1>13. \A n \in DOMAIN orphans' : orphans'[n].event \in RepliesIn(log)
  BY <1>4, <1>10, <1>12 DEF Balances
<1> QED BY <1>2, <1>5, <1>9, <1>11, <1>12, <1>13 DEF Balanced, Balances, Stored, World

\* No step of the writer or of its environment loses a reply.
LEMMA BalancedHolds == Spec => []Balanced
<1>1. IInv /\ Balanced /\ [Next]_vars => Balanced'
  <2> SUFFICES ASSUME IInv, Balanced, [Next]_vars PROVE Balanced'
    OBVIOUS
  <2>1. CASE UNCHANGED <<rows, retired, counts, orphans, log>>
    BY <2>1, StaysBalanced
  <2>2. CASE UNCHANGED vars
    BY <2>1, <2>2 DEF vars, runVars, dbVars, pruneVars
  <2>3. CASE Environment
    BY <2>1, <2>3 DEF Environment, Send, PublishRow, PublishReply, Close, CancelWriter,
                      SpaceChanges, Tick, runVars, dbVars, pruneVars
  <2>4. CASE WriterStep
    <3>1. CASE TakeFirst \/ Collect
      BY <2>1, <3>1 DEF TakeFirst, Collect, collecting, dbVars, pruneVars
    <3>2. CASE CollectDone \/ ReturnClosed \/ ReturnCancelled \/ Retry
      BY <2>1, <3>2 DEF CollectDone, ReturnClosed, ReturnCancelled, Retry, Goto, dbVars, pruneVars
    <3>3. CASE OrphanLimit \/ OrphanExpires \/ ExpireFails \/ MaintainFails
      BY <2>1, <3>3 DEF OrphanLimit, OrphanExpires, ExpireFails, MaintainFails, Fail, dbVars, pruneVars
    <3>4. CASE Full \/ PruneRest
      BY <2>1, <3>4 DEF Full, PruneRest, FindsFull, Restored
    <3>5. CASE Pause \/ RelieveNot
      BY <2>1, <3>5 DEF Pause, RelieveNot, dbVars, pruneVars
    <3>6. CASE Commit
      BY <3>6, CommitBalanced
    <3>7. CASE PruneRaw \/ PruneRawHalf
      BY <3>7, RetireBalanced DEF PruneRaw, PruneRawHalf, FindsFull, Restored, Prune
    <3>8. CASE Maintain \/ Relieve
      BY <3>8, RetireBalanced DEF Maintain, Relieve, Prune
    <3>9. CASE ExpireOrphans
      BY <3>9, ExpireBalanced
    <3> QED BY <2>4, <3>1, <3>2, <3>3, <3>4, <3>5, <3>6, <3>7, <3>8, <3>9 DEF WriterStep
  <2> QED BY <2>2, <2>3, <2>4 DEF Next
<1> QED BY <1>1, InitBalanced, Inductive, PTL DEF Spec

\* What the state says is what its world says.
LEMMA StateAccounts == Accounted + counts.replaced = Account(World)
<1>1. World.rows = rows /\ World.orphans = orphans /\ World.counts = counts
  BY DEF World
<1>2. [n \in Probes |-> Attached(n)] = Told(rows)
  BY DEF Attached, Told, Of
<1> QED BY <1>1, <1>2 DEF Account, Accounted, SumFunction, Told

\* However many replies a probe gets, as many as the committed batches held are
\* attached to their row, kept for it or counted, and the rest are the kept replies
\* that a later one replaced, no more and no fewer (writer.go:193-209, 320-330).
THEOREM NoReplyLost == Spec => []RepliesAccounted
<1>1. Balanced => RepliesAccounted
  BY StateAccounts DEF Balanced, Balances, RepliesAccounted
<1> QED BY <1>1, BalancedHolds, PTL
=============================================================================
