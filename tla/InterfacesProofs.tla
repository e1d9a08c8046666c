-------------------------- MODULE InterfacesProofs --------------------------
(***************************************************************************)
(* Proofs about Interfaces, for any bounds, units and retentions: the      *)
(* types, that the rows of a generation are in order, that no traffic is   *)
(* made up from them, that clean minutes and hours hold the differences    *)
(* they should; and about InterfaceReads, that a series shows each of      *)
(* them once.                                                              *)
(***************************************************************************)
EXTENDS InterfaceReads, Sums, SequenceTheorems
-----------------------------------------------------------------------------
(* The invariant.                                                          *)

Links == [identity : 0 .. MaxLinks, counter : 0 .. MaxTraffic]
Happenings == [kind : {"reset", "snapshot"}, identity : 0 .. MaxLinks,
               counter : 0 .. MaxTraffic, at : 0 .. MaxTime]
Generations == [identity : 0 .. MaxLinks, open : BOOLEAN]
Samples == [generation : Nat, at : 0 .. MaxTime, counter : 0 .. MaxTraffic]

Clocks ==
  /\ now \in 0 .. MaxTime /\ moved \in Nat
  /\ link \in Links /\ previous \in Links
  /\ queue \in Seq(Happenings)
Tables ==
  /\ generations \in Seq(Generations)
  /\ stored \subseteq Samples /\ samples \subseteq stored
  /\ \A s \in stored : s.generation \in Ids
Rollups ==
  /\ DOMAIN minute \subseteq Ids \X Minutes /\ DOMAIN hour \subseteq Ids \X Hours
  /\ \A k \in DOMAIN minute : minute[k] \in Aggregates
  /\ \A k \in DOMAIN hour : hour[k] \in Aggregates
  /\ dirty \subseteq ({M} \X Ids \X Minutes) \cup ({H} \X Ids \X Hours)
Sweeps == todo \subseteq dirty /\ (todo # {} => sweeping)

\* What is on the bus was seen in this tick, and the link is still as it was seen.
Fresh ==
  \A i \in 1 .. Len(queue) :
    /\ queue[i].at = now
    /\ queue[i].kind = "snapshot" =>
         queue[i].identity = link.identity /\ queue[i].counter = link.counter
Ordered ==
  \A s, t \in stored :
    s.generation = t.generation =>
      (s.at < t.at => s.counter <= t.counter) /\ (s.at = t.at => s = t)
OneOpen == \A g, h \in Ids : IsOpen(g) /\ IsOpen(h) => g = h
\* The last row of the open generation is there, and not old enough to be deleted.
Led ==
  \A g \in Ids : IsOpen(g) =>
    \E s \in samples : /\ s.generation = g /\ now <= s.at + MaxPause
                       /\ \A t \in History(g) : t.at <= s.at

Delta(g) == Truth(g, 0, MaxTime + 1).delta
Total == SumFunction([g \in Ids |-> Delta(g)])
\* Every generation has rows, of a link there was, and what the link counted
\* since the last row of its generation is not in the sum yet.
Owned == \A g \in Ids : History(g) # {} /\ generations[g].identity <= link.identity
Covered ==
  /\ Total <= moved
  /\ \A g \in Ids : IsOpen(g) /\ generations[g].identity = link.identity =>
       link.counter - LastRow(History(g)).counter <= moved - Total

IInv == Clocks /\ Tables /\ Rollups /\ Sweeps /\ Fresh /\ Ordered /\ OneOpen /\ Led
          /\ Owned /\ Covered
-----------------------------------------------------------------------------
(* Buckets and rows.                                                       *)

\* The sizes are numbers.
LEMMA Sizes ==
  /\ MaxTime \in Nat /\ MaxTraffic \in Nat /\ MaxLinks \in Nat /\ MaxLinks > 0 /\ MaxSamples \in Nat
  /\ MaxFaults \in Nat /\ MaxPause \in Nat
  /\ M \in Nat /\ M > 0 /\ H \in Nat /\ H > 0
  /\ RawRetention \in Nat /\ RawFloor \in Nat /\ RawFloor <= RawRetention
  /\ M < H
  /\ MaxPause + M <= RawFloor /\ 2 * MaxPause + M - 1 <= RawFloor
  /\ MaxPause + M + MaxFaults - 1 <= RawFloor
BY BoundAssumption, UnitAssumption, RetentionAssumption

\* A bucket starts no later than what is in it.
LEMMA BucketStarts ==
  ASSUME NEW t \in Int, NEW width \in Nat, width > 0
  PROVE  Bucket(t, width) \in Int /\ Bucket(t, width) <= t /\ (t >= 0 => Bucket(t, width) >= 0)
<1>1. t % width \in 0 .. width - 1
  OBVIOUS
<1>2. t >= 0 => t % width <= t
  OBVIOUS
<1> QED BY <1>1, <1>2 DEF Bucket

\* The minute of a moment is one, and so is the hour of a minute.
LEMMA MinutesAndHours ==
  /\ \A t \in 0 .. MaxTime : Bucket(t, M) \in Minutes
  /\ \A m \in Minutes : Bucket(m, H) \in Hours
<1>1. \A t \in 0 .. MaxTime : Bucket(t, M) \in 0 .. MaxTime
  BY Sizes, BucketStarts
<1>2. \A m \in Minutes : m \in 0 .. MaxTime
  BY <1>1 DEF Minutes
<1> QED BY <1>2 DEF Minutes, Hours

\* There are finitely many buckets, of finitely many generations.
LEMMA KeysAreFinite ==
  ASSUME generations \in Seq(Generations), NEW D, D \subseteq Ids \X Minutes
  PROVE  IsFiniteSet(D)
<1>1. IsFiniteSet(Ids)
  BY LenProperties, FS_Interval DEF Ids
<1>2. IsFiniteSet(Minutes)
  <2>1. Minutes \subseteq 0 .. MaxTime
    BY Sizes, BucketStarts DEF Minutes
  <2>2. IsFiniteSet(0 .. MaxTime)
    BY Sizes, FS_Interval
  <2> QED BY <2>1, <2>2, FS_Subset
<1> QED BY <1>1, <1>2, FS_Product, FS_Subset

\* The last row of some is one of them, and none is later.
LEMMA LastRowIsLast ==
  ASSUME NEW rows, rows \subseteq Samples, rows # {}
  PROVE  LastRow(rows) \in rows /\ \A r \in rows : r.at <= LastRow(rows).at
<1> DEFINE Left == {MaxTime - r.at : r \in rows}
<1>1. \A r \in rows : r.at \in 0 .. MaxTime /\ r.at \in Nat /\ MaxTime - r.at \in Nat
  BY Sizes DEF Samples
<1>2. PICK n \in Left : \A m \in Left : ~ (<<m, n>> \in OpToRel(<, Nat))
  <2>1. Left # {} /\ Left \subseteq Nat
    BY <1>1
  <2> HIDE DEF Left
  <2> QED BY <2>1, WFMin, NatLessThanWellFounded
<1>3. \A m \in Left : ~ (m < n)
  BY <1>1, <1>2 DEF OpToRel
<1>4. PICK s \in rows : n = MaxTime - s.at
  OBVIOUS
<1>5. ASSUME NEW r \in rows PROVE r.at <= s.at
  <2>1. ~ (MaxTime - r.at < MaxTime - s.at)
    BY <1>3, <1>4
  <2> QED BY <1>1, <2>1, Sizes
<1> QED BY <1>5 DEF LastRow

\* The first row of some is one of them, and none is earlier.
LEMMA FirstRowIsFirst ==
  ASSUME NEW rows, rows \subseteq Samples, rows # {}
  PROVE  FirstRow(rows) \in rows /\ \A r \in rows : FirstRow(rows).at <= r.at
<1> DEFINE Times == {r.at : r \in rows}
<1>1. \A r \in rows : r.at \in Nat
  BY Sizes DEF Samples
<1>2. PICK n \in Times : \A m \in Times : ~ (<<m, n>> \in OpToRel(<, Nat))
  <2>1. Times # {} /\ Times \subseteq Nat
    BY <1>1
  <2> HIDE DEF Times
  <2> QED BY <2>1, WFMin, NatLessThanWellFounded
<1>3. \A m \in Times : ~ (m < n)
  BY <1>1, <1>2 DEF OpToRel
<1>4. PICK s \in rows : n = s.at
  OBVIOUS
<1>5. \A r \in rows : s.at <= r.at
  BY <1>1, <1>3, <1>4
<1> QED BY <1>5 DEF FirstRow

\* Rows in order: what passed and what was counted between them is not negative.
LEMMA AggregatesAreNat ==
  ASSUME Ordered, NEW rows, rows \subseteq stored, stored \subseteq Samples,
         \A r, s \in rows : r.generation = s.generation
  PROVE  AggregateRows(rows) \in Aggregates
<1>1. CASE rows = {}
  BY <1>1 DEF AggregateRows, Aggregates, Nothing
<1>2. CASE rows # {}
  <2>1. rows \subseteq Samples
    OBVIOUS
  <2>2. PICK l : l = LastRow(rows)
    OBVIOUS
  <2>3. PICK f : f = FirstRow(rows)
    OBVIOUS
  <2>4. l \in rows /\ f \in rows /\ f.at <= l.at
    BY <1>2, <2>1, <2>2, <2>3, LastRowIsLast, FirstRowIsFirst
  <2>5. l.at \in Nat /\ f.at \in Nat /\ l.counter \in Nat /\ f.counter \in Nat
    BY <2>1, <2>4, Sizes DEF Samples
  <2>6. f.counter <= l.counter
    BY <2>4, <2>5 DEF Ordered
  <2>7. l.at - f.at \in Nat /\ l.counter - f.counter \in Nat
    BY <2>4, <2>5, <2>6
  <2> QED BY <1>2, <2>2, <2>3, <2>7 DEF AggregateRows, Aggregates
<1> QED BY <1>1, <1>2
-----------------------------------------------------------------------------
(* Generations.                                                            *)

\* Closing some keeps which there are and what they are of.
LEMMA CloseKeeps ==
  ASSUME generations \in Seq(Generations), NEW S
  PROVE  /\ Close(S) \in Seq(Generations) /\ Len(Close(S)) = Len(generations)
         /\ \A g \in Ids : Close(S)[g].identity = generations[g].identity
         /\ \A g \in Ids : Close(S)[g].open <=> IsOpen(g) /\ g \notin S
<1>1. Len(generations) \in Nat /\ \A g \in Ids : generations[g] \in Generations
  BY LenProperties, ElementOfSeq DEF Ids
<1>2. Ids = 1 .. Len(generations) /\ DOMAIN Close(S) = Ids
  BY DEF Ids, Close
<1>3. \A g \in Ids : Close(S)[g] = [generations[g] EXCEPT !.open = @ /\ g \notin S]
  BY DEF Close
<1>4. \A g \in Ids : /\ Close(S)[g] \in Generations
                     /\ Close(S)[g].identity = generations[g].identity
                     /\ Close(S)[g].open <=> IsOpen(g) /\ g \notin S
  BY <1>1, <1>3 DEF Generations, IsOpen
<1>5. Close(S) \in [1 .. Len(generations) -> Generations]
  BY <1>2, <1>4 DEF Close
<1>6. Close(S) \in Seq(Generations)
  BY <1>1, <1>5, SeqDef
<1>7. Len(Close(S)) = Len(generations)
  BY <1>1, <1>2, <1>6, LenProperties
<1> QED BY <1>4, <1>6, <1>7

\* What a generation says was transferred: from its first row to its last.
Spans ==
  \A g \in Ids :
    /\ LastRow(History(g)) \in History(g) /\ FirstRow(History(g)) \in History(g)
    /\ \A s \in History(g) : FirstRow(History(g)).at <= s.at /\ s.at <= LastRow(History(g)).at
    /\ Delta(g) = LastRow(History(g)).counter - FirstRow(History(g)).counter
    /\ Delta(g) \in Nat /\ LastRow(History(g)).counter \in Nat

LEMMA SpansHold == Tables /\ Ordered /\ Owned => Spans
<1> SUFFICES ASSUME Tables, Ordered, Owned, NEW g \in Ids
             PROVE  /\ LastRow(History(g)) \in History(g) /\ FirstRow(History(g)) \in History(g)
                    /\ \A s \in History(g) : FirstRow(History(g)).at <= s.at
                                               /\ s.at <= LastRow(History(g)).at
                    /\ Delta(g) = LastRow(History(g)).counter - FirstRow(History(g)).counter
                    /\ Delta(g) \in Nat /\ LastRow(History(g)).counter \in Nat
  BY DEF Spans
<1>1. PICK R : R = History(g)
  OBVIOUS
<1>2. R \subseteq Samples /\ R \subseteq stored /\ R # {} /\ \A s \in R : s.generation = g
  BY <1>1 DEF Tables, Owned, History
<1>3. PICK l : l = LastRow(R)
  OBVIOUS
<1>4. PICK f : f = FirstRow(R)
  OBVIOUS
<1>5. l \in R /\ f \in R /\ \A s \in R : f.at <= s.at /\ s.at <= l.at
  BY <1>2, <1>3, <1>4, LastRowIsLast, FirstRowIsFirst
<1>6. l.at \in Nat /\ f.at \in Nat /\ l.counter \in Nat /\ f.counter \in Nat
  BY <1>2, <1>5, Sizes DEF Samples
<1>7. f.counter <= l.counter
  BY <1>2, <1>5, <1>6 DEF Ordered
<1>8. RowAt(g, 0) = f
  <2>1. \A s \in R : ~ (s.at < 0)
    BY <1>2, Sizes DEF Samples
  <2>2. {s \in History(g) : s.at < 0} = {}
    BY <1>1, <2>1
  <2> QED BY <1>1, <1>4, <2>2 DEF RowAt
<1>9. RowAt(g, MaxTime + 1) = l
  <2>1. \A s \in R : s.at < MaxTime + 1
    BY <1>2, Sizes DEF Samples
  <2>2. {s \in History(g) : s.at < MaxTime + 1} = R
    BY <1>1, <2>1
  <2> QED BY <1>2, <1>3, <2>2 DEF RowAt
<1>10. Delta(g) = l.counter - f.counter
  BY <1>8, <1>9 DEF Delta, Truth
<1>11. Delta(g) \in Nat
  BY <1>6, <1>7, <1>10
<1> QED BY <1>1, <1>3, <1>4, <1>5, <1>6, <1>10, <1>11

\* Together they are a number.
LEMMA TotalIsNat == Tables /\ Spans => Total \in Nat
<1> SUFFICES ASSUME Tables, Spans PROVE Total \in Nat
  OBVIOUS
<1>1. IsFiniteSet(Ids)
  BY LenProperties, FS_Interval DEF Tables, Ids
<1>2. PICK d : d = [g \in Ids |-> Delta(g)]
  OBVIOUS
<1>3. d \in [Ids -> Nat] /\ DOMAIN d = Ids
  BY <1>2 DEF Spans
<1>4. Total = SumFunctionOnSet(d, Ids)
  BY <1>2, <1>3 DEF Total, SumFunction
<1> QED BY <1>1, <1>3, <1>4, SumFunctionIsNat
-----------------------------------------------------------------------------
(* The invariant, action by action.                                        *)

\* The sum and what it is made of: the rows of the generations there are.
LEMMA TotalStays ==
  Ids' = Ids /\ UNCHANGED stored => Total' = Total /\ \A g : History(g)' = History(g)
<1> SUFFICES ASSUME Ids' = Ids, UNCHANGED stored
             PROVE  Total' = Total /\ \A g : History(g)' = History(g)
  OBVIOUS
<1>1. \A g : History(g)' = History(g)
  BY DEF History
<1>2. Total' = Total
  BY <1>1 DEF Total, Delta, Truth, RowAt
<1> QED BY <1>1, <1>2

\* Which generations there are and which is open is in their table.
LEMMA OpenStays ==
  UNCHANGED generations => Ids' = Ids /\ \A g : IsOpen(g)' = IsOpen(g)
BY DEF Ids, IsOpen

\* A conjunct holds on when nothing it speaks of changes.
LEMMA Undisturbed ==
  /\ Clocks /\ UNCHANGED <<now, moved, link, previous, queue>> => Clocks'
  /\ Tables /\ UNCHANGED <<generations, samples, stored>> => Tables'
  /\ Rollups /\ UNCHANGED <<generations, minute, hour, dirty>> => Rollups'
  /\ Sweeps /\ UNCHANGED <<dirty, sweeping, todo>> => Sweeps'
  /\ Fresh /\ UNCHANGED <<now, link, queue>> => Fresh'
  /\ Ordered /\ UNCHANGED stored => Ordered'
  /\ OneOpen /\ UNCHANGED generations => OneOpen'
  /\ Led /\ UNCHANGED <<now, generations, samples, stored>> => Led'
  /\ Owned /\ UNCHANGED <<link, generations, stored>> => Owned'
  /\ Covered /\ UNCHANGED <<moved, link, generations, stored>> => Covered'
<1>1. Clocks /\ UNCHANGED <<now, moved, link, previous, queue>> => Clocks'
  BY DEF Clocks
<1>2. Tables /\ UNCHANGED <<generations, samples, stored>> => Tables'
  BY DEF Tables, Ids
<1>3. Rollups /\ UNCHANGED <<generations, minute, hour, dirty>> => Rollups'
  BY DEF Rollups, Ids
<1>4. Sweeps /\ UNCHANGED <<dirty, sweeping, todo>> => Sweeps'
  BY DEF Sweeps
<1>5. Fresh /\ UNCHANGED <<now, link, queue>> => Fresh'
  BY DEF Fresh
<1>6. Ordered /\ UNCHANGED stored => Ordered'
  BY DEF Ordered
<1>7. OneOpen /\ UNCHANGED generations => OneOpen'
  BY DEF OneOpen, Ids, IsOpen
<1>8. Led /\ UNCHANGED <<now, generations, samples, stored>> => Led'
  BY DEF Led, Ids, IsOpen, History
<1>9. Owned /\ UNCHANGED <<link, generations, stored>> => Owned'
  BY DEF Owned, Ids, History
<1>10. Covered /\ UNCHANGED <<moved, link, generations, stored>> => Covered'
  <2> SUFFICES ASSUME Covered, UNCHANGED <<moved, link, generations, stored>> PROVE Covered'
    OBVIOUS
  <2>1. Ids' = Ids /\ \A g : IsOpen(g)' = IsOpen(g)
    BY OpenStays
  <2>2. Total' = Total /\ \A g : History(g)' = History(g)
    BY <2>1, TotalStays
  <2> QED BY <2>1, <2>2 DEF Covered
<1> QED BY <1>1, <1>2, <1>3, <1>4, <1>5, <1>6, <1>7, <1>8, <1>9, <1>10

\* The parts of the invariant, and what they say together.
LEMMA Parts ==
  ASSUME IInv
  PROVE  /\ Clocks /\ Tables /\ Rollups /\ Sweeps /\ Fresh /\ Ordered /\ OneOpen /\ Led
         /\ Owned /\ Covered /\ Spans /\ Total \in Nat
BY SpansHold, TotalIsNat DEF IInv

\* A poll: the link counts, and what it counted is not in the sum yet.
LEMMA PollPresentStep == IInv /\ PollPresent => IInv'
<1> SUFFICES ASSUME IInv, PollPresent PROVE IInv'
  OBVIOUS
<1>1. /\ Clocks /\ Tables /\ Rollups /\ Sweeps /\ Fresh /\ Ordered /\ OneOpen /\ Led
      /\ Owned /\ Covered /\ Spans /\ Total \in Nat
  BY Parts
<1>2. PICK identity \in {link.identity, link.identity + 1} \cap 0 .. MaxLinks,
           counter \in 0 .. MaxTraffic :
        LET l == [identity |-> identity, counter |-> counter]
        IN  /\ link' = l /\ moved' = moved + Counted(link, l)
            /\ queue' = (IF previous # NoLink /\ Differs(previous, l)
                           THEN <<Event("reset", l)>> ELSE <<>>) \o <<Event("snapshot", l)>>
            /\ previous' = l
  BY DEF PollPresent
<1>3. PICK l : l = [identity |-> identity, counter |-> counter]
  OBVIOUS
<1>4. /\ link' = l /\ moved' = moved + Counted(link, l) /\ previous' = l
      /\ queue' = (IF previous # NoLink /\ Differs(previous, l)
                     THEN <<Event("reset", l)>> ELSE <<>>) \o <<Event("snapshot", l)>>
  BY <1>2, <1>3
<1>5. UNCHANGED <<now, faults, tables, sweep>>
  BY DEF PollPresent
<1>6. l \in Links /\ l.identity = identity /\ l.counter = counter
  BY <1>3 DEF Links
<1>7. /\ now \in 0 .. MaxTime /\ moved \in Nat /\ link \in Links
      /\ link.identity \in Nat /\ link.counter \in Nat /\ counter \in Nat
  BY <1>1, Sizes DEF Clocks, Links
<1>8. /\ Counted(link, l) \in Nat
      /\ link.identity = l.identity => l.counter - link.counter <= Counted(link, l)
  BY <1>6, <1>7 DEF Counted
<1>9. PICK r : r = Event("reset", l)
  OBVIOUS
<1>10. PICK e : e = Event("snapshot", l)
  OBVIOUS
<1>11. /\ r \in Happenings /\ e \in Happenings /\ r.at = now /\ e.at = now
       /\ r.kind = "reset" /\ e.identity = l.identity /\ e.counter = l.counter
  BY <1>6, <1>7, <1>9, <1>10 DEF Event, Happenings, Links
<1>12. queue' = <<r>> \o <<e>> \/ queue' = <<>> \o <<e>>
  BY <1>4, <1>9, <1>10
<1>13. queue' \in Seq(Happenings) /\ \A i \in 1 .. Len(queue') : queue'[i] \in {r, e}
  <2>1. <<e>> \in Seq(Happenings) /\ <<r>> \in Seq(Happenings) /\ Len(<<r>>) = 1 /\ Len(<<e>>) = 1
    BY <1>11
  <2>2. CASE queue' = <<r>> \o <<e>>
    BY <2>1, <2>2, ConcatProperties
  <2>3. CASE queue' = <<>> \o <<e>>
    <3>1. queue' = <<e>>
      BY <2>1, <2>3, ConcatEmptySeq
    <3> QED BY <2>1, <3>1
  <2> QED BY <1>12, <2>2, <2>3
<1>14. Clocks'
  BY <1>1, <1>4, <1>5, <1>6, <1>7, <1>8, <1>13, SMTT(30) DEF Clocks
<1>15. Fresh'
  BY <1>4, <1>5, <1>11, <1>13 DEF Fresh
<1>16. UNCHANGED <<generations, samples, stored, minute, hour, dirty, sweeping, todo>>
  BY <1>5 DEF tables, sweep
<1>17. \A g \in Ids : generations[g].identity \in Nat /\ generations[g].identity <= link.identity
  <2>1. \A g \in Ids : generations[g] \in Generations
    BY <1>1, ElementOfSeq DEF Tables, Ids
  <2> QED BY <1>1, <2>1, Sizes DEF Owned, Generations
<1>18. Owned'
  BY <1>1, <1>2, <1>4, <1>6, <1>7, <1>16, <1>17, TotalStays, OpenStays, SMTT(30) DEF Owned
<1>19. Covered'
  <2>1. Total' = Total /\ Ids' = Ids
        /\ \A g : History(g)' = History(g) /\ IsOpen(g)' = IsOpen(g)
    BY <1>16, TotalStays, OpenStays
  <2>2. Total' <= moved'
    BY <1>1, <1>4, <1>7, <1>8, <2>1 DEF Covered
  <2>3. ASSUME NEW g \in Ids, IsOpen(g), generations[g].identity = l.identity
        PROVE  l.counter - LastRow(History(g)).counter <= moved' - Total
    <3>1. l.identity = link.identity
      BY <1>2, <1>6, <1>7, <1>17, <2>3, SMTT(30)
    <3>2. link.counter - LastRow(History(g)).counter <= moved - Total
      BY <1>1, <2>3, <3>1 DEF Covered
    <3>3. LastRow(History(g)).counter \in Nat
      BY <1>1 DEF Spans
    <3> QED BY <1>1, <1>4, <1>6, <1>7, <1>8, <3>1, <3>2, <3>3, SMTT(30)
  <2> QED BY <1>4, <1>16, <2>1, <2>2, <2>3 DEF Covered
<1> QED BY <1>1, <1>5, <1>14, <1>15, <1>16, <1>18, <1>19, Undisturbed DEF IInv

\* A poll that finds no link.
LEMMA PollAbsentStep == IInv /\ PollAbsent => IInv'
<1> SUFFICES ASSUME IInv, PollAbsent PROVE IInv'
  OBVIOUS
<1>1. /\ Clocks /\ Tables /\ Rollups /\ Sweeps /\ Fresh /\ Ordered /\ OneOpen /\ Led
      /\ Owned /\ Covered
  BY Parts
<1>2. PICK r : r = Event("reset", previous)
  OBVIOUS
<1>3. queue' = <<r>> /\ previous' = NoLink /\ UNCHANGED <<now, link, moved, tables, sweep>>
  BY <1>2 DEF PollAbsent
<1>4. r \in Happenings /\ r.at = now /\ r.kind = "reset"
  BY <1>1, <1>2 DEF Clocks, Links, Event, Happenings
<1>5. queue' \in Seq(Happenings) /\ Len(queue') = 1 /\ queue'[1] = r
  BY <1>3, <1>4
<1>6. NoLink \in Links
  BY Sizes DEF NoLink, Links
<1>7. Clocks'
  BY <1>1, <1>3, <1>5, <1>6 DEF Clocks
<1>8. Fresh'
  BY <1>3, <1>4, <1>5 DEF Fresh
<1> QED BY <1>1, <1>3, <1>7, <1>8, Undisturbed DEF IInv, tables, sweep

\* Events are taken from the bus as they came.
LEMMA TakeKeeps ==
  ASSUME Clocks, Fresh, Take, UNCHANGED <<now, link, moved, collector>>
  PROVE  Clocks' /\ Fresh' /\ Head(queue) \in Happenings /\ Head(queue).at = now
         /\ (Head(queue).kind = "snapshot" =>
               Head(queue).identity = link.identity /\ Head(queue).counter = link.counter)
<1>1. queue \in Seq(Happenings) /\ queue # <<>> /\ queue' = Tail(queue)
  BY DEF Clocks, Take
<1>2. /\ Head(queue) \in Happenings /\ Tail(queue) \in Seq(Happenings)
      /\ Len(queue) \in Nat /\ Len(queue) > 0 /\ Len(Tail(queue)) = Len(queue) - 1
      /\ \A i \in 1 .. Len(Tail(queue)) : Tail(queue)[i] = queue[i + 1]
      /\ Head(queue) = queue[1]
  BY <1>1, HeadTailProperties, LenProperties, EmptySeq
<1>3. Clocks'
  BY <1>1, <1>2 DEF Clocks, collector
<1>4. Fresh'
  <2>1. \A i \in 1 .. Len(queue') : i + 1 \in 1 .. Len(queue) /\ queue'[i] = queue[i + 1]
    BY <1>1, <1>2
  <2> QED BY <2>1 DEF Fresh
<1> QED BY <1>2, <1>3, <1>4 DEF Fresh

\* A minute more is to be recomputed.
LEMMA DirtyGrows ==
  ASSUME Rollups, NEW S, S \subseteq Ids', NEW at \in 0 .. MaxTime, Ids \subseteq Ids',
         dirty' = dirty \cup {MinuteOf(g, at) : g \in S}, UNCHANGED <<minute, hour>>
  PROVE  Rollups'
<1>1. Bucket(at, M) \in Minutes
  BY MinutesAndHours
<1>2. \A g \in S : MinuteOf(g, at) \in {M} \X Ids' \X Minutes
  BY <1>1 DEF MinuteOf
<1> QED BY <1>2 DEF Rollups

\* A reset ends the open generation.
LEMMA StoreResetStep == IInv /\ StoreReset => IInv'
<1> SUFFICES ASSUME IInv, StoreReset PROVE IInv'
  OBVIOUS
<1>1. /\ Clocks /\ Tables /\ Rollups /\ Sweeps /\ Fresh /\ Ordered /\ OneOpen /\ Led
      /\ Owned /\ Covered /\ Spans /\ Total \in Nat
  BY Parts
<1>2. /\ Take /\ generations' = Close(OpenIds)
      /\ UNCHANGED <<now, link, moved, collector, faults, samples, stored, minute, hour, sweep>>
  BY DEF StoreReset
<1>3. Clocks' /\ Fresh' /\ Head(queue) \in Happenings
  BY <1>1, <1>2, TakeKeeps
<1>4. generations \in Seq(Generations)
  BY <1>1 DEF Tables
<1>5. /\ generations' \in Seq(Generations) /\ Ids' = Ids
      /\ \A g \in Ids : generations'[g].identity = generations[g].identity /\ ~ IsOpen(g)'
  BY <1>2, <1>4, CloseKeeps DEF Ids, OpenIds, IsOpen
<1>6. Tables'
  BY <1>1, <1>2, <1>5 DEF Tables
<1>7. dirty \subseteq dirty' /\ Rollups'
  <2>1. PICK at \in 0 .. MaxTime : at = Head(queue).at
    BY <1>3 DEF Happenings
  <2>2. \E S : S \subseteq Ids /\ dirty' = dirty \cup {MinuteOf(g, at) : g \in S}
    <3>1. CASE OpenIds = {}
      <4>1. dirty' = dirty
        BY <3>1 DEF StoreReset
      <4>2. dirty' = dirty \cup {MinuteOf(g, at) : g \in {}}
        BY <4>1
      <4> QED BY <4>2
    <3>2. CASE OpenIds # {}
      <4>1. PICK g \in OpenIds : dirty' = dirty \cup {MinuteOf(g, at)}
        BY <2>1, <3>2 DEF StoreReset
      <4>2. {g} \subseteq Ids /\ {MinuteOf(h, at) : h \in {g}} = {MinuteOf(g, at)}
        BY <4>1 DEF OpenIds
      <4> QED BY <4>1, <4>2
    <3> QED BY <3>1, <3>2
  <2> QED BY <1>1, <1>2, <1>5, <2>2, DirtyGrows
<1>8. Sweeps'
  BY <1>1, <1>2, <1>7 DEF Sweeps, sweep
<1>9. OneOpen' /\ Led'
  BY <1>5 DEF OneOpen, Led
<1>10. Total' = Total /\ \A g : History(g)' = History(g)
  BY <1>2, <1>5, TotalStays
<1>11. Owned' /\ Covered'
  BY <1>1, <1>2, <1>5, <1>10 DEF Owned, Covered
<1> QED BY <1>1, <1>2, <1>3, <1>6, <1>7, <1>8, <1>9, <1>11, Undisturbed DEF IInv

\* A sample that goes on with the open generation is later than all of its rows,
\* and counts no less.
LEMMA GoesOnAdds ==
  ASSUME IInv, StoreSnapshot, NEW g \in Ids, GoesOn(g, Head(queue))
  PROVE  \E row \in Samples :
           /\ row.generation = g /\ row.at = now /\ row.counter = link.counter
           /\ IsOpen(g) /\ generations[g].identity = link.identity
           /\ generations' \in Seq(Generations) /\ Ids' = Ids
           /\ \A h \in Ids : generations'[h].identity = generations[h].identity
                                 /\ (IsOpen(h)' <=> IsOpen(h))
           /\ samples' = samples \cup {row} /\ stored' = stored \cup {row}
           /\ dirty' = dirty \cup {MinuteOf(g, now)}
           /\ \A s \in History(g) : /\ s.at < row.at /\ s.counter <= row.counter
                                     /\ s.counter <= LastRow(History(g)).counter
           /\ \A h : History(h)' = IF h = g THEN History(g) \cup {row} ELSE History(h)
           /\ Take /\ Clocks' /\ Fresh'
           /\ UNCHANGED <<now, link, moved, collector, faults, minute, hour, sweep>>
<1>1. /\ Clocks /\ Tables /\ Rollups /\ Sweeps /\ Fresh /\ Ordered /\ OneOpen /\ Led
      /\ Owned /\ Covered /\ Spans /\ Total \in Nat
  BY Parts
<1>2. PICK e : e = Head(queue)
  OBVIOUS
<1>3. UNCHANGED <<now, link, moved, collector, faults, minute, hour, sweep>>
      /\ Take /\ e.kind = "snapshot"
  BY <1>2 DEF StoreSnapshot
<1>4. /\ Clocks' /\ Fresh' /\ e \in Happenings /\ e.at = now
      /\ e.identity = link.identity /\ e.counter = link.counter
  BY <1>1, <1>2, <1>3, TakeKeeps
<1>5. IsOpen(g) /\ generations[g].identity = e.identity
  BY <1>2 DEF GoesOn
<1>6. {h \in Ids : GoesOn(h, e)} = {g}
  BY <1>1, <1>2, <1>5 DEF OneOpen, GoesOn
<1>7. Max({g}) = g
  BY DEF Max
<1>8. PICK row : row = [generation |-> g, at |-> e.at, counter |-> e.counter]
  OBVIOUS
<1>9. /\ generations' = Close({}) \o <<>>
      /\ samples' = samples \cup {row} /\ stored' = stored \cup {row}
      /\ dirty' = dirty \cup {MinuteOf(h, e.at) : h \in {} \cup {g}}
  BY <1>2, <1>6, <1>7, <1>8 DEF StoreSnapshot
<1>10. generations \in Seq(Generations)
  BY <1>1 DEF Tables
<1>11. /\ generations' \in Seq(Generations) /\ Ids' = Ids
       /\ \A h \in Ids : generations'[h].identity = generations[h].identity
                           /\ (IsOpen(h)' <=> IsOpen(h))
  <2>1. /\ Close({}) \in Seq(Generations) /\ Len(Close({})) = Len(generations)
        /\ \A h \in Ids : Close({})[h].identity = generations[h].identity
        /\ \A h \in Ids : Close({})[h].open <=> IsOpen(h)
    BY <1>10, CloseKeeps
  <2>2. generations' = Close({})
    BY <1>9, <2>1, ConcatEmptySeq
  <2> QED BY <2>1, <2>2 DEF Ids, IsOpen
<1>12. row \in Samples /\ row.generation = g /\ row.at = now /\ row.counter = link.counter
       /\ now \in Nat /\ link.counter \in Nat
  <2>1. Ids \subseteq Nat
    BY <1>10, LenProperties DEF Ids
  <2> QED BY <1>1, <1>4, <1>8, <2>1, Sizes DEF Samples, Happenings, Clocks, Links
<1>13. \A s \in stored : /\ s.at \in Nat /\ s.counter \in Nat /\ s \in Samples
                         /\ s \in History(g) <=> s.generation = g
  BY <1>1, Sizes DEF Tables, Samples, History
<1>14. PICK l : l = LastRow(History(g))
  OBVIOUS
<1>15. /\ l \in History(g) /\ l \in stored
       /\ \A s \in History(g) : s.at <= l.at /\ s.at < row.at
                                  /\ s.counter <= l.counter /\ s.counter <= row.counter
  <2>1. PICK s0 \in samples : s0.generation = g /\ \A t \in History(g) : t.at <= s0.at
    BY <1>1, <1>5 DEF Led
  <2>2. s0 \in Rows(g) /\ Rows(g) \subseteq History(g) /\ Rows(g) \subseteq Samples
        /\ History(g) \subseteq stored
    BY <1>1, <2>1 DEF Rows, History, Tables
  <2>3. PICK k : k = LastRow(Rows(g))
    OBVIOUS
  <2>4. k \in Rows(g) /\ s0.at <= k.at
    BY <2>2, <2>3, LastRowIsLast
  <2>5. e.counter >= k.counter /\ e.at > k.at
    BY <1>2, <2>2, <2>3 DEF GoesOn
  <2>6. l \in History(g) /\ \A s \in History(g) : s.at <= l.at
    BY <1>1, <1>14 DEF Spans
  <2>7. k \in stored /\ l \in stored /\ k.generation = g /\ l.generation = g
    BY <2>2, <2>4, <2>6 DEF History
  <2>8. k.at = l.at
    BY <1>13, <2>1, <2>2, <2>4, <2>6, <2>7
  <2>9. k = l
    BY <1>1, <2>7, <2>8 DEF Ordered
  <2>10. \A s \in History(g) : s \in stored /\ s.generation = g /\ s.at \in Nat /\ s.counter \in Nat
    BY <1>13 DEF History
  <2>11. \A s \in History(g) : s.counter <= l.counter
    BY <1>1, <2>6, <2>7, <2>10 DEF Ordered
  <2> QED BY <1>4, <1>12, <2>5, <2>6, <2>7, <2>9, <2>10, <2>11
<1>16. \A h : History(h)' = IF h = g THEN History(g) \cup {row} ELSE History(h)
  BY <1>9, <1>12 DEF History
<1>17. {MinuteOf(h, e.at) : h \in {} \cup {g}} = {MinuteOf(g, now)}
  BY <1>4
<1> QED BY <1>3, <1>4, <1>5, <1>9, <1>11, <1>12, <1>14, <1>15, <1>16, <1>17

\* It is stored.
LEMMA GoesOnStep ==
  ASSUME IInv, StoreSnapshot, NEW g \in Ids, GoesOn(g, Head(queue))
  PROVE  IInv'
<1>1. /\ Clocks /\ Tables /\ Rollups /\ Sweeps /\ Fresh /\ Ordered /\ OneOpen /\ Led
      /\ Owned /\ Covered /\ Spans /\ Total \in Nat
  BY Parts
<1>2. PICK row \in Samples :
        /\ row.generation = g /\ row.at = now /\ row.counter = link.counter
        /\ IsOpen(g) /\ generations[g].identity = link.identity
        /\ generations' \in Seq(Generations) /\ Ids' = Ids
        /\ \A h \in Ids : generations'[h].identity = generations[h].identity
                              /\ (IsOpen(h)' <=> IsOpen(h))
        /\ samples' = samples \cup {row} /\ stored' = stored \cup {row}
        /\ dirty' = dirty \cup {MinuteOf(g, now)}
        /\ \A s \in History(g) : /\ s.at < row.at /\ s.counter <= row.counter
                                  /\ s.counter <= LastRow(History(g)).counter
        /\ \A h : History(h)' = IF h = g THEN History(g) \cup {row} ELSE History(h)
        /\ Take /\ Clocks' /\ Fresh'
        /\ UNCHANGED <<now, link, moved, collector, faults, minute, hour, sweep>>
  BY GoesOnAdds
<1>3. /\ samples' = samples \cup {row} /\ stored' = stored \cup {row}
      /\ dirty' = dirty \cup {MinuteOf(g, now)}
      /\ UNCHANGED <<now, link, moved, collector, faults, minute, hour, sweep>>
  BY <1>2
<1>4. Clocks' /\ Fresh'
  BY <1>2
<1>5. IsOpen(g) /\ generations[g].identity = link.identity
  BY <1>2
<1>6. /\ generations' \in Seq(Generations) /\ Ids' = Ids
      /\ \A h \in Ids : generations'[h].identity = generations[h].identity
                           /\ (IsOpen(h)' <=> IsOpen(h))
  BY <1>2
<1>7. row \in Samples /\ row.generation = g /\ row.at = now /\ row.counter = link.counter
      /\ now \in Nat /\ link.counter \in Nat
  BY <1>1, <1>2, Sizes DEF Clocks, Links
<1>8. \A s \in stored : /\ s.at \in Nat /\ s.counter \in Nat /\ s \in Samples
                        /\ s \in History(g) <=> s.generation = g
  BY <1>1, Sizes DEF Tables, Samples, History
<1>9. PICK l : l = LastRow(History(g))
  OBVIOUS
<1>10. /\ l \in History(g) /\ l \in stored
       /\ \A s \in History(g) : s.at <= l.at /\ s.at < row.at
                                  /\ s.counter <= l.counter /\ s.counter <= row.counter
  <2>1. l \in History(g) /\ \A s \in History(g) : s.at <= l.at
    BY <1>1, <1>9 DEF Spans
  <2> QED BY <1>2, <1>9, <2>1 DEF History
<1>11. \A h : History(h)' = IF h = g THEN History(g) \cup {row} ELSE History(h)
  BY <1>2
<1>12. Tables'
  BY <1>1, <1>3, <1>6, <1>7 DEF Tables
<1>13. dirty \subseteq dirty' /\ Rollups'
  <2>1. {g} \subseteq Ids' /\ now \in 0 .. MaxTime /\ Ids \subseteq Ids'
        /\ dirty' = dirty \cup {MinuteOf(h, now) : h \in {g}}
    BY <1>1, <1>3, <1>6 DEF Clocks
  <2> QED BY <1>1, <1>3, <1>6, <2>1, DirtyGrows
<1>14. Sweeps'
  BY <1>1, <1>3, <1>13 DEF Sweeps, sweep
<1>15. Ordered'
  <2> SUFFICES ASSUME NEW s \in stored', NEW t \in stored', s.generation = t.generation
               PROVE  (s.at < t.at => s.counter <= t.counter) /\ (s.at = t.at => s = t)
    BY DEF Ordered
  <2>1. CASE s \in stored /\ t \in stored
    BY <1>1, <2>1 DEF Ordered
  <2>2. CASE s = row /\ t \in stored
    BY <1>7, <1>8, <1>10, <2>2
  <2>3. CASE s \in stored /\ t = row
    BY <1>7, <1>8, <1>10, <2>3
  <2>4. CASE s = row /\ t = row
    BY <1>7, <2>4
  <2> QED BY <1>3, <2>1, <2>2, <2>3, <2>4
<1>16. OneOpen'
  BY <1>1, <1>6 DEF OneOpen
<1>17. Led'
  <2> SUFFICES ASSUME NEW h \in Ids, IsOpen(h)
               PROVE  \E s \in samples' : /\ s.generation = h /\ now' <= s.at + MaxPause
                                          /\ \A t \in History(h)' : t.at <= s.at
    BY <1>6 DEF Led
  <2>1. h = g
    BY <1>1, <1>5 DEF OneOpen
  <2>2. row \in samples' /\ now' <= row.at + MaxPause
    BY <1>3, <1>7, Sizes
  <2>3. \A t \in History(h)' : t.at <= row.at
    <3>1. \A t \in History(g) : t.at \in Nat
      BY <1>8 DEF History
    <3>2. \A t \in History(g) : t.at <= row.at
      BY <1>7, <1>10, <3>1
    <3> QED BY <1>7, <1>11, <2>1, <3>2
  <2> QED BY <1>7, <2>1, <2>2, <2>3
<1>18. Owned'
  BY <1>1, <1>3, <1>6, <1>11 DEF Owned
<1>19. Covered'
  <2>1. Spans'
    BY <1>12, <1>15, <1>18, SpansHold, PTL
  <2>2. LastRow(History(g)') = row
    <3>1. PICK k : k = LastRow(History(g)')
      OBVIOUS
    <3>2. k \in History(g)' /\ row.at <= k.at
      BY <1>6, <1>11, <2>1, <3>1 DEF Spans
    <3>3. k = row
      BY <1>7, <1>8, <1>10, <1>11, <3>2 DEF History
    <3> QED BY <3>1, <3>3
  <2>3. FirstRow(History(g)') = FirstRow(History(g))
    <3>1. PICK k : k = FirstRow(History(g)')
      OBVIOUS
    <3>2. PICK f : f = FirstRow(History(g))
      OBVIOUS
    <3>3. f \in History(g) /\ \A s \in History(g) : f.at <= s.at
      BY <1>1, <3>2 DEF Spans
    <3>4. k \in History(g)' /\ k.at <= f.at
      BY <1>6, <1>11, <2>1, <3>1, <3>3 DEF Spans
    <3>5. k # row
      BY <1>7, <1>8, <1>10, <3>3, <3>4 DEF History
    <3>6. k \in History(g) /\ f.at <= k.at
      BY <1>11, <3>3, <3>4, <3>5
    <3>7. k \in stored /\ f \in stored /\ k.generation = f.generation /\ k.at = f.at
      BY <1>8, <3>3, <3>4, <3>6 DEF History
    <3>8. k = f
      BY <1>1, <3>7 DEF Ordered
    <3> QED BY <3>1, <3>2, <3>8
  <2>4. PICK d : d = [h \in Ids |-> Delta(h)]
    OBVIOUS
  <2>5. PICK b : b = [h \in Ids |-> Delta(h)']
    OBVIOUS
  <2>6. d \in [Ids -> Nat] /\ b \in [Ids -> Nat]
    BY <1>1, <1>6, <2>1, <2>4, <2>5 DEF Spans
  <2>7. \A h \in Ids : h # g => b[h] = d[h]
    <3>1. \A h : h # g => Delta(h)' = Delta(h)
      BY <1>11 DEF Delta, Truth, RowAt
    <3> QED BY <2>4, <2>5, <3>1
  <2>8. l.counter \in Nat /\ b[g] - d[g] = row.counter - l.counter
    <3>1. d[g] = l.counter - FirstRow(History(g)).counter
      BY <1>1, <1>9, <2>4 DEF Spans
    <3>2. b[g] = row.counter - FirstRow(History(g)).counter
      BY <1>6, <2>1, <2>2, <2>3, <2>5 DEF Spans
    <3>3. FirstRow(History(g)).counter \in Nat /\ l.counter \in Nat
      BY <1>1, <1>8, <1>10 DEF Spans, History
    <3> QED BY <1>7, <3>1, <3>2, <3>3
  <2>9. Total = SumFunctionOnSet(d, Ids) /\ Total' = SumFunctionOnSet(b, Ids)
    BY <1>6, <2>4, <2>5 DEF Total, SumFunction
  <2>10. Total' = Total + (row.counter - l.counter)
    <3>1. IsFiniteSet(Ids)
      BY <1>1, LenProperties, FS_Interval DEF Ids
    <3>2. SumFunctionOnSet(b, Ids) = SumFunctionOnSet(d, Ids) + (b[g] - d[g])
      BY <2>6, <2>7, <3>1, SumFunctionChanges
    <3> QED BY <2>8, <2>9, <3>2
  <2>11. link.counter - l.counter <= moved - Total
    BY <1>1, <1>4, <1>5, <1>9 DEF Covered
  <2>12. moved \in Nat
    BY <1>1 DEF Clocks
  <2>13. Total' <= moved /\ link.counter - row.counter <= moved - Total'
    BY <1>1, <1>7, <2>8, <2>10, <2>11, <2>12
  <2>14. \A h \in Ids : IsOpen(h) => h = g
    BY <1>1, <1>5 DEF OneOpen
  <2> QED BY <1>3, <1>6, <2>2, <2>13, <2>14 DEF Covered
<1> QED BY <1>4, <1>12, <1>13, <1>14, <1>15, <1>16, <1>17, <1>18, <1>19 DEF IInv

\* A sample that begins a generation ends the open one.
LEMMA BeginsAdds ==
  ASSUME IInv, StoreSnapshot, \A g \in Ids : ~GoesOn(g, Head(queue))
  PROVE  \E n \in Nat, row \in Samples :
           /\ row.generation = n /\ row.at = now /\ row.counter = link.counter
           /\ generations' \in Seq(Generations) /\ Ids' = Ids \cup {n} /\ n \notin Ids
           /\ \A h \in Ids : generations'[h].identity = generations[h].identity /\ ~ IsOpen(h)'
           /\ generations'[n].identity = link.identity
           /\ samples' = samples \cup {row} /\ stored' = stored \cup {row}
           /\ dirty' = dirty \cup {MinuteOf(h, now) : h \in OpenIds \cup {n}}
           /\ History(n)' = {row} /\ \A h \in Ids : History(h)' = History(h)
           /\ Take /\ Clocks' /\ Fresh'
           /\ UNCHANGED <<now, link, moved, collector, faults, minute, hour, sweep>>
<1>1. /\ Clocks /\ Tables /\ Rollups /\ Sweeps /\ Fresh /\ Ordered /\ OneOpen /\ Led
      /\ Owned /\ Covered /\ Spans /\ Total \in Nat
  BY Parts
<1>2. PICK e : e = Head(queue)
  OBVIOUS
<1>3. UNCHANGED <<now, link, moved, collector, faults, minute, hour, sweep>>
      /\ Take /\ e.kind = "snapshot"
  BY <1>2 DEF StoreSnapshot
<1>4. /\ Clocks' /\ Fresh' /\ e \in Happenings /\ e.at = now
      /\ e.identity = link.identity /\ e.counter = link.counter
  BY <1>1, <1>2, <1>3, TakeKeeps
<1>5. {h \in Ids : GoesOn(h, e)} = {}
  BY <1>2
<1>6. PICK n : n = Len(generations) + 1
  OBVIOUS
<1>7. PICK row : row = [generation |-> n, at |-> e.at, counter |-> e.counter]
  OBVIOUS
<1>8. PICK x : x = [identity |-> e.identity, open |-> TRUE]
  OBVIOUS
<1>9. /\ generations' = Close(OpenIds) \o <<x>>
      /\ samples' = samples \cup {row} /\ stored' = stored \cup {row}
      /\ dirty' = dirty \cup {MinuteOf(h, e.at) : h \in OpenIds \cup {n}}
  BY <1>2, <1>5, <1>6, <1>7, <1>8 DEF StoreSnapshot
<1>10. generations \in Seq(Generations) /\ Len(generations) \in Nat /\ n \in Nat
       /\ x \in Generations /\ x.identity = link.identity
  BY <1>1, <1>4, <1>6, <1>8, LenProperties DEF Tables, Happenings, Generations
<1>11. /\ generations' \in Seq(Generations) /\ Ids' = Ids \cup {n} /\ n \notin Ids
       /\ \A h \in Ids : generations'[h].identity = generations[h].identity /\ ~ IsOpen(h)'
       /\ generations'[n].identity = link.identity
  <2>1. PICK c : c = Close(OpenIds)
    OBVIOUS
  <2>2. /\ c \in Seq(Generations) /\ Len(c) = Len(generations)
        /\ \A h \in Ids : c[h].identity = generations[h].identity
        /\ \A h \in Ids : ~ c[h].open
    <3>1. \A h \in Ids : IsOpen(h) => h \in OpenIds
      BY DEF OpenIds
    <3> QED BY <1>10, <2>1, <3>1, CloseKeeps
  <2>3. <<x>> \in Seq(Generations) /\ Len(<<x>>) = 1 /\ <<x>>[1] = x
    BY <1>10
  <2>4. /\ generations' \in Seq(Generations) /\ Len(generations') = n
        /\ \A h \in 1 .. Len(c) : generations'[h] = c[h]
        /\ generations'[n] = x
    <3>1. generations' = c \o <<x>>
      BY <1>9, <2>1
    <3>2. generations' = Append(c, x)
      BY <1>10, <2>2, <3>1, AppendIsConcat
    <3> QED BY <1>6, <1>10, <2>2, <3>2, AppendProperties
  <2>5. \A h : h \in 1 .. n <=> h \in 1 .. Len(generations) \/ h = n
    BY <1>6, <1>10
  <2>6. Ids' = Ids \cup {n} /\ n \notin Ids /\ Ids = 1 .. Len(c)
    BY <1>6, <1>10, <2>2, <2>4, <2>5 DEF Ids
  <2> QED BY <1>10, <2>2, <2>4, <2>6 DEF IsOpen
<1>12. row \in Samples /\ row.generation = n /\ row.at = now /\ row.counter = link.counter
       /\ now \in Nat /\ link.counter \in Nat
  BY <1>1, <1>4, <1>7, <1>10, Sizes DEF Samples, Happenings, Clocks, Links
<1>13. \A s \in stored : s.generation # n
  BY <1>1, <1>11 DEF Tables
<1>14. History(n)' = {row} /\ \A h \in Ids : History(h)' = History(h)
  BY <1>9, <1>11, <1>12, <1>13 DEF History
<1>15. samples' = samples \cup {row} /\ stored' = stored \cup {row}
       /\ dirty' = dirty \cup {MinuteOf(h, now) : h \in OpenIds \cup {n}}
  BY <1>4, <1>9
<1>16. n \in Nat /\ row \in Samples
  BY <1>10, <1>12
<1> USE <1>16
<1> WITNESS n \in Nat, row \in Samples
<1> QED BY <1>3, <1>4, <1>11, <1>12, <1>14, <1>15

\* It is stored: nothing was counted in its generation yet.
LEMMA BeginsStep ==
  ASSUME IInv, StoreSnapshot, \A g \in Ids : ~GoesOn(g, Head(queue))
  PROVE  IInv'
<1>1. /\ Clocks /\ Tables /\ Rollups /\ Sweeps /\ Fresh /\ Ordered /\ OneOpen /\ Led
      /\ Owned /\ Covered /\ Spans /\ Total \in Nat
  BY Parts
<1>2. PICK n \in Nat, row \in Samples :
        /\ row.generation = n /\ row.at = now /\ row.counter = link.counter
        /\ generations' \in Seq(Generations) /\ Ids' = Ids \cup {n} /\ n \notin Ids
        /\ \A h \in Ids : generations'[h].identity = generations[h].identity /\ ~ IsOpen(h)'
        /\ generations'[n].identity = link.identity
        /\ samples' = samples \cup {row} /\ stored' = stored \cup {row}
        /\ dirty' = dirty \cup {MinuteOf(h, now) : h \in OpenIds \cup {n}}
        /\ History(n)' = {row} /\ \A h \in Ids : History(h)' = History(h)
        /\ Take /\ Clocks' /\ Fresh'
        /\ UNCHANGED <<now, link, moved, collector, faults, minute, hour, sweep>>
  BY BeginsAdds
<1>3. /\ samples' = samples \cup {row} /\ stored' = stored \cup {row}
      /\ dirty' = dirty \cup {MinuteOf(h, now) : h \in OpenIds \cup {n}}
      /\ UNCHANGED <<now, link, moved, collector, faults, minute, hour, sweep>>
  BY <1>2
<1>4. Clocks' /\ Fresh'
  BY <1>2
<1>5. generations \in Seq(Generations) /\ Len(generations) \in Nat
  BY <1>1, LenProperties DEF Tables
<1>6. /\ generations' \in Seq(Generations) /\ Ids' = Ids \cup {n} /\ n \notin Ids
      /\ \A h \in Ids : generations'[h].identity = generations[h].identity /\ ~ IsOpen(h)'
      /\ generations'[n].identity = link.identity
  BY <1>2
<1>7. row \in Samples /\ row.generation = n /\ row.at = now /\ row.counter = link.counter
      /\ now \in Nat /\ link.counter \in Nat
  BY <1>1, <1>2, Sizes DEF Clocks, Links
<1>8. \A s \in stored : s.generation # n
  BY <1>1, <1>6 DEF Tables
<1>9. History(n)' = {row} /\ \A h \in Ids : History(h)' = History(h)
  BY <1>2
<1>10. Tables'
  BY <1>1, <1>3, <1>6, <1>7 DEF Tables
<1>11. dirty \subseteq dirty' /\ Rollups'
  <2>1. OpenIds \cup {n} \subseteq Ids' /\ now \in 0 .. MaxTime
    BY <1>1, <1>6 DEF Clocks, OpenIds
  <2> QED BY <1>1, <1>3, <1>6, <2>1, DirtyGrows
<1>12. Sweeps'
  BY <1>1, <1>3, <1>11 DEF Sweeps, sweep
<1>13. Ordered'
  <2> SUFFICES ASSUME NEW s \in stored', NEW t \in stored', s.generation = t.generation
               PROVE  (s.at < t.at => s.counter <= t.counter) /\ (s.at = t.at => s = t)
    BY DEF Ordered
  <2>1. CASE s \in stored /\ t \in stored
    BY <1>1, <2>1 DEF Ordered
  <2>2. CASE s = row /\ t = row
    BY <1>7, <2>2
  <2> QED BY <1>3, <1>7, <1>8, <2>1, <2>2
<1>14. OneOpen'
  BY <1>6 DEF OneOpen
<1>15. Led'
  <2>1. row \in samples' /\ now' <= row.at + MaxPause
    BY <1>3, <1>7, Sizes
  <2>2. \A t \in History(n)' : t.at <= row.at
    BY <1>7, <1>9
  <2> QED BY <1>6, <1>7, <2>1, <2>2 DEF Led
<1>16. Owned'
  <2>1. \A g \in Ids : History(g)' # {} /\ generations'[g].identity <= link'.identity
    BY <1>1, <1>3, <1>6, <1>9 DEF Owned
  <2>2. link.identity \in Nat
    BY <1>1, Sizes DEF Clocks, Links
  <2> QED BY <1>3, <1>6, <1>9, <2>1, <2>2 DEF Owned
<1>17. Covered'
  <2>1. Spans'
    BY <1>10, <1>13, <1>16, SpansHold, PTL
  <2>2. LastRow(History(n)') = row /\ FirstRow(History(n)') = row
    BY <1>6, <1>9, <2>1 DEF Spans
  <2>3. PICK d : d = [h \in Ids |-> Delta(h)]
    OBVIOUS
  <2>4. PICK b : b = [h \in Ids \cup {n} |-> Delta(h)']
    OBVIOUS
  <2>5. d \in [Ids -> Nat] /\ b \in [Ids \cup {n} -> Nat]
    BY <1>1, <1>6, <2>1, <2>3, <2>4 DEF Spans
  <2>6. \A h \in Ids : d[h] = b[h]
    <3>1. \A h \in Ids : Delta(h)' = Delta(h)
      BY <1>9 DEF Delta, Truth, RowAt
    <3> QED BY <2>3, <2>4, <3>1
  <2>7. b[n] = 0
    BY <1>6, <1>7, <2>1, <2>2, <2>4 DEF Spans
  <2>8. Total = SumFunctionOnSet(d, Ids) /\ Total' = SumFunctionOnSet(b, Ids \cup {n})
    BY <1>6, <2>3, <2>4 DEF Total, SumFunction
  <2>9. Total' = Total
    <3>1. IsFiniteSet(Ids)
      BY <1>5, FS_Interval DEF Ids
    <3>2. SumFunctionOnSet(b, Ids \cup {n}) = SumFunctionOnSet(d, Ids) + b[n]
      BY <1>6, <2>5, <2>6, <3>1, SumFunctionGrows
    <3> QED BY <1>1, <2>7, <2>8, <3>2
  <2>10. moved \in Nat /\ Total <= moved
    BY <1>1 DEF Clocks, Covered
  <2>11. Total' <= moved /\ link.counter - row.counter <= moved - Total'
    BY <1>1, <1>7, <2>9, <2>10
  <2> QED BY <1>3, <1>6, <2>2, <2>11 DEF Covered
<1> QED BY <1>4, <1>10, <1>11, <1>12, <1>13, <1>14, <1>15, <1>16, <1>17 DEF IInv

\* A sample is stored.
LEMMA StoreSnapshotStep == IInv /\ StoreSnapshot => IInv'
BY GoesOnStep, BeginsStep

\* A minute is summed, from rows of its generation.
LEMMA RecomputeMinuteStep ==
  ASSUME IInv, NEW g \in Ids, NEW m \in Minutes, RecomputeMinute(g, m)
  PROVE  IInv'
<1>1. /\ Clocks /\ Tables /\ Rollups /\ Sweeps /\ Fresh /\ Ordered /\ OneOpen /\ Led
      /\ Owned /\ Covered
  BY Parts
<1>2. PICK a : a = AggregateRows(LoadRows(g, m))
  OBVIOUS
<1>3. /\ minute' = With(minute, <<g, m>>, a) /\ todo' = todo \ {<<M, g, m>>}
      /\ dirty' = (dirty \ {<<M, g, m>>}) \cup {<<H, g, Bucket(m, H)>>} /\ sweeping
      /\ UNCHANGED <<now, link, moved, collector, queue, faults,
                     generations, samples, stored, hour, sweeping>>
  BY <1>2 DEF RecomputeMinute
<1>4. a \in Aggregates
  <2>1. Rows(g) \subseteq stored /\ Rows(g) \subseteq Samples /\ stored \subseteq Samples
        /\ \A s \in Rows(g) : s.generation = g
    BY <1>1 DEF Rows, Tables
  <2>2. LoadRows(g, m) \subseteq Rows(g)
    <3>1. PICK before : before = {s \in Rows(g) : s.at < m}
      OBVIOUS
    <3>2. before # {} => LastRow(before) \in before
      BY <2>1, <3>1, LastRowIsLast
    <3> QED BY <3>1, <3>2 DEF LoadRows
  <2> QED BY <1>1, <1>2, <2>1, <2>2, AggregatesAreNat
<1>5. Rollups'
  <2>1. Ids' = Ids
    BY <1>3 DEF Ids
  <2>2. DOMAIN minute' = DOMAIN minute \cup {<<g, m>>}
        /\ \A k \in DOMAIN minute' : minute'[k] = a \/ (k \in DOMAIN minute /\ minute'[k] = minute[k])
    BY <1>3 DEF With
  <2>3. <<H, g, Bucket(m, H)>> \in {H} \X Ids \X Hours /\ <<g, m>> \in Ids \X Minutes
    BY MinutesAndHours
  <2> QED BY <1>1, <1>3, <1>4, <2>1, <2>2, <2>3 DEF Rollups
<1>6. Sweeps'
  BY <1>1, <1>3 DEF Sweeps
<1>7. Clocks'
  BY <1>1, <1>3 DEF Clocks, collector
<1> QED BY <1>1, <1>3, <1>5, <1>6, <1>7, Undisturbed DEF IInv

\* An hour is summed, from its minutes.
LEMMA RecomputeHourStep ==
  ASSUME IInv, NEW g \in Ids, NEW h \in Hours, RecomputeHour(g, h)
  PROVE  IInv'
<1>1. /\ Clocks /\ Tables /\ Rollups /\ Sweeps /\ Fresh /\ Ordered /\ OneOpen /\ Led
      /\ Owned /\ Covered
  BY Parts
<1>2. PICK parts : parts = {k \in DOMAIN minute : k[1] = g /\ h <= k[2] /\ k[2] < h + H}
  OBVIOUS
<1>3. PICK e : e = [k \in parts |-> minute[k].elapsed]
  OBVIOUS
<1>4. PICK d : d = [k \in parts |-> minute[k].delta]
  OBVIOUS
<1>5. PICK a : a = [elapsed |-> SumFunction(e), delta |-> SumFunction(d)]
  OBVIOUS
<1>6. /\ hour' = With(hour, <<g, h>>, a) /\ todo' = todo \ {<<H, g, h>>}
      /\ dirty' = dirty \ {<<H, g, h>>}
      /\ UNCHANGED <<now, link, moved, collector, queue, faults,
                     generations, samples, stored, minute, sweeping>>
  BY <1>2, <1>3, <1>4, <1>5 DEF RecomputeHour
<1>7. a \in Aggregates
  <2>1. IsFiniteSet(parts)
    <3>1. generations \in Seq(Generations) /\ parts \subseteq Ids \X Minutes
      BY <1>1, <1>2 DEF Tables, Rollups
    <3> QED BY <3>1, KeysAreFinite
  <2>2. \A k \in parts : minute[k] \in Aggregates
    BY <1>1, <1>2 DEF Rollups
  <2>3. e \in [parts -> Nat] /\ d \in [parts -> Nat] /\ DOMAIN e = parts /\ DOMAIN d = parts
    BY <1>3, <1>4, <2>2 DEF Aggregates
  <2>4. SumFunction(e) \in Nat /\ SumFunction(d) \in Nat
    BY <2>1, <2>3, SumFunctionIsNat DEF SumFunction
  <2> QED BY <1>5, <2>4 DEF Aggregates
<1>8. Rollups'
  <2>1. Ids' = Ids
    BY <1>6 DEF Ids
  <2>2. DOMAIN hour' = DOMAIN hour \cup {<<g, h>>}
        /\ \A k \in DOMAIN hour' : hour'[k] = a \/ (k \in DOMAIN hour /\ hour'[k] = hour[k])
    BY <1>6 DEF With
  <2>3. <<g, h>> \in Ids \X Hours
    OBVIOUS
  <2> QED BY <1>1, <1>6, <1>7, <2>1, <2>2, <2>3 DEF Rollups
<1>9. Sweeps'
  BY <1>1, <1>6 DEF Sweeps
<1>10. Clocks'
  BY <1>1, <1>6 DEF Clocks, collector
<1> QED BY <1>1, <1>6, <1>8, <1>9, <1>10, Undisturbed DEF IInv

\* Rows are deleted, and never the last one of the open generation.
LEMMA PruneStep == IInv /\ Prune => IInv'
<1> SUFFICES ASSUME IInv, Prune PROVE IInv'
  OBVIOUS
<1>1. /\ Clocks /\ Tables /\ Rollups /\ Sweeps /\ Fresh /\ Ordered /\ OneOpen /\ Led
      /\ Owned /\ Covered
  BY Parts
<1>2. PICK retention \in {RawRetention, RawFloor} : samples' = samples \ RawVictims(retention)
  BY DEF Prune
<1>3. /\ todo = {} /\ sweeping' = FALSE
      /\ UNCHANGED <<now, link, moved, collector, queue, faults,
                     generations, stored, minute, hour, dirty, todo>>
  BY DEF Prune
<1>4. Tables'
  BY <1>1, <1>2, <1>3 DEF Tables, Ids
<1>5. Sweeps'
  BY <1>1, <1>3 DEF Sweeps
<1>6. ASSUME NEW s \in samples, now <= s.at + MaxPause PROVE s \in samples'
  <2>1. now \in Nat /\ s.at \in Nat
    BY <1>1, Sizes DEF Clocks, Tables, Samples
  <2>2. retention \in Nat /\ RawFloor <= retention
    BY Sizes
  <2>3. now - retention \in Int
    BY <2>1, <2>2
  <2>4. Bucket(now - retention, M) \in Int /\ Bucket(now - retention, M) <= now - retention
    BY <2>3, Sizes, BucketStarts
  <2>5. ~ (s.at < Bucket(now - retention, M))
    BY <1>6, <2>1, <2>2, <2>4, Sizes
  <2> QED BY <1>2, <2>5 DEF RawVictims
<1>7. Led'
  BY <1>1, <1>3, <1>6 DEF Led, Ids, IsOpen, History
<1>8. Clocks'
  BY <1>1, <1>3 DEF Clocks, collector
<1> QED BY <1>1, <1>3, <1>4, <1>5, <1>7, <1>8, Undisturbed DEF IInv

\* Time passes, but not without a sample of the open generation.
LEMMA TickStep == IInv /\ Tick => IInv'
<1> SUFFICES ASSUME IInv, Tick PROVE IInv'
  OBVIOUS
<1>1. /\ Clocks /\ Tables /\ Rollups /\ Sweeps /\ Fresh /\ Ordered /\ OneOpen /\ Led
      /\ Owned /\ Covered
  BY Parts
<1>2. /\ queue = <<>> /\ now < MaxTime /\ now' = now + 1
      /\ \A g \in OpenIds : \E s \in stored : s.generation = g /\ now < s.at + MaxPause
      /\ UNCHANGED <<link, moved, previous, missing, queue, faults, tables, sweep>>
  BY DEF Tick
<1>3. now \in Nat /\ now' \in 0 .. MaxTime
  BY <1>1, <1>2, Sizes DEF Clocks
<1>4. Clocks'
  BY <1>1, <1>2, <1>3 DEF Clocks
<1>5. Fresh'
  BY <1>2 DEF Fresh
<1>6. UNCHANGED <<generations, samples, stored, minute, hour, dirty, sweeping, todo>>
  BY <1>2 DEF tables, sweep
<1>7. Led'
  <2> SUFFICES ASSUME NEW g \in Ids, IsOpen(g)
               PROVE  \E s \in samples : /\ s.generation = g /\ now + 1 <= s.at + MaxPause
                                         /\ \A t \in History(g) : t.at <= s.at
    BY <1>2, <1>6 DEF Led, Ids, IsOpen, History
  <2>1. PICK s \in samples : s.generation = g /\ \A t \in History(g) : t.at <= s.at
    BY <1>1 DEF Led
  <2>2. PICK t \in stored : t.generation = g /\ now < t.at + MaxPause
    BY <1>2 DEF OpenIds
  <2>3. t.at <= s.at /\ t.at \in Nat /\ s.at \in Nat
    BY <1>1, <2>1, <2>2, Sizes DEF History, Tables, Samples
  <2> QED BY <1>3, <2>1, <2>2, <2>3, Sizes
<1> QED BY <1>1, <1>2, <1>4, <1>5, <1>6, <1>7, Undisturbed DEF IInv

\* The clock is set back.
LEMMA SetBackStep == IInv /\ SetBack => IInv'
<1> SUFFICES ASSUME IInv, SetBack PROVE IInv'
  OBVIOUS
<1>1. /\ Clocks /\ Tables /\ Rollups /\ Sweeps /\ Fresh /\ Ordered /\ OneOpen /\ Led
      /\ Owned /\ Covered
  BY Parts
<1>2. /\ queue = <<>> /\ now > 0 /\ now' = now - 1
      /\ UNCHANGED <<link, moved, previous, missing, queue, tables, sweep>>
  BY DEF SetBack
<1>3. now \in Nat /\ now' \in 0 .. MaxTime
  BY <1>1, <1>2, Sizes DEF Clocks
<1>4. Clocks'
  BY <1>1, <1>2, <1>3 DEF Clocks
<1>5. Fresh'
  BY <1>2 DEF Fresh
<1>6. UNCHANGED <<generations, samples, stored, minute, hour, dirty, sweeping, todo>>
  BY <1>2 DEF tables, sweep
<1>7. Led'
  <2>1. \A s \in samples : s.at \in Nat
    BY <1>1, Sizes DEF Tables, Samples
  <2>2. \A s \in samples : now <= s.at + MaxPause => now - 1 <= s.at + MaxPause
    BY <1>3, <2>1, Sizes
  <2> QED BY <1>1, <1>2, <1>6, <2>2 DEF Led, Ids, IsOpen, History
<1> QED BY <1>1, <1>2, <1>4, <1>5, <1>6, <1>7, Undisturbed DEF IInv

\* The process ends and starts again.
LEMMA CrashStep == IInv /\ Crash => IInv'
<1> SUFFICES ASSUME IInv, Crash PROVE IInv'
  OBVIOUS
<1>1. /\ Clocks /\ Tables /\ Rollups /\ Sweeps /\ Fresh /\ Ordered /\ OneOpen /\ Led
      /\ Owned /\ Covered
  BY Parts
<1>2. /\ queue' = <<>> /\ previous' = NoLink /\ sweeping' = FALSE /\ todo' = {}
      /\ UNCHANGED <<now, link, moved, tables>>
  BY DEF Crash
<1>3. NoLink \in Links
  BY Sizes DEF NoLink, Links
<1>4. Clocks'
  BY <1>1, <1>2, <1>3 DEF Clocks
<1>5. Fresh'
  BY <1>2 DEF Fresh
<1>6. Sweeps'
  BY <1>2 DEF Sweeps
<1> QED BY <1>1, <1>2, <1>4, <1>5, <1>6, Undisturbed DEF IInv, tables

\* A sweep begins with what is due.
LEMMA StartSweepStep == IInv /\ StartSweep => IInv'
<1> SUFFICES ASSUME IInv, StartSweep PROVE IInv'
  OBVIOUS
<1>1. /\ Clocks /\ Tables /\ Rollups /\ Sweeps /\ Fresh /\ Ordered /\ OneOpen /\ Led
      /\ Owned /\ Covered
  BY Parts
<1>2. sweeping' = TRUE /\ todo' = Due
      /\ UNCHANGED <<now, link, moved, collector, queue, faults, tables>>
  BY DEF StartSweep
<1>3. Sweeps'
  BY <1>2 DEF Sweeps, Due, tables
<1>4. Clocks'
  BY <1>1, <1>2 DEF Clocks, collector
<1> QED BY <1>1, <1>2, <1>3, <1>4, Undisturbed DEF IInv, tables

\* At the start there are no rows.
LEMMA InitIInv == Init => IInv
<1> SUFFICES ASSUME Init PROVE IInv
  OBVIOUS
<1>1. Ids = {}
  <2>1. Len(generations) = 0
    BY DEF Init
  <2> QED BY <2>1 DEF Ids
<1>2. Clocks
  <2>1. NoLink \in Links /\ link \in Links
    <3>1. 1 \in 0 .. MaxLinks /\ 0 \in 0 .. MaxLinks /\ 0 \in 0 .. MaxTraffic
      BY Sizes
    <3> QED BY <3>1, Sizes DEF Init, NoLink, Links
  <2> QED BY <2>1, Sizes DEF Init, Clocks
<1>3. Tables /\ Rollups /\ Sweeps /\ Fresh /\ Ordered /\ OneOpen /\ Led /\ Owned
  BY <1>1 DEF Init, Tables, Rollups, Sweeps, Fresh, Ordered, OneOpen, Led, Owned
<1>4. Covered
  <2>1. PICK d : d = [g \in Ids |-> Delta(g)]
    OBVIOUS
  <2>2. IsFiniteSet(Ids) /\ DOMAIN d = Ids /\ \A x \in Ids : d[x] = 0
    BY <1>1, <2>1, FS_EmptySet
  <2>3. SumFunctionOnSet(d, Ids) = 0
    BY <2>2, SumFunctionZero
  <2>4. Total = 0
    BY <2>1, <2>2, <2>3 DEF Total, SumFunction
  <2> QED BY <1>1, <2>4 DEF Init, Covered
<1> QED BY <1>2, <1>3, <1>4 DEF IInv
-----------------------------------------------------------------------------
(* The invariant holds in every state, and what it says.                   *)

LEMMA Inductive == Spec => []IInv
<1>1. Init => IInv
  BY InitIInv
<1>2. IInv /\ [Next]_vars => IInv'
  <2> SUFFICES ASSUME IInv, [Next]_vars PROVE IInv'
    OBVIOUS
  <2>1. CASE PollPresent
    BY <2>1, PollPresentStep
  <2>2. CASE PollAbsent
    BY <2>2, PollAbsentStep
  <2>3. CASE StoreReset
    BY <2>3, StoreResetStep
  <2>4. CASE StoreSnapshot
    BY <2>4, StoreSnapshotStep
  <2>5. CASE StartSweep
    BY <2>5, StartSweepStep
  <2>6. CASE Prune
    BY <2>6, PruneStep
  <2>7. CASE \E g \in Ids, m \in Minutes : RecomputeMinute(g, m)
    BY <2>7, RecomputeMinuteStep
  <2>8. CASE \E g \in Ids, h \in Hours : RecomputeHour(g, h)
    BY <2>8, RecomputeHourStep
  <2>9. CASE Crash
    BY <2>9, CrashStep
  <2>10. CASE Tick
    BY <2>10, TickStep
  <2>11. CASE SetBack
    BY <2>11, SetBackStep
  <2>12. CASE UNCHANGED vars
    <3>1. /\ Clocks /\ Tables /\ Rollups /\ Sweeps /\ Fresh /\ Ordered /\ OneOpen /\ Led
          /\ Owned /\ Covered
      BY Parts
    <3>2. UNCHANGED <<now, link, moved, previous, queue, generations, samples, stored,
                      minute, hour, dirty, sweeping, todo>>
      BY <2>12 DEF vars, collector, tables, sweep
    <3> QED BY <3>1, <3>2, Undisturbed DEF IInv
  <2> QED BY <2>1, <2>2, <2>3, <2>4, <2>5, <2>6, <2>7, <2>8, <2>9, <2>10, <2>11, <2>12
          DEF Next, Poll, Store, Maintain
<1> QED BY <1>1, <1>2, PTL DEF Spec

\* The types: a rollup and a dirty bucket are of a generation there is, no row
\* is invented, what a row adds is never negative, and a sweep works on dirty
\* buckets (internal/store/sqlite/events_extra.go, rollup.go).
THEOREM TypeCorrect == Spec => []TypeOK
<1>1. IInv => TypeOK
  <2> SUFFICES ASSUME IInv PROVE TypeOK
    OBVIOUS
  <2>1. Clocks /\ Tables /\ Rollups /\ Sweeps
    BY DEF IInv
  <2>2. \A g \in Ids : generations[g] \in Generations
    BY <2>1, LenProperties, ElementOfSeq DEF Tables, Ids
  <2>3. \A s \in stored : s.generation \in Ids /\ s.at \in 0 .. MaxTime
    BY <2>1 DEF Tables, Samples
  <2> QED BY <2>1, <2>2, <2>3 DEF TypeOK, Clocks, Links, Tables, Rollups, Sweeps, Generations
<1> QED BY <1>1, Inductive, PTL

\* At most one generation is open, and in one neither time nor counter goes
\* back, whatever crashes, replacements and settings of the clock there were:
\* aggregateInterfaceRows never refuses its rows
\* (internal/store/sqlite/rollup.go:203).
THEOREM OrderedGenerations == Spec => []GenerationsAreOrdered
<1>1. IInv => GenerationsAreOrdered
  <2> SUFFICES ASSUME IInv PROVE GenerationsAreOrdered
    OBVIOUS
  <2>1. Ordered /\ OneOpen
    BY DEF IInv
  <2>2. Cardinality(OpenIds) <= 1
    <3>1. CASE OpenIds = {}
      BY <3>1, FS_EmptySet
    <3>2. CASE OpenIds # {}
      <4>1. PICK g \in OpenIds : TRUE
        BY <3>2
      <4>2. OpenIds = {g}
        BY <2>1, <4>1 DEF OneOpen, OpenIds
      <4> QED BY <4>2, FS_Singleton
    <3> QED BY <3>1, <3>2
  <2> QED BY <2>1, <2>2 DEF GenerationsAreOrdered, Ordered
<1> QED BY <1>1, Inductive, PTL

\* The differences the generations stand for never add up to more than the
\* links counted: none is taken over a reset, a restart, a replacement or a
\* clock set back (ensureInterfaceGeneration,
\* internal/store/sqlite/events_extra.go; docs/implementation-plan.md:351).
THEOREM NoTrafficInvented == Spec => []NoInventedTraffic
<1>1. IInv => NoInventedTraffic
  BY DEF IInv, Covered, Total, Delta, NoInventedTraffic
<1> QED BY <1>1, Inductive, PTL
-----------------------------------------------------------------------------
(* Minutes in hours.                                                       *)

\* A bucket is a multiple of its width, and what is in it ends before the next.
LEMMA BucketIsMultiple ==
  ASSUME NEW t \in Int, NEW width \in Nat, width > 0
  PROVE  /\ Bucket(t, width) \in Int /\ Bucket(t, width) <= t /\ t < Bucket(t, width) + width
         /\ \E q \in Int : Bucket(t, width) = q * width
BY FloorIsMultiple DEF Base, Bucket

\* It is the only one.
LEMMA BucketIsOne ==
  ASSUME NEW t \in Int, NEW width \in Nat, width > 0, NEW q \in Int,
         q * width <= t, t < q * width + width
  PROVE  Bucket(t, width) = q * width
BY FloorIsOne DEF Base, Bucket

\* What is before a bucket is in one that ends no later than it begins.
LEMMA BucketsAreApart ==
  ASSUME NEW s \in Int, NEW t \in Int, NEW width \in Nat, width > 0, s < Bucket(t, width)
  PROVE  Bucket(s, width) + width <= Bucket(t, width)
BY FloorsAreApart DEF Base, Bucket

\* An hour is so many minutes.
LEMMA HourOfMinutes == \E n \in Nat : H = n * M /\ n > 0
BY Sizes, UnitAssumption, WholeFactor

\* The hour of a moment is that of its minute.
LEMMA MinutesNest ==
  ASSUME NEW t \in Int
  PROVE  Bucket(Bucket(t, M), H) = Bucket(t, H)
BY Sizes, UnitAssumption, FloorsNest DEF Base, Bucket
-----------------------------------------------------------------------------
(* Rows, of one generation.                                                *)

\* RowAt and LoadRows, of any rows.
RowOf(R, t) ==
  LET before == {s \in R : s.at < t}
  IN  IF before = {} THEN FirstRow(R) ELSE LastRow(before)
Loaded(S, from, to) ==
  LET before == {s \in S : s.at < from}
  IN  {s \in S : from <= s.at /\ s.at < to}
        \cup (IF before = {} THEN {} ELSE {LastRow(before)})
Distinct(R) == \A s, t \in R : s.at = t.at => s = t
\* The last of some rows before a moment.
IsBefore(p, R, t) == p \in R /\ p.at < t /\ \A s \in R : s.at < t => s.at <= p.at

\* The times of rows are numbers.
LEMMA RowsHaveTimes == \A s \in Samples : s.at \in Nat /\ s.at <= MaxTime /\ s.counter \in Nat
BY Sizes DEF Samples

\* The last row is the one that none is later than.
LEMMA LastRowIs ==
  ASSUME NEW R, R \subseteq Samples, Distinct(R), NEW S, S \subseteq R, NEW s \in S,
         \A r \in S : r.at <= s.at
  PROVE  LastRow(S) = s
<1>1. PICK l : l = LastRow(S)
  OBVIOUS
<1>2. S \subseteq Samples /\ S # {}
  OBVIOUS
<1>3. l \in S /\ \A r \in S : r.at <= l.at
  BY <1>1, <1>2, LastRowIsLast
<1>4. l.at <= s.at /\ s.at <= l.at /\ l \in R /\ s \in R
  BY <1>3
<1>5. l.at = s.at
  BY <1>4, RowsHaveTimes
<1> QED BY <1>1, <1>4, <1>5 DEF Distinct

\* The first row is the one that none is earlier than.
LEMMA FirstRowIs ==
  ASSUME NEW R, R \subseteq Samples, Distinct(R), NEW S, S \subseteq R, NEW s \in S,
         \A r \in S : s.at <= r.at
  PROVE  FirstRow(S) = s
<1>1. PICK f : f = FirstRow(S)
  OBVIOUS
<1>2. S \subseteq Samples /\ S # {}
  OBVIOUS
<1>3. f \in S /\ \A r \in S : f.at <= r.at
  BY <1>1, <1>2, FirstRowIsFirst
<1>4. f.at <= s.at /\ s.at <= f.at /\ f \in R /\ s \in R
  BY <1>3
<1>5. f.at = s.at
  BY <1>4, RowsHaveTimes
<1> QED BY <1>1, <1>4, <1>5 DEF Distinct

\* Of rows before a moment one is the last.
LEMMA OneIsBefore ==
  ASSUME NEW R, R \subseteq Samples, NEW t, \E s \in R : s.at < t
  PROVE  \E p : IsBefore(p, R, t)
<1>1. PICK B : B = {s \in R : s.at < t}
  OBVIOUS
<1>2. B \subseteq Samples /\ B # {}
  BY <1>1
<1>3. LastRow(B) \in B /\ \A s \in B : s.at <= LastRow(B).at
  BY <1>2, LastRowIsLast
<1> QED BY <1>1, <1>3 DEF IsBefore

\* The row a difference is taken from, with a row before and without.
LEMMA RowOfIs ==
  ASSUME NEW R, R \subseteq Samples, Distinct(R), R # {}, NEW t
  PROVE  /\ \A p : IsBefore(p, R, t) => RowOf(R, t) = p
         /\ (\A s \in R : ~ (s.at < t)) => RowOf(R, t) = FirstRow(R)
<1>1. PICK B : B = {s \in R : s.at < t}
  OBVIOUS
<1>2. RowOf(R, t) = IF B = {} THEN FirstRow(R) ELSE LastRow(B)
  BY <1>1 DEF RowOf
<1>3. ASSUME NEW p, IsBefore(p, R, t) PROVE RowOf(R, t) = p
  <2>1. p \in B /\ B \subseteq R /\ \A r \in B : r.at <= p.at
    BY <1>1, <1>3 DEF IsBefore
  <2>2. LastRow(B) = p
    BY <2>1, LastRowIs
  <2> QED BY <1>2, <2>1, <2>2
<1>4. ASSUME \A s \in R : ~ (s.at < t) PROVE RowOf(R, t) = FirstRow(R)
  BY <1>1, <1>2, <1>4
<1> QED BY <1>3, <1>4

\* Without a row between them two moments have the same.
LEMMA RowOfRests ==
  ASSUME NEW R, R \subseteq Samples, Distinct(R), R # {}, NEW t \in Int, NEW u \in Int, t <= u,
         \A s \in R : s.at < u => s.at < t
  PROVE  RowOf(R, u) = RowOf(R, t)
<1>1. \A s \in R : s.at \in Nat
  BY RowsHaveTimes
<1>2. \A s \in R : s.at < u <=> s.at < t
  BY <1>1
<1>3. {s \in R : s.at < u} = {s \in R : s.at < t}
  BY <1>2
<1> QED BY <1>3 DEF RowOf

\* A later row does not change it.
LEMMA RowOfStays ==
  ASSUME NEW R, R \subseteq Samples, Distinct(R), R # {}, NEW row \in Samples,
         \A s \in R : s.at < row.at, NEW t \in Int, t <= row.at, NEW Q, Q = R \cup {row}
  PROVE  RowOf(Q, t) = RowOf(R, t)
<1>1. row.at \in Nat /\ \A s \in R : s.at \in Nat
  BY RowsHaveTimes
<1>2. ~ (row.at < t)
  BY <1>1
<1>3. {s \in Q : s.at < t} = {s \in R : s.at < t}
  BY <1>2
<1>4. FirstRow(Q) = FirstRow(R)
  <2>1. PICK f : f = FirstRow(R)
    OBVIOUS
  <2>2. f \in R /\ \A s \in R : f.at <= s.at
    BY <2>1, FirstRowIsFirst
  <2>3. Q \subseteq Samples /\ f \in Q
    BY <2>2
  <2>4. Distinct(Q)
    <3>1. \A s \in R : s.at # row.at
      BY <1>1
    <3> QED BY <3>1 DEF Distinct
  <2>5. \A s \in Q : f.at <= s.at
    <3>1. f.at <= row.at
      BY <1>1, <2>2
    <3> QED BY <2>2, <3>1
  <2>6. FirstRow(Q) = f
    BY <2>3, <2>4, <2>5, FirstRowIs
  <2> QED BY <2>1, <2>6
<1> QED BY <1>3, <1>4 DEF RowOf

\* What is added up of the rows there still are is the difference of all.
LEMMA AggregateIsTruth ==
  ASSUME NEW R, R \subseteq Samples, Distinct(R), R # {}, NEW S, S \subseteq R,
         NEW t \in Int, NEW u \in Int, t <= u,
         \A s \in R : t <= s.at /\ s.at < u => s \in S,
         \A p : IsBefore(p, R, t) => p \in S
  PROVE  AggregateRows(Loaded(S, t, u)) =
           [elapsed |-> RowOf(R, u).at - RowOf(R, t).at,
            delta |-> RowOf(R, u).counter - RowOf(R, t).counter]
<1>1. \A s \in R : s.at \in Nat /\ s.counter \in Nat
  BY RowsHaveTimes
<1>2. PICK W : W = {s \in S : t <= s.at /\ s.at < u}
  OBVIOUS
<1>3. PICK B : B = {s \in S : s.at < t}
  OBVIOUS
<1>4. PICK L : L = Loaded(S, t, u)
  OBVIOUS
<1>5. L = W \cup (IF B = {} THEN {} ELSE {LastRow(B)})
  BY <1>2, <1>3, <1>4 DEF Loaded
<1>6. CASE \E s \in R : s.at < t
  <2>1. PICK p : IsBefore(p, R, t)
    BY <1>6, OneIsBefore
  <2>2. p \in B /\ B \subseteq R /\ \A s \in B : s.at <= p.at
    BY <1>3, <2>1 DEF IsBefore
  <2>3. LastRow(B) = p
    BY <2>2, LastRowIs
  <2>4. L = W \cup {p} /\ L \subseteq R /\ p \in L
    BY <1>2, <1>5, <2>2, <2>3
  <2>5. p.at \in Nat /\ p.at < t
    BY <1>1, <2>1 DEF IsBefore
  <2>6. \A s \in L : p.at <= s.at
    BY <1>1, <1>2, <2>4, <2>5
  <2>7. FirstRow(L) = p
    BY <2>4, <2>6, FirstRowIs
  <2>8. RowOf(R, t) = p
    BY <2>1, RowOfIs
  <2>9. PICK q : IsBefore(q, R, u)
    <3>1. p \in R /\ p.at < u
      BY <2>2, <2>5
    <3> QED BY <3>1, OneIsBefore
  <2>10. RowOf(R, u) = q
    BY <2>9, RowOfIs
  <2>11. q \in L
    <3>1. CASE q.at < t
      <4>1. IsBefore(q, R, t)
        BY <1>1, <2>9, <3>1 DEF IsBefore
      <4>2. RowOf(R, t) = q
        BY <4>1, RowOfIs
      <4> QED BY <2>4, <2>8, <4>2
    <3>2. CASE ~ (q.at < t)
      BY <1>1, <1>2, <2>4, <2>9, <3>2 DEF IsBefore
    <3> QED BY <3>1, <3>2
  <2>12. \A s \in L : s.at <= q.at
    <3>1. \A s \in L : s \in R /\ s.at < u
      BY <1>2, <2>4, <2>5
    <3> QED BY <2>9, <3>1 DEF IsBefore
  <2>13. LastRow(L) = q
    BY <2>4, <2>11, <2>12, LastRowIs
  <2> QED BY <1>4, <2>4, <2>7, <2>8, <2>10, <2>13 DEF AggregateRows
<1>7. CASE \A s \in R : ~ (s.at < t)
  <2>1. B = {} /\ L = W /\ L \subseteq R
    BY <1>2, <1>3, <1>5, <1>7
  <2>2. RowOf(R, t) = FirstRow(R)
    BY <1>7, RowOfIs
  <2>3. CASE W = {}
    <3>1. \A s \in R : s.at < u => s.at < t
      BY <1>1, <1>2, <2>3
    <3>2. RowOf(R, u) = RowOf(R, t)
      BY <3>1, RowOfRests
    <3>3. PICK r : r = RowOf(R, t)
      OBVIOUS
    <3>4. r \in R
      BY <2>2, <3>3, FirstRowIsFirst
    <3>5. r.at - r.at = 0 /\ r.counter - r.counter = 0
      BY <1>1, <3>4
    <3> QED BY <1>4, <2>1, <2>3, <3>2, <3>3, <3>5 DEF AggregateRows, Nothing
  <2>4. CASE W # {}
    <3>1. PICK f : f = FirstRow(R)
      OBVIOUS
    <3>2. f \in R /\ \A s \in R : f.at <= s.at
      BY <3>1, FirstRowIsFirst
    <3>3. f \in L
      <4>1. PICK w \in W : TRUE
        BY <2>4
      <4>2. f.at < u /\ t <= f.at
        BY <1>1, <1>2, <1>7, <3>2, <4>1
      <4> QED BY <1>2, <2>1, <3>2, <4>2
    <3>4. FirstRow(L) = f
      BY <2>1, <3>2, <3>3, FirstRowIs
    <3>5. PICK q : IsBefore(q, R, u)
      <4>1. f \in R /\ f.at < u
        BY <1>2, <2>1, <3>3
      <4> QED BY <4>1, OneIsBefore
    <3>6. RowOf(R, u) = q
      BY <3>5, RowOfIs
    <3>7. q \in L /\ \A s \in L : s.at <= q.at
      BY <1>1, <1>2, <1>7, <2>1, <3>5 DEF IsBefore
    <3>8. LastRow(L) = q
      BY <2>1, <3>7, LastRowIs
    <3> QED BY <1>4, <2>1, <2>2, <2>4, <3>1, <3>4, <3>6, <3>8 DEF AggregateRows
  <2> QED BY <2>3, <2>4
<1> QED BY <1>6, <1>7

-----------------------------------------------------------------------------
(* The invariant of the rollups.                                           *)

\* The difference of the rows at two moments.
Diff(R, from, to) ==
  [elapsed |-> RowOf(R, to).at - RowOf(R, from).at,
   delta |-> RowOf(R, to).counter - RowOf(R, from).counter]

\* A row that is not the last of its generation has another soon after it.
Steady ==
  \A g \in Ids : \A s, t \in History(g) :
    s.at < t.at => \E u \in History(g) : s.at < u.at /\ u.at <= s.at + MaxPause
\* A dirty minute begins soon after a row, and what is known of the open
\* generation begins no later than its last row.
Near ==
  \A g \in Ids, m \in Minutes : <<M, g, m>> \in dirty =>
    \E s \in History(g) : m <= s.at + MaxPause
Past ==
  \A g \in Ids : IsOpen(g) =>
    /\ \A m \in Minutes : <<M, g, m>> \in dirty \/ <<g, m>> \in DOMAIN minute =>
         \E s \in History(g) : m <= s.at
    /\ \A h \in Hours : <<H, g, h>> \in dirty \/ <<g, h>> \in DOMAIN hour =>
         \E s \in History(g) : h <= s.at
\* Deleted rows are old, whatever the clock was set back, and of clean minutes.
Gone ==
  /\ faults \in 0 .. MaxFaults
  /\ \A s \in stored : s \notin samples =>
       /\ MinuteOf(s.generation, s.at) \notin dirty
       /\ Bucket(s.at, M) + M + RawFloor <= now + faults
\* The row a dirty minute will be counted from is there.
Based ==
  \A g \in Ids, m \in Minutes : <<M, g, m>> \in dirty =>
    \A p : IsBefore(p, History(g), m) => p \in samples
\* During a sweep what is due will be done, and an hour after its minutes.
SweptMinutes ==
  sweeping => \A g \in Ids, m \in Minutes :
                <<M, g, m>> \in dirty /\ MinuteDue(g, m) => <<M, g, m>> \in todo
SweptHours ==
  \A g \in Ids, h \in Hours : <<H, g, h>> \in todo =>
    \A m \in Minutes : Bucket(m, H) = h => <<M, g, m>> \notin dirty
\* The parts of DifferencesAreOwned.
Summed ==
  \A s \in stored : \/ MinuteOf(s.generation, s.at) \in dirty
                    \/ <<s.generation, Bucket(s.at, M)>> \in DOMAIN minute
CleanHour(g, h) ==
  <<H, g, h>> \notin dirty /\ \A m \in Minutes : Bucket(m, H) = h => <<M, g, m>> \notin dirty
MinutesTrue ==
  \A g \in Ids, m \in Minutes :
    <<g, m>> \in DOMAIN minute /\ <<M, g, m>> \notin dirty =>
      minute[<<g, m>>] = Diff(History(g), m, m + M)
HoursTrue ==
  \A g \in Ids, h \in Hours :
    <<g, h>> \in DOMAIN hour /\ CleanHour(g, h) => hour[<<g, h>>] = Diff(History(g), h, h + H)

JInv == Steady /\ Near /\ Past /\ Gone /\ Based /\ SweptMinutes /\ SweptHours
          /\ Summed /\ MinutesTrue /\ HoursTrue

\* Rows, generations and buckets as they were.
LEMMA HistoryStays == UNCHANGED stored => \A g : History(g)' = History(g)
BY DEF History

LEMMA RollupsUndisturbed ==
  /\ Steady /\ Ids' = Ids /\ UNCHANGED stored => Steady'
  /\ Near /\ Ids' = Ids /\ UNCHANGED <<stored, dirty>> => Near'
  /\ Past /\ UNCHANGED <<generations, stored, dirty, minute, hour>> => Past'
  /\ Gone /\ UNCHANGED <<faults, now, stored, samples, dirty>> => Gone'
  /\ Based /\ Ids' = Ids /\ UNCHANGED <<stored, samples, dirty>> => Based'
  /\ SweptMinutes /\ UNCHANGED <<sweeping, generations, samples, dirty, now, todo>> => SweptMinutes'
  /\ SweptHours /\ Ids' = Ids /\ UNCHANGED <<todo, dirty>> => SweptHours'
  /\ Summed /\ UNCHANGED <<stored, dirty, minute>> => Summed'
  /\ MinutesTrue /\ Ids' = Ids /\ UNCHANGED <<stored, dirty, minute>> => MinutesTrue'
  /\ HoursTrue /\ Ids' = Ids /\ UNCHANGED <<stored, dirty, hour>> => HoursTrue'
<1>1. Steady /\ Ids' = Ids /\ UNCHANGED stored => Steady'
  BY HistoryStays DEF Steady
<1>2. Near /\ Ids' = Ids /\ UNCHANGED <<stored, dirty>> => Near'
  BY HistoryStays DEF Near
<1>3. Past /\ UNCHANGED <<generations, stored, dirty, minute, hour>> => Past'
  BY HistoryStays, OpenStays DEF Past
<1>4. Gone /\ UNCHANGED <<faults, now, stored, samples, dirty>> => Gone'
  BY DEF Gone
<1>5. Based /\ Ids' = Ids /\ UNCHANGED <<stored, samples, dirty>> => Based'
  BY HistoryStays DEF Based
<1>6. SweptMinutes /\ UNCHANGED <<sweeping, generations, samples, dirty, now, todo>> =>
        SweptMinutes'
  BY OpenStays DEF SweptMinutes, MinuteDue, Rows
<1>7. SweptHours /\ Ids' = Ids /\ UNCHANGED <<todo, dirty>> => SweptHours'
  BY DEF SweptHours
<1>8. Summed /\ UNCHANGED <<stored, dirty, minute>> => Summed'
  BY DEF Summed
<1>9. MinutesTrue /\ Ids' = Ids /\ UNCHANGED <<stored, dirty, minute>> => MinutesTrue'
  BY HistoryStays DEF MinutesTrue
<1>10. HoursTrue /\ Ids' = Ids /\ UNCHANGED <<stored, dirty, hour>> => HoursTrue'
  BY HistoryStays DEF HoursTrue, CleanHour
<1> QED BY <1>1, <1>2, <1>3, <1>4, <1>5, <1>6, <1>7, <1>8, <1>9, <1>10

\* Time passes for deleted rows, set back or not.
LEMMA GoneStays ==
  ASSUME Clocks, Tables, Gone, UNCHANGED <<samples, stored, dirty>>,
         now' \in Nat, faults' \in 0 .. MaxFaults, now + faults <= now' + faults'
  PROVE  Gone'
<1>1. \A s \in stored : Bucket(s.at, M) \in Int
  BY Sizes, BucketStarts DEF Tables, Samples
<1>2. RawFloor \in Nat /\ M \in Nat /\ MaxFaults \in Nat
  BY Sizes
<1>3. PICK x \in Nat, y \in Nat : x = now /\ y = faults
  BY <1>2, Sizes DEF Clocks, Gone
<1>4. PICK v \in Nat, w \in Nat : v = now' /\ w = faults'
  BY <1>2
<1>5. PICK n \in Nat, k \in Nat : n = x + y /\ k = v + w
  OBVIOUS
<1>6. n <= k
  BY <1>3, <1>4, <1>5
<1>7. \A b \in Int : b + M + RawFloor <= n => b + M + RawFloor <= k
  BY <1>2, <1>6
<1>8. \A s \in stored : s \notin samples =>
        MinuteOf(s.generation, s.at) \notin dirty /\ Bucket(s.at, M) + M + RawFloor <= k
  BY <1>1, <1>3, <1>5, <1>7 DEF Gone
<1> QED BY <1>4, <1>5, <1>8 DEF Gone

\* Nothing of the rollups has happened: a poll, time, a crash.
LEMMA IdleStep ==
  ASSUME IInv, JInv, UNCHANGED tables,
         now' \in Nat, faults' \in 0 .. MaxFaults, now + faults <= now' + faults',
         \/ sweeping' = FALSE /\ todo' = {}
         \/ UNCHANGED <<now, sweep>>
         \/ UNCHANGED sweep /\ ~sweeping
  PROVE  JInv'
<1>0. Clocks /\ Tables /\ Sweeps
  BY DEF IInv
<1>1. UNCHANGED <<generations, samples, stored, minute, hour, dirty>> /\ Ids' = Ids
  BY OpenStays DEF tables
<1>2. Gone'
  BY <1>0, <1>1, GoneStays DEF JInv
<1>3. SweptMinutes' /\ SweptHours'
  <2>1. CASE sweeping' = FALSE /\ todo' = {}
    BY <2>1 DEF SweptMinutes, SweptHours
  <2>2. CASE UNCHANGED <<now, sweep>>
    BY <1>1, <2>2, RollupsUndisturbed DEF JInv, sweep
  <2>3. CASE UNCHANGED sweep /\ ~sweeping
    BY <1>0, <2>3 DEF SweptMinutes, SweptHours, sweep, Sweeps
  <2> QED BY <2>1, <2>2, <2>3
<1> QED BY <1>1, <1>2, <1>3, RollupsUndisturbed DEF JInv

\* A sweep begins with what is due.
LEMMA StartSweepOwns == IInv /\ JInv /\ StartSweep => JInv'
<1> SUFFICES ASSUME IInv, JInv, StartSweep PROVE JInv'
  OBVIOUS
<1>1. /\ UNCHANGED <<generations, samples, stored, minute, hour, dirty, now, faults>>
      /\ Ids' = Ids /\ todo' = Due
  BY OpenStays DEF StartSweep, tables
<1>2. H # M
  BY Sizes
<1>3. SweptMinutes'
  <2>1. \A g \in Ids, m \in Minutes :
          <<M, g, m>> \in dirty /\ MinuteDue(g, m) => <<M, g, m>> \in Due
    BY DEF Due
  <2>2. \A g, m : MinuteDue(g, m)' <=> MinuteDue(g, m)
    BY <1>1, OpenStays DEF MinuteDue, Rows
  <2> QED BY <1>1, <2>1, <2>2 DEF SweptMinutes
<1>4. SweptHours'
  <2>1. \A g \in Ids, h \in Hours : <<H, g, h>> \in Due => HourDue(g, h)
    BY <1>2 DEF Due
  <2> QED BY <1>1, <2>1 DEF SweptHours, HourDue
<1> QED BY <1>1, <1>3, <1>4, RollupsUndisturbed DEF JInv

\* The rows of a generation, those deleted included.
LEMMA Histories ==
  ASSUME IInv, NEW g \in Ids
  PROVE  /\ History(g) \subseteq Samples /\ Distinct(History(g)) /\ History(g) # {}
         /\ Rows(g) \subseteq History(g) /\ History(g) \subseteq stored
         /\ \A s \in History(g) : s.generation = g /\ s.at \in Nat /\ s.at <= MaxTime
         /\ \A s \in History(g) : s \in samples => s \in Rows(g)
<1>1. Tables /\ Ordered /\ Owned
  BY DEF IInv
<1>2. /\ History(g) \subseteq Samples /\ History(g) \subseteq stored /\ Rows(g) \subseteq History(g)
      /\ \A s \in History(g) : s.generation = g /\ (s \in samples => s \in Rows(g))
  BY <1>1 DEF Tables, History, Rows
<1>3. Distinct(History(g))
  BY <1>1, <1>2 DEF Ordered, Distinct
<1> QED BY <1>1, <1>2, <1>3, RowsHaveTimes DEF Owned

\* A minute is a multiple of its width, and what is in it has it as its bucket.
LEMMA MinuteIs ==
  ASSUME NEW m \in Minutes
  PROVE  /\ m \in Nat /\ m <= MaxTime /\ \E q \in Int : m = q * M
         /\ \A t \in Int : m <= t /\ t < m + M => Bucket(t, M) = m
<1>1. PICK t \in 0 .. MaxTime : m = Bucket(t, M)
  BY DEF Minutes
<1>2. t \in Int /\ M \in Nat /\ M > 0 /\ t <= MaxTime /\ t >= 0 /\ MaxTime \in Nat
  BY Sizes
<1>3. PICK q \in Int : m = q * M
  BY <1>1, <1>2, BucketIsMultiple
<1>4. m \in Int /\ m <= t /\ m >= 0
  BY <1>1, <1>2, BucketStarts
<1>5. ASSUME NEW u \in Int, m <= u, u < m + M PROVE Bucket(u, M) = m
  BY <1>2, <1>3, <1>5, BucketIsOne
<1> QED BY <1>2, <1>3, <1>4, <1>5

\* So is an hour.
LEMMA HourIs ==
  ASSUME NEW h \in Hours
  PROVE  /\ h \in Nat /\ h <= MaxTime /\ \E q \in Int : h = q * H
         /\ \A t \in Int : h <= t /\ t < h + H => Bucket(t, H) = h
<1>1. PICK t \in 0 .. MaxTime : h = Bucket(t, H)
  BY DEF Hours
<1>2. t \in Int /\ H \in Nat /\ H > 0 /\ t <= MaxTime /\ t >= 0 /\ MaxTime \in Nat
  BY Sizes
<1>3. PICK q \in Int : h = q * H
  BY <1>1, <1>2, BucketIsMultiple
<1>4. h \in Int /\ h <= t /\ h >= 0
  BY <1>1, <1>2, BucketStarts
<1>5. ASSUME NEW u \in Int, h <= u, u < h + H PROVE Bucket(u, H) = h
  BY <1>2, <1>3, <1>5, BucketIsOne
<1> QED BY <1>2, <1>3, <1>4, <1>5

\* What a dirty minute is summed from is all that it needs.
LEMMA DirtyMinuteIsCounted ==
  ASSUME IInv, JInv, NEW g \in Ids, NEW m \in Minutes, <<M, g, m>> \in dirty
  PROVE  AggregateRows(LoadRows(g, m)) = Diff(History(g), m, m + M)
<1>1. PICK R : R = History(g)
  OBVIOUS
<1>2. PICK S : S = Rows(g)
  OBVIOUS
<1>3. /\ R \subseteq Samples /\ Distinct(R) /\ R # {} /\ S \subseteq R /\ R \subseteq stored
      /\ \A s \in R : s.generation = g /\ s.at \in Nat /\ (s \in samples => s \in S)
  BY <1>1, <1>2, Histories
<1>4. PICK u \in Int : u = m + M
  BY Sizes, MinuteIs
<1>5. m \in Int /\ m <= u
  BY <1>4, Sizes, MinuteIs
<1>6. \A s \in R : m <= s.at /\ s.at < u => s \in S
  <2> SUFFICES ASSUME NEW s \in R, m <= s.at, s.at < u, s \notin samples PROVE FALSE
    BY <1>3
  <2>1. Bucket(s.at, M) = m
    BY <1>3, <1>4, MinuteIs
  <2>2. MinuteOf(s.generation, s.at) \notin dirty
    BY <1>3 DEF JInv, Gone
  <2> QED BY <1>3, <2>1, <2>2 DEF MinuteOf
<1>7. \A p : IsBefore(p, R, m) => p \in S
  BY <1>1, <1>3 DEF JInv, Based, IsBefore
<1>8. AggregateRows(Loaded(S, m, u)) = Diff(R, m, u)
  BY <1>3, <1>5, <1>6, <1>7, AggregateIsTruth DEF Diff
<1>9. LoadRows(g, m) = Loaded(S, m, u)
  BY <1>2, <1>4 DEF LoadRows, Loaded
<1> QED BY <1>1, <1>4, <1>8, <1>9

\* A minute is summed: it is clean, and its hour is not.
LEMMA RecomputeMinuteOwns ==
  ASSUME IInv, JInv, NEW g \in Ids, NEW m \in Minutes, RecomputeMinute(g, m)
  PROVE  JInv'
<1>1. Clocks /\ Tables /\ Rollups /\ Sweeps
  BY DEF IInv
<1>2. PICK a : a = AggregateRows(LoadRows(g, m))
  OBVIOUS
<1>3. PICK c : c = Bucket(m, H)
  OBVIOUS
<1>4. /\ minute' = With(minute, <<g, m>>, a) /\ todo' = todo \ {<<M, g, m>>}
      /\ dirty' = (dirty \ {<<M, g, m>>}) \cup {<<H, g, c>>} /\ <<M, g, m>> \in todo
      /\ UNCHANGED <<now, faults, generations, samples, stored, hour, sweeping>>
  BY <1>2, <1>3 DEF RecomputeMinute, Foremost
<1>5. /\ <<M, g, m>> \in dirty /\ H # M /\ Ids' = Ids /\ c \in Hours
      /\ \A h : IsOpen(h)' = IsOpen(h) /\ History(h)' = History(h)
  BY <1>1, <1>3, <1>4, Sizes, MinutesAndHours, OpenStays, HistoryStays DEF Sweeps
<1>6. a = Diff(History(g), m, m + M)
  BY <1>2, <1>5, DirtyMinuteIsCounted
<1>7. /\ DOMAIN minute' = DOMAIN minute \cup {<<g, m>>} /\ minute'[<<g, m>>] = a
      /\ \A k \in DOMAIN minute : k # <<g, m>> => minute'[k] = minute[k]
  BY <1>4 DEF With
<1>8. /\ \A h, b : <<M, h, b>> \in dirty' <=> <<M, h, b>> \in dirty /\ <<h, b>> # <<g, m>>
      /\ \A h, b : <<H, h, b>> \in dirty' <=> <<H, h, b>> \in dirty \/ <<h, b>> = <<g, c>>
      /\ \A h, b : <<M, h, b>> \in todo' <=> <<M, h, b>> \in todo /\ <<h, b>> # <<g, m>>
      /\ \A h, b : <<H, h, b>> \in todo' <=> <<H, h, b>> \in todo
  BY <1>4, <1>5
<1>9. Steady' /\ Gone'
  <2>1. Steady'
    BY <1>4, <1>5, RollupsUndisturbed DEF JInv
  <2>2. Gone'
    BY <1>4, <1>8 DEF JInv, Gone, MinuteOf
  <2> QED BY <2>1, <2>2
<1>10. Near' /\ Based'
  BY <1>4, <1>5, <1>8 DEF JInv, Near, Based
<1>11. Past'
  <2> SUFFICES ASSUME NEW i \in Ids, IsOpen(i)
               PROVE  /\ \A b \in Minutes : <<M, i, b>> \in dirty' \/ <<i, b>> \in DOMAIN minute' =>
                           \E s \in History(i) : b <= s.at
                      /\ \A b \in Hours : <<H, i, b>> \in dirty' \/ <<i, b>> \in DOMAIN hour =>
                           \E s \in History(i) : b <= s.at
    BY <1>4, <1>5 DEF Past
  <2>1. /\ \A b \in Minutes : <<M, i, b>> \in dirty \/ <<i, b>> \in DOMAIN minute =>
             \E s \in History(i) : b <= s.at
        /\ \A b \in Hours : <<H, i, b>> \in dirty \/ <<i, b>> \in DOMAIN hour =>
             \E s \in History(i) : b <= s.at
    BY DEF JInv, Past
  <2>2. ASSUME i = g PROVE \E s \in History(i) : c <= s.at
    <3>1. PICK s \in History(i) : m <= s.at
      BY <1>5, <2>1, <2>2
    <3>2. m \in Int /\ c \in Int /\ c <= m
      BY <1>3, MinuteIs, Sizes, BucketStarts
    <3>3. s.at \in Int
      BY Histories
    <3> QED BY <3>1, <3>2, <3>3
  <2> QED BY <1>5, <1>7, <1>8, <2>1, <2>2
<1>12. SweptMinutes' /\ SweptHours'
  <2>1. \A h, b : MinuteDue(h, b)' <=> MinuteDue(h, b)
    BY <1>4, <1>5 DEF MinuteDue, Rows
  <2>2. SweptMinutes'
    BY <1>4, <1>5, <1>8, <2>1 DEF JInv, SweptMinutes
  <2> QED BY <1>5, <1>8, <2>2 DEF JInv, SweptHours
<1>13. Summed'
  <2>1. \A s \in stored : /\ MinuteOf(s.generation, s.at) \in dirty =>
                               \/ MinuteOf(s.generation, s.at) \in dirty'
                               \/ <<s.generation, Bucket(s.at, M)>> \in DOMAIN minute'
                          /\ <<s.generation, Bucket(s.at, M)>> \in DOMAIN minute =>
                               <<s.generation, Bucket(s.at, M)>> \in DOMAIN minute'
    BY <1>7, <1>8 DEF MinuteOf
  <2> QED BY <1>4, <2>1 DEF JInv, Summed
<1>14. MinutesTrue'
  BY <1>5, <1>6, <1>7, <1>8 DEF JInv, MinutesTrue
<1>15. HoursTrue'
  <2>1. \A h \in Ids, b \in Hours : CleanHour(h, b)' => CleanHour(h, b)
    BY <1>3, <1>8 DEF CleanHour
  <2> QED BY <1>4, <1>5, <2>1 DEF JInv, HoursTrue
<1> QED BY <1>9, <1>10, <1>11, <1>12, <1>13, <1>14, <1>15 DEF JInv

\* The minutes of a clean hour add up to the difference over it: what lies
\* between the rows of one minute and the next is in the later one, and a
\* minute that was never summed has no rows.
LEMMA HourIsCounted ==
  ASSUME IInv, JInv, NEW g \in Ids, NEW h \in Hours,
         \A m \in Minutes : Bucket(m, H) = h => <<M, g, m>> \notin dirty,
         NEW D, D = {k \in DOMAIN minute : k[1] = g /\ h <= k[2] /\ k[2] < h + H}
  PROVE  /\ SumFunction([k \in D |-> minute[k].elapsed]) = Diff(History(g), h, h + H).elapsed
         /\ SumFunction([k \in D |-> minute[k].delta]) = Diff(History(g), h, h + H).delta
<1>1. /\ Tables /\ Rollups /\ H \in Nat /\ H > 0 /\ M \in Nat /\ M > 0
      /\ DOMAIN minute \subseteq Ids \X Minutes
  BY Sizes DEF IInv, Rollups
<1>2. PICK R : R = History(g)
  OBVIOUS
<1>3. /\ R \subseteq Samples /\ Distinct(R) /\ R # {} /\ R \subseteq stored
      /\ \A s \in R : s.generation = g /\ s.at \in Nat
  BY <1>2, Histories
<1>4. PICK n \in Nat : H = n * M /\ n > 0
  BY HourOfMinutes
<1>5. h \in Nat /\ h <= MaxTime
  BY HourIs
<1>6. PICK c \in Int : h = c * M
  <2>1. PICK q \in Int : h = q * H
    BY HourIs
  <2>2. q * n \in Int /\ h = (q * n) * M
    BY <1>1, <1>4, <2>1
  <2> QED BY <2>2
<1>7. PICK at : at = [i \in 0 .. n |-> h + i * M]
  OBVIOUS
<1>8. /\ \A i \in 0 .. n : at[i] \in Nat
      /\ \A i \in 0 .. n - 1 : /\ at[i + 1] = at[i] + M /\ h <= at[i] /\ at[i] < h + H
                               /\ at[i] = (c + i) * M
      /\ at[0] = h /\ at[n] = h + H
  <2>1. \A i \in 0 .. n : i * M \in Nat
    BY <1>1
  <2>2. \A i \in 0 .. n - 1 : (i + 1) * M = i * M + M /\ i * M + M <= n * M
    <3> SUFFICES ASSUME NEW i \in 0 .. n - 1 PROVE (i + 1) * M = i * M + M /\ i * M + M <= n * M
      OBVIOUS
    <3>1. (i + 1) * M = i * M + M
      BY <1>1
    <3>2. (i + 1) * M <= n * M
      BY <1>1, FactorsOrder
    <3> QED BY <3>1, <3>2
  <2>3. \A i \in 0 .. n - 1 : (c + i) * M = c * M + i * M
    BY <1>1
  <2>4. 0 * M = 0 /\ n \in 0 .. n /\ 0 \in 0 .. n
    BY <1>1
  <2> QED BY <1>1, <1>4, <1>5, <1>6, <1>7, <2>1, <2>2, <2>3, <2>4
<1>9. \A k \in D : /\ k \in DOMAIN minute /\ k[1] = g /\ k[2] \in Minutes /\ k = <<g, k[2]>>
                   /\ h <= k[2] /\ k[2] < h + H
  BY <1>1
<1>10. \A k \in D : \E i \in 0 .. n - 1 : k[2] = at[i]
  <2> SUFFICES ASSUME NEW k \in D PROVE \E i \in 0 .. n - 1 : k[2] = at[i]
    OBVIOUS
  <2>1. PICK p \in Int : k[2] = p * M
    BY <1>9, MinuteIs
  <2>2. ASSUME p < c PROVE FALSE
    <3>1. (p + 1) * M <= c * M /\ (p + 1) * M = p * M + M
      BY <1>1, <2>2, FactorsOrder
    <3> QED BY <1>1, <1>5, <1>6, <1>9, <2>1, <3>1
  <2>3. ASSUME p >= c + n PROVE FALSE
    <3>1. (c + n) * M <= p * M /\ (c + n) * M = c * M + n * M
      BY <1>1, <2>3, FactorsOrder
    <3> QED BY <1>1, <1>4, <1>5, <1>6, <1>9, <2>1, <3>1
  <2>4. p - c \in 0 .. n - 1 /\ c + (p - c) = p
    BY <2>2, <2>3
  <2> QED BY <1>8, <2>1, <2>4
<1>11. PICK f : f = [k \in D |-> CHOOSE i \in 0 .. n - 1 : k[2] = at[i]]
  OBVIOUS
<1>12. \A k \in D : f[k] \in 0 .. n - 1 /\ k[2] = at[f[k]]
  BY <1>10, <1>11
<1>13. \A k, l \in D : f[k] = f[l] => k = l
  BY <1>9, <1>12
<1>14. \A k \in D : minute[k] = Diff(R, at[f[k]], at[f[k] + 1])
  <2> SUFFICES ASSUME NEW k \in D PROVE minute[k] = Diff(R, at[f[k]], at[f[k] + 1])
    OBVIOUS
  <2>1. PICK m \in Minutes : m = k[2] /\ k = <<g, m>> /\ <<g, m>> \in DOMAIN minute
                              /\ h <= m /\ m < h + H /\ m \in Int
    BY <1>9, MinuteIs
  <2>2. Bucket(m, H) = h
    BY <2>1, HourIs
  <2>3. minute[k] = Diff(R, m, m + M)
    BY <1>2, <2>1, <2>2 DEF JInv, MinutesTrue
  <2> QED BY <1>8, <1>12, <2>1, <2>3
<1>15. PICK row : row = [i \in 0 .. n |-> RowOf(R, at[i])]
  OBVIOUS
<1>16. \A i \in 0 .. n : row[i] \in R /\ row[i].at \in Nat /\ row[i].counter \in Nat
  <2>1. ASSUME NEW t PROVE RowOf(R, t) \in R
    <3>1. PICK B : B = {s \in R : s.at < t}
      OBVIOUS
    <3>2. B \subseteq Samples
      BY <1>3, <3>1
    <3> QED BY <1>3, <3>1, <3>2, LastRowIsLast, FirstRowIsFirst DEF RowOf
  <2> QED BY <1>3, <1>15, <2>1, RowsHaveTimes
<1>17. ASSUME NEW i \in 0 .. n - 1, \A k \in D : f[k] # i PROVE row[i + 1] = row[i]
  <2>1. PICK t \in Nat : t = at[i]
    BY <1>8
  <2>2. PICK u \in Nat : u = at[i + 1] /\ u = t + M
    BY <1>1, <1>8, <2>1
  <2>3. h <= t /\ t < h + H /\ t = (c + i) * M
    BY <1>8, <2>1
  <2>4. ASSUME NEW s \in R, s.at < u PROVE s.at < t
    <3> SUFFICES ASSUME ~ (s.at < t) PROVE FALSE
      OBVIOUS
    <3>1. s.at \in Nat /\ t <= s.at /\ s.at < t + M /\ s.generation = g /\ s \in stored
      BY <1>3, <2>2, <2>4
    <3>2. Bucket(s.at, M) = t
      <4>1. c + i \in Int /\ (c + i) * M <= s.at /\ s.at < (c + i) * M + M
        BY <2>3, <3>1
      <4> QED BY <1>1, <2>3, <3>1, <4>1, BucketIsOne
    <3>3. t \in Minutes
      <4>1. s.at \in 0 .. MaxTime
        BY <1>3 DEF Samples
      <4> QED BY <3>2, <4>1, MinutesAndHours
    <3>4. Bucket(t, H) = h
      BY <2>3, HourIs
    <3>5. <<g, t>> \in DOMAIN minute
      BY <3>1, <3>2, <3>3, <3>4 DEF JInv, Summed, MinuteOf
    <3>6. PICK k : k = <<g, t>>
      OBVIOUS
    <3>7. k \in D /\ k[2] = t
      BY <2>3, <3>5, <3>6
    <3>8. PICK j \in 0 .. n - 1 : j = f[k] /\ at[j] = t
      BY <1>12, <3>7
    <3>9. ASSUME i < j PROVE FALSE
      <4>1. (c + i + 1) * M <= (c + j) * M /\ (c + i + 1) * M = (c + i) * M + M
        BY <1>1, <3>9, FactorsOrder
      <4>2. (c + j) * M = t
        BY <1>8, <3>8
      <4> QED BY <1>1, <2>3, <4>1, <4>2
    <3>10. ASSUME j < i PROVE FALSE
      <4>1. (c + j + 1) * M <= (c + i) * M /\ (c + j + 1) * M = (c + j) * M + M
        BY <1>1, <3>10, FactorsOrder
      <4>2. (c + j) * M = t
        BY <1>8, <3>8
      <4> QED BY <1>1, <2>3, <4>1, <4>2
    <3>11. i = j
      BY <3>9, <3>10
    <3> QED BY <1>17, <3>7, <3>8, <3>11
  <2>5. RowOf(R, u) = RowOf(R, t)
    BY <1>3, <2>2, <2>4, Sizes, RowOfRests
  <2>6. i \in 0 .. n /\ i + 1 \in 0 .. n
    OBVIOUS
  <2> QED BY <1>15, <2>1, <2>2, <2>5, <2>6
<1>18. IsFiniteSet(D)
  BY <1>1, KeysAreFinite DEF Tables
<1>19. ASSUME NEW r, \A i \in 0 .. n : r[i] \in Nat, NEW e, DOMAIN e = D, e \in [D -> Nat],
              \A k \in D : e[k] = r[f[k] + 1] - r[f[k]],
              \A i \in 0 .. n - 1 : row[i + 1] = row[i] => r[i + 1] = r[i]
       PROVE  SumFunction(e) = r[n] - r[0]
  <2>1. \A i \in 0 .. n - 1 : (\A k \in D : f[k] # i) => r[i + 1] = r[i]
    BY <1>17, <1>19
  <2>2. SumFunctionOnSet(e, D) = r[n] - r[0]
    <3>1. Telescopes(n, r, D, f, e)
      BY <1>12, <1>13, <1>19, <2>1 DEF Telescopes
    <3> HIDE <1>19
    <3> QED BY <1>18, <3>1, SumTelescopes
  <2>3. DOMAIN e = D
    BY <1>19
  <2> HIDE <1>19
  <2>4. SumFunction(e) = SumFunctionOnSet(e, D)
    BY <2>3 DEF SumFunction
  <2> QED BY <2>2, <2>4
<1>20. /\ row[0] = RowOf(R, h) /\ row[n] = RowOf(R, h + H)
       /\ \A k \in D : minute[k] \in Aggregates
       /\ \A k \in D : minute[k] = [elapsed |-> row[f[k] + 1].at - row[f[k]].at,
                                    delta |-> row[f[k] + 1].counter - row[f[k]].counter]
  <2>1. n \in 0 .. n /\ 0 \in 0 .. n /\ \A i \in 0 .. n - 1 : i \in 0 .. n /\ i + 1 \in 0 .. n
    OBVIOUS
  <2>2. row[0] = RowOf(R, h) /\ row[n] = RowOf(R, h + H)
    BY <1>8, <1>15, <2>1
  <2>3. \A k \in D : /\ row[f[k] + 1] = RowOf(R, at[f[k] + 1])
                     /\ row[f[k]] = RowOf(R, at[f[k]])
    BY <1>12, <1>15, <2>1
  <2>4. \A k \in D : minute[k] \in Aggregates
    BY <1>1 DEF Rollups
  <2> QED BY <1>14, <2>2, <2>3, <2>4 DEF Diff
<1>21. SumFunction([k \in D |-> minute[k].elapsed]) = Diff(R, h, h + H).elapsed
  <2>1. PICK r : r = [i \in 0 .. n |-> row[i].at]
    OBVIOUS
  <2>2. PICK e : e = [k \in D |-> minute[k].elapsed]
    OBVIOUS
  <2>3. e \in [D -> Nat] /\ DOMAIN e = D /\ \A k \in D : e[k] = r[f[k] + 1] - r[f[k]]
    BY <1>12, <1>20, <2>1, <2>2 DEF Aggregates
  <2>4. \A i \in 0 .. n : r[i] \in Nat
    BY <1>16, <2>1
  <2>5. \A i \in 0 .. n - 1 : row[i + 1] = row[i] => r[i + 1] = r[i]
    BY <2>1
  <2>6. SumFunction(e) = r[n] - r[0]
    BY <1>19, <2>3, <2>4, <2>5
  <2> QED BY <1>20, <2>1, <2>2, <2>6 DEF Diff
<1>22. SumFunction([k \in D |-> minute[k].delta]) = Diff(R, h, h + H).delta
  <2>1. PICK r : r = [i \in 0 .. n |-> row[i].counter]
    OBVIOUS
  <2>2. PICK e : e = [k \in D |-> minute[k].delta]
    OBVIOUS
  <2>3. e \in [D -> Nat] /\ DOMAIN e = D /\ \A k \in D : e[k] = r[f[k] + 1] - r[f[k]]
    BY <1>12, <1>20, <2>1, <2>2 DEF Aggregates
  <2>4. \A i \in 0 .. n : r[i] \in Nat
    BY <1>16, <2>1
  <2>5. \A i \in 0 .. n - 1 : row[i + 1] = row[i] => r[i + 1] = r[i]
    BY <2>1
  <2>6. SumFunction(e) = r[n] - r[0]
    BY <1>19, <2>3, <2>4, <2>5
  <2> QED BY <1>20, <2>1, <2>2, <2>6 DEF Diff
<1> QED BY <1>2, <1>21, <1>22

\* An hour is summed, from minutes that are clean.
LEMMA RecomputeHourOwns ==
  ASSUME IInv, JInv, NEW g \in Ids, NEW h \in Hours, RecomputeHour(g, h)
  PROVE  JInv'
<1>1. PICK D : D = {k \in DOMAIN minute : k[1] = g /\ h <= k[2] /\ k[2] < h + H}
  OBVIOUS
<1>2. PICK a : a = [elapsed |-> SumFunction([k \in D |-> minute[k].elapsed]),
                    delta |-> SumFunction([k \in D |-> minute[k].delta])]
  OBVIOUS
<1>3. /\ hour' = With(hour, <<g, h>>, a) /\ todo' = todo \ {<<H, g, h>>}
      /\ dirty' = dirty \ {<<H, g, h>>} /\ <<H, g, h>> \in todo
      /\ UNCHANGED <<now, faults, generations, samples, stored, minute, sweeping>>
  BY <1>1, <1>2 DEF RecomputeHour, Foremost
<1>4. /\ H # M /\ Ids' = Ids
      /\ \A i : IsOpen(i)' = IsOpen(i) /\ History(i)' = History(i)
  BY <1>3, Sizes, OpenStays, HistoryStays
<1>5. \A m \in Minutes : Bucket(m, H) = h => <<M, g, m>> \notin dirty
  BY <1>3 DEF JInv, SweptHours
<1>6. a = Diff(History(g), h, h + H)
  <2>1. /\ SumFunction([k \in D |-> minute[k].elapsed]) = Diff(History(g), h, h + H).elapsed
        /\ SumFunction([k \in D |-> minute[k].delta]) = Diff(History(g), h, h + H).delta
    BY <1>1, <1>5, HourIsCounted
  <2> QED BY <1>2, <2>1 DEF Diff
<1>7. /\ DOMAIN hour' = DOMAIN hour \cup {<<g, h>>} /\ hour'[<<g, h>>] = a
      /\ \A k \in DOMAIN hour : k # <<g, h>> => hour'[k] = hour[k]
  BY <1>3 DEF With
<1>8. /\ \A i, b : <<M, i, b>> \in dirty' <=> <<M, i, b>> \in dirty
      /\ \A i, b : <<H, i, b>> \in dirty' <=> <<H, i, b>> \in dirty /\ <<i, b>> # <<g, h>>
      /\ \A i, b : <<M, i, b>> \in todo' <=> <<M, i, b>> \in todo
      /\ \A i, b : <<H, i, b>> \in todo' => <<H, i, b>> \in todo
  BY <1>3, <1>4
<1>9. Steady' /\ Gone' /\ Near' /\ Based'
  <2>1. Steady'
    BY <1>3, <1>4, RollupsUndisturbed DEF JInv
  <2>2. Gone'
    BY <1>3, <1>8 DEF JInv, Gone, MinuteOf
  <2>3. Near' /\ Based'
    BY <1>3, <1>4, <1>8 DEF JInv, Near, Based
  <2> QED BY <2>1, <2>2, <2>3
<1>10. Past'
  <2>1. <<H, g, h>> \in dirty
    BY <1>3 DEF IInv, Sweeps
  <2> QED BY <1>3, <1>4, <1>7, <1>8, <2>1 DEF JInv, Past
<1>11. SweptMinutes' /\ SweptHours'
  <2>1. \A i, b : MinuteDue(i, b)' <=> MinuteDue(i, b)
    BY <1>3, <1>4 DEF MinuteDue, Rows
  <2>2. SweptMinutes'
    BY <1>3, <1>4, <1>8, <2>1 DEF JInv, SweptMinutes
  <2> QED BY <1>4, <1>8, <2>2 DEF JInv, SweptHours
<1>12. Summed' /\ MinutesTrue'
  BY <1>3, <1>4, <1>8 DEF JInv, Summed, MinutesTrue, MinuteOf
<1>13. HoursTrue'
  <2>1. \A i \in Ids, b \in Hours : CleanHour(i, b)' /\ <<i, b>> # <<g, h>> => CleanHour(i, b)
    BY <1>8 DEF CleanHour
  <2> QED BY <1>4, <1>6, <1>7, <2>1 DEF JInv, HoursTrue
<1> QED BY <1>9, <1>10, <1>11, <1>12, <1>13 DEF JInv

\* Rows are deleted, but none that a dirty minute will be counted from: such a
\* minute begins soon after the row, and would have been due in this sweep.
LEMMA PruneOwns == IInv /\ JInv /\ Prune => JInv'
<1> SUFFICES ASSUME IInv, JInv, Prune PROVE JInv'
  OBVIOUS
<1>1. Clocks /\ Tables /\ Rollups /\ Sweeps /\ Led
  BY DEF IInv
<1>2. PICK retention \in {RawRetention, RawFloor} : samples' = samples \ RawVictims(retention)
  BY DEF Prune
<1>3. /\ todo = {} /\ sweeping /\ sweeping' = FALSE /\ todo' = {}
      /\ UNCHANGED <<now, faults, generations, stored, minute, hour, dirty>>
      /\ Ids' = Ids /\ \A i : History(i)' = History(i)
  BY OpenStays, HistoryStays DEF Prune
<1>4. PICK b \in Int : b = Bucket(now - retention, M) /\ b <= now - RawFloor
  <2>1. now - retention \in Int /\ now - retention <= now - RawFloor
    BY <1>1, Sizes DEF Clocks
  <2>2. Bucket(now - retention, M) \in Int /\ Bucket(now - retention, M) <= now - retention
    BY <2>1, Sizes, BucketStarts
  <2>3. now - RawFloor \in Int
    BY <1>1, Sizes DEF Clocks
  <2> QED BY <2>1, <2>2, <2>3
<1>5. now \in Nat /\ RawFloor \in Nat /\ M \in Nat /\ M > 0 /\ MaxPause \in Nat
      /\ MaxPause + M <= RawFloor /\ 2 * MaxPause + M - 1 <= RawFloor
  BY <1>1, Sizes DEF Clocks
<1>6. ASSUME NEW s \in samples, s \notin samples'
      PROVE  s.at \in Nat /\ s.at < b /\ MinuteOf(s.generation, s.at) \notin dirty
  BY <1>1, <1>2, <1>4, <1>6, RowsHaveTimes DEF RawVictims, Tables
<1>7. Gone'
  <2> SUFFICES ASSUME NEW s \in stored, s \notin samples'
               PROVE  /\ MinuteOf(s.generation, s.at) \notin dirty
                      /\ Bucket(s.at, M) + M + RawFloor <= now + faults
    BY <1>3 DEF JInv, Gone
  <2>1. CASE s \notin samples
    BY <2>1 DEF JInv, Gone
  <2>2. CASE s \in samples
    <3>1. s.at \in Int /\ s.at < b /\ MinuteOf(s.generation, s.at) \notin dirty
      BY <1>6, <2>2
    <3>2. PICK t \in Int : t = now - retention
      BY <1>5, Sizes
    <3>3. Bucket(s.at, M) + M <= b
      BY <1>4, <1>5, <3>1, <3>2, BucketsAreApart
    <3>4. Bucket(s.at, M) \in Int /\ faults \in Nat
      BY <1>5, <3>1, BucketStarts, Sizes DEF JInv, Gone
    <3>5. Bucket(s.at, M) + M + RawFloor <= now + faults
      BY <1>4, <1>5, <3>3, <3>4
    <3> QED BY <3>1, <3>5
  <2> QED BY <2>1, <2>2
<1>8. Based'
  <2> SUFFICES ASSUME NEW g \in Ids, NEW m \in Minutes, <<M, g, m>> \in dirty,
                      NEW p, IsBefore(p, History(g), m), p \notin samples'
               PROVE  FALSE
    BY <1>3 DEF Based
  <2>1. p \in samples /\ p \in History(g) /\ p.at < m
        /\ \A s \in History(g) : s.at < m => s.at <= p.at
    BY DEF JInv, Based, IsBefore
  <2>2. p.at \in Nat /\ p.at < b /\ m \in Nat /\ \A s \in History(g) : s.at \in Nat
    BY <1>6, <2>1, MinuteIs, Histories
  <2>3. PICK s \in History(g) : m <= s.at + MaxPause
    BY DEF JInv, Near
  <2>4. m <= p.at + MaxPause
    <3>1. CASE p.at < s.at
      <4>1. PICK u \in History(g) : p.at < u.at /\ u.at <= p.at + MaxPause
        BY <2>1, <3>1 DEF JInv, Steady
      <4>2. ~ (u.at < m)
        BY <2>1, <2>2, <4>1
      <4> QED BY <1>5, <2>2, <4>1, <4>2
    <3>2. CASE ~ (p.at < s.at)
      BY <1>5, <2>2, <2>3, <3>2
    <3> QED BY <3>1, <3>2
  <2>5. m + M <= now /\ m + M <= now - MaxPause
    BY <1>4, <1>5, <2>2, <2>4
  <2>6. MinuteDue(g, m)
    <3>1. CASE IsOpen(g)
      <4>1. PICK l \in samples : l.generation = g /\ now <= l.at + MaxPause
        BY <1>1, <3>1 DEF Led
      <4>2. l \in Rows(g) /\ l.at \in Nat
        BY <1>1, <4>1, RowsHaveTimes DEF Rows, Tables
      <4>3. l.at >= m + M
        BY <1>5, <2>2, <2>5, <4>1, <4>2
      <4> QED BY <2>5, <4>2, <4>3 DEF MinuteDue
    <3>2. CASE ~IsOpen(g)
      BY <2>5, <3>2 DEF MinuteDue
    <3> QED BY <3>1, <3>2
  <2> QED BY <1>3, <2>6 DEF JInv, SweptMinutes
<1>9. SweptMinutes' /\ SweptHours'
  BY <1>3 DEF SweptMinutes, SweptHours
<1> QED BY <1>3, <1>7, <1>8, <1>9, RollupsUndisturbed DEF JInv

\* The minute of now may be marked: no deleted row is in it, and when it is of
\* the open generation, the row it will be counted from is there.
LEMMA MarksAreSound ==
  ASSUME IInv, JInv, NEW m, m = Bucket(now, M)
  PROVE  /\ m \in Minutes /\ m \in Nat /\ m <= now /\ now < m + M
         /\ \A s \in stored : s \notin samples => Bucket(s.at, M) # m
         /\ \A g \in Ids : IsOpen(g) =>
              /\ \E s \in History(g) : now <= s.at + MaxPause /\ \A t \in History(g) : t.at <= s.at
              /\ \A p : IsBefore(p, History(g), m) => p \in samples
<1>1. Clocks /\ Tables /\ Led
  BY DEF IInv
<1>2. /\ now \in Nat /\ now \in 0 .. MaxTime /\ now \in Int
      /\ M \in Nat /\ M > 0 /\ MaxPause \in Nat
      /\ RawFloor \in Nat /\ MaxFaults \in Nat /\ MaxPause + M + MaxFaults - 1 <= RawFloor
  BY <1>1, Sizes DEF Clocks
<1>3. m \in Minutes /\ m \in Nat /\ m <= now /\ now < m + M
  BY <1>2, MinutesAndHours, BucketIsMultiple, MinuteIs
<1>4. faults \in Nat /\ faults <= MaxFaults
  BY <1>2 DEF JInv, Gone
<1>5. ASSUME NEW s \in stored, s \notin samples
      PROVE  Bucket(s.at, M) \in Int /\ Bucket(s.at, M) + M + RawFloor <= now + faults
             /\ s.at \in Nat /\ s.at < Bucket(s.at, M) + M
  <2>1. s.at \in Nat
    BY <1>1, RowsHaveTimes DEF Tables
  <2>2. s.at \in Int
    BY <2>1
  <2> QED BY <1>2, <1>5, <2>1, <2>2, BucketIsMultiple DEF JInv, Gone
<1>6. ASSUME NEW s \in stored, s \notin samples PROVE Bucket(s.at, M) # m
  <2>1. PICK b \in Int : b = Bucket(s.at, M) /\ b + M + RawFloor <= now + faults
    BY <1>5, <1>6
  <2>2. b # m
    BY <1>2, <1>3, <1>4, <2>1
  <2> QED BY <2>1, <2>2
<1>7. ASSUME NEW g \in Ids, IsOpen(g)
      PROVE  /\ \E s \in History(g) : now <= s.at + MaxPause /\ \A t \in History(g) : t.at <= s.at
             /\ \A p : IsBefore(p, History(g), m) => p \in samples
  <2>1. PICK s \in samples : /\ s.generation = g /\ now <= s.at + MaxPause
                             /\ \A t \in History(g) : t.at <= s.at
    BY <1>1, <1>7 DEF Led
  <2>2. s \in History(g) /\ History(g) \subseteq stored /\ \A t \in History(g) : t.at \in Nat
    BY <1>1, <2>1, Histories DEF Tables, History
  <2>3. ASSUME NEW p, IsBefore(p, History(g), m), p \notin samples PROVE FALSE
    <3>1. p \in History(g) /\ p.at \in Nat /\ s.at \in Nat /\ p.at <= s.at
          /\ \A t \in History(g) : t.at < m => t.at <= p.at
      BY <2>1, <2>2, <2>3 DEF IsBefore
    <3>2. p.at + RawFloor < now + MaxFaults
      <4>1. PICK b \in Int : b + M + RawFloor <= now + faults /\ p.at < b + M
        BY <1>5, <2>2, <2>3, <3>1
      <4> QED BY <1>2, <1>4, <3>1, <4>1
    <3>3. now <= p.at + MaxPause + M - 1
      <4>1. CASE p.at < s.at
        <5>1. PICK u \in History(g) : p.at < u.at /\ u.at <= p.at + MaxPause
          BY <2>2, <3>1, <4>1 DEF JInv, Steady
        <5>2. u.at \in Nat /\ ~ (u.at < m)
          BY <2>2, <3>1, <5>1
        <5> QED BY <1>2, <1>3, <3>1, <5>1, <5>2
      <4>2. CASE p.at = s.at
        BY <1>2, <2>1, <3>1, <4>2
      <4> QED BY <3>1, <4>1, <4>2
    <3> QED BY <1>2, <3>1, <3>2, <3>3
  <2> QED BY <2>1, <2>2, <2>3
<1> QED BY <1>3, <1>6, <1>7

\* A reset marks a minute of the generation it ends.
LEMMA StoreResetOwns == IInv /\ JInv /\ StoreReset => JInv'
<1> SUFFICES ASSUME IInv, JInv, StoreReset PROVE JInv'
  OBVIOUS
<1>1. Clocks /\ Tables /\ Rollups /\ Sweeps /\ Fresh
  BY DEF IInv
<1>2. /\ Take /\ generations' = Close(OpenIds)
      /\ UNCHANGED <<now, link, moved, collector, faults, samples, stored, minute, hour, sweep>>
  BY DEF StoreReset
<1>3. /\ UNCHANGED <<now, faults, samples, stored, minute, hour, sweeping, todo>>
      /\ ~sweeping /\ todo = {}
  BY <1>1, <1>2 DEF sweep, Take, Sweeps
<1>4. /\ Ids' = Ids /\ \A g \in Ids : ~ IsOpen(g)'
      /\ \A g : History(g)' = History(g)
  <2>1. generations \in Seq(Generations)
    BY <1>1 DEF Tables
  <2> QED BY <1>2, <1>3, <2>1, CloseKeeps, HistoryStays DEF Ids, OpenIds, IsOpen
<1>5. PICK m : m = Bucket(now, M)
  OBVIOUS
<1>6. dirty \subseteq dirty' /\ \A x \in dirty' : x \in dirty \/ \E g \in OpenIds : x = <<M, g, m>>
  <2>1. Head(queue).at = now
    BY <1>1, <1>2, TakeKeeps
  <2>2. CASE OpenIds = {}
    BY <2>2 DEF StoreReset
  <2>3. CASE OpenIds # {}
    <3>1. PICK g \in OpenIds : dirty' = dirty \cup {MinuteOf(g, now)}
      BY <2>1, <2>3 DEF StoreReset
    <3> QED BY <1>5, <3>1 DEF MinuteOf
  <2> QED BY <2>2, <2>3
<1>7. /\ m \in Minutes /\ m \in Nat /\ m <= now /\ now < m + M
      /\ \A s \in stored : s \notin samples => Bucket(s.at, M) # m
      /\ \A g \in Ids : IsOpen(g) =>
           /\ \E s \in History(g) : now <= s.at + MaxPause /\ \A t \in History(g) : t.at <= s.at
           /\ \A p : IsBefore(p, History(g), m) => p \in samples
  BY <1>5, MarksAreSound
<1>8. H # M
  BY Sizes
<1>9. /\ \A g, b : <<M, g, b>> \in dirty' =>
                     <<M, g, b>> \in dirty \/ (g \in Ids /\ IsOpen(g) /\ b = m)
      /\ \A g, b : <<H, g, b>> \in dirty' => <<H, g, b>> \in dirty
  BY <1>6, <1>8 DEF OpenIds
<1>10. Steady'
  BY <1>3, <1>4, RollupsUndisturbed DEF JInv
<1>11. Near'
  <2>1. ASSUME NEW g \in Ids, IsOpen(g) PROVE \E s \in History(g) : m <= s.at + MaxPause
    <3>1. PICK s \in History(g) : now <= s.at + MaxPause
      BY <1>7, <2>1
    <3>2. now \in Nat /\ s.at \in Nat /\ MaxPause \in Nat
      BY <1>1, Sizes, Histories DEF Clocks
    <3> QED BY <1>7, <3>1, <3>2
  <2> QED BY <1>4, <1>9, <2>1 DEF JInv, Near
<1>12. Past'
  BY <1>4 DEF Past
<1>13. Gone'
  <2>1. \A s \in stored : s \notin samples => MinuteOf(s.generation, s.at) \notin dirty'
    BY <1>7, <1>9 DEF JInv, Gone, MinuteOf
  <2> QED BY <1>3, <2>1 DEF JInv, Gone
<1>14. Based'
  BY <1>3, <1>4, <1>7, <1>9 DEF JInv, Based
<1>15. SweptMinutes' /\ SweptHours'
  BY <1>3 DEF SweptMinutes, SweptHours
<1>16. Summed'
  BY <1>3, <1>6 DEF JInv, Summed, MinuteOf
<1>17. MinutesTrue'
  BY <1>3, <1>4, <1>6 DEF JInv, MinutesTrue
<1>18. HoursTrue'
  <2>1. \A g \in Ids, h \in Hours : CleanHour(g, h)' => CleanHour(g, h)
    BY <1>6 DEF CleanHour
  <2> QED BY <1>3, <1>4, <2>1 DEF JInv, HoursTrue
<1> QED BY <1>10, <1>11, <1>12, <1>13, <1>14, <1>15, <1>16, <1>17, <1>18 DEF JInv

\* A sample that goes on: what its generation said up to it stays, and the
\* minute it is in, with its hour, is to be counted again.
LEMMA GoesOnOwns ==
  ASSUME IInv, JInv, StoreSnapshot, NEW g \in Ids, GoesOn(g, Head(queue))
  PROVE  JInv'
<1>1. Clocks /\ Tables /\ Rollups /\ Sweeps /\ OneOpen
  BY DEF IInv
<1>2. PICK row \in Samples :
        /\ row.generation = g /\ row.at = now /\ IsOpen(g) /\ Ids' = Ids
        /\ \A h \in Ids : IsOpen(h)' <=> IsOpen(h)
        /\ samples' = samples \cup {row} /\ stored' = stored \cup {row}
        /\ dirty' = dirty \cup {MinuteOf(g, now)}
        /\ \A s \in History(g) : s.at < row.at
        /\ \A h : History(h)' = IF h = g THEN History(g) \cup {row} ELSE History(h)
        /\ Take /\ UNCHANGED <<now, faults, minute, hour, sweep>>
  BY GoesOnAdds
<1>3. /\ ~sweeping /\ todo = {} /\ sweeping' = sweeping /\ todo' = todo
      /\ UNCHANGED <<now, faults, minute, hour>>
  BY <1>1, <1>2 DEF Take, sweep, Sweeps
<1>4. PICK m : m = Bucket(now, M)
  OBVIOUS
<1>5. /\ m \in Minutes /\ m \in Nat /\ m <= now /\ now < m + M
      /\ \A s \in stored : s \notin samples => Bucket(s.at, M) # m
      /\ \E s \in History(g) : now <= s.at + MaxPause /\ \A t \in History(g) : t.at <= s.at
      /\ \A p : IsBefore(p, History(g), m) => p \in samples
  BY <1>2, <1>4, MarksAreSound
<1>6. PICK R : R = History(g)
  OBVIOUS
<1>7. /\ R \subseteq Samples /\ Distinct(R) /\ R # {} /\ \A s \in R : s.at \in Nat
      /\ now \in Nat /\ row.at = now /\ H # M /\ M \in Nat /\ H \in Nat /\ MaxPause \in Nat
  BY <1>1, <1>2, <1>6, Histories, Sizes DEF Clocks
<1>8. PICK Q : Q = R \cup {row}
  OBVIOUS
<1>9. History(g)' = Q /\ \A h \in Ids : h # g => History(h)' = History(h)
  BY <1>2, <1>6, <1>8
<1>10. \A s \in R : s.at < row.at
  BY <1>2, <1>6
<1>11. /\ \A h, b : <<M, h, b>> \in dirty' <=> <<M, h, b>> \in dirty \/ (h = g /\ b = m)
       /\ \A h, b : <<H, h, b>> \in dirty' <=> <<H, h, b>> \in dirty
  BY <1>2, <1>4, <1>7 DEF MinuteOf
<1>12. PICK l \in R : now <= l.at + MaxPause /\ \A t \in R : t.at <= l.at
  BY <1>5, <1>6
<1>13. Steady'
  <2> SUFFICES ASSUME NEW h \in Ids, NEW s \in History(h)', NEW t \in History(h)', s.at < t.at
               PROVE  \E u \in History(h)' : s.at < u.at /\ u.at <= s.at + MaxPause
    BY <1>2 DEF Steady
  <2>1. CASE h # g
    BY <1>9, <2>1 DEF JInv, Steady
  <2>2. CASE h = g
    <3>1. s \in R
      <4>1. ASSUME s = row PROVE FALSE
        <5>1. t.at <= row.at /\ t.at \in Nat
          BY <1>7, <1>8, <1>9, <1>10, <2>2
        <5> QED BY <1>7, <4>1, <5>1
      <4> QED BY <1>8, <1>9, <2>2, <4>1
    <3>2. CASE s.at < l.at
      <4>1. PICK u \in R : s.at < u.at /\ u.at <= s.at + MaxPause
        BY <1>6, <3>1, <3>2 DEF JInv, Steady
      <4> QED BY <1>8, <1>9, <2>2, <4>1
    <3>3. CASE ~ (s.at < l.at)
      <4>1. s.at = l.at
        BY <1>7, <1>12, <3>1, <3>3
      <4>2. s.at < row.at /\ row.at <= s.at + MaxPause
        BY <1>7, <1>10, <1>12, <3>1, <4>1
      <4> QED BY <1>8, <1>9, <2>2, <4>2
    <3> QED BY <3>2, <3>3
  <2> QED BY <2>1, <2>2
<1>14. \A h \in Ids : History(h) \subseteq History(h)'
  BY <1>6, <1>8, <1>9
<1>15. row \in History(g)' /\ m <= row.at /\ m <= row.at + MaxPause
  BY <1>5, <1>7, <1>8, <1>9
<1>16. Near'
  BY <1>2, <1>11, <1>14, <1>15 DEF JInv, Near
<1>17. Past'
  BY <1>2, <1>3, <1>11, <1>14, <1>15 DEF JInv, Past
<1>18. Gone'
  <2>1. \A s \in stored' : s \notin samples' => s \in stored /\ s \notin samples
    BY <1>2
  <2>2. \A s \in stored : s \notin samples => MinuteOf(s.generation, s.at) \notin dirty'
    BY <1>5, <1>11 DEF JInv, Gone, MinuteOf
  <2> QED BY <1>3, <2>1, <2>2 DEF JInv, Gone
<1>19. \A b \in Minutes : <<M, g, b>> \in dirty \/ <<g, b>> \in DOMAIN minute =>
         b < row.at /\ b <= row.at /\ b \in Nat
  <2> SUFFICES ASSUME NEW b \in Minutes, <<M, g, b>> \in dirty \/ <<g, b>> \in DOMAIN minute
               PROVE  b < row.at /\ b <= row.at /\ b \in Nat
    OBVIOUS
  <2>1. PICK s \in R : b <= s.at
    BY <1>2, <1>6 DEF JInv, Past
  <2> QED BY <1>7, <1>10, <2>1, MinuteIs
<1>20. \A b \in Minutes : <<M, g, b>> \in dirty' => b <= row.at /\ b \in Nat
  <2>1. m <= row.at /\ m \in Nat
    BY <1>5, <1>7
  <2>2. \A b \in Minutes : <<M, g, b>> \in dirty => b <= row.at /\ b \in Nat
    BY <1>19
  <2> QED BY <1>11, <2>1, <2>2
<1>21. Based'
  <2> SUFFICES ASSUME NEW h \in Ids, NEW b \in Minutes, <<M, h, b>> \in dirty',
                      NEW p, IsBefore(p, History(h)', b)
               PROVE  p \in samples
    BY <1>2 DEF Based
  <2>1. CASE h # g
    BY <1>9, <1>11, <2>1 DEF JInv, Based
  <2>2. CASE h = g
    <3>1. b <= row.at /\ b \in Nat
      BY <1>20, <2>2
    <3>2. p \in R
      <4>1. p \in Q /\ p.at < b
        BY <1>9, <2>2 DEF IsBefore
      <4>2. p # row
        BY <1>7, <3>1, <4>1
      <4> QED BY <1>8, <4>1, <4>2
    <3>3. IsBefore(p, R, b)
      BY <1>8, <1>9, <2>2, <3>2 DEF IsBefore
    <3> QED BY <1>5, <1>6, <1>11, <2>2, <3>3 DEF JInv, Based
  <2> QED BY <2>1, <2>2
<1>22. SweptMinutes' /\ SweptHours'
  BY <1>3 DEF SweptMinutes, SweptHours
<1>23. Summed'
  <2>1. MinuteOf(row.generation, row.at) \in dirty' /\ dirty \subseteq dirty'
    BY <1>2
  <2> QED BY <1>2, <1>3, <2>1 DEF JInv, Summed
<1>24. ASSUME NEW a \in Nat, NEW b \in Nat, a <= b, b <= row.at
       PROVE  Diff(Q, a, b) = Diff(R, a, b)
  <2>1. a \in Int /\ b \in Int /\ a <= row.at
    BY <1>7, <1>24
  <2>2. RowOf(Q, a) = RowOf(R, a) /\ RowOf(Q, b) = RowOf(R, b)
    BY <1>7, <1>8, <1>10, <1>24, <2>1, RowOfStays
  <2> QED BY <2>2 DEF Diff
<1>25. MinutesTrue'
  <2> SUFFICES ASSUME NEW h \in Ids, NEW b \in Minutes, <<h, b>> \in DOMAIN minute,
                      <<M, h, b>> \notin dirty'
               PROVE  minute[<<h, b>>] = Diff(History(h)', b, b + M)
    BY <1>2, <1>3 DEF MinutesTrue
  <2>1. minute[<<h, b>>] = Diff(History(h), b, b + M)
    BY <1>11 DEF JInv, MinutesTrue
  <2>2. CASE h # g
    BY <1>9, <2>1, <2>2
  <2>3. CASE h = g
    <3>1. b < row.at /\ b \in Nat
      BY <1>19, <2>3
    <3>2. ASSUME row.at < b + M PROVE FALSE
      <4>1. Bucket(row.at, M) = b
        BY <1>7, <3>1, <3>2, MinuteIs
      <4> QED BY <1>4, <1>7, <1>11, <2>3, <4>1
    <3>3. PICK c \in Nat : c = b + M /\ b <= c /\ c <= row.at
      BY <1>7, <3>1, <3>2
    <3>4. Diff(Q, b, c) = Diff(R, b, c)
      BY <1>24, <3>1, <3>3
    <3> QED BY <1>6, <1>9, <2>1, <2>3, <3>3, <3>4
  <2> QED BY <2>2, <2>3
<1>26. HoursTrue'
  <2> SUFFICES ASSUME NEW h \in Ids, NEW b \in Hours, <<h, b>> \in DOMAIN hour, CleanHour(h, b)'
               PROVE  hour[<<h, b>>] = Diff(History(h)', b, b + H)
    BY <1>2, <1>3 DEF HoursTrue
  <2>1. CleanHour(h, b)
    BY <1>11 DEF CleanHour
  <2>2. hour[<<h, b>>] = Diff(History(h), b, b + H)
    BY <2>1 DEF JInv, HoursTrue
  <2>3. CASE h # g
    BY <1>9, <2>2, <2>3
  <2>4. CASE h = g
    <3>1. PICK s \in R : b <= s.at
      BY <1>2, <1>6, <2>4 DEF JInv, Past
    <3>2. b <= row.at /\ b \in Nat
      BY <1>7, <1>10, <3>1, HourIs
    <3>3. ASSUME row.at < b + H PROVE FALSE
      <4>1. Bucket(row.at, H) = b
        BY <1>7, <3>2, <3>3, HourIs
      <4>2. Bucket(m, H) = b
        BY <1>4, <1>7, <4>1, MinutesNest
      <4> QED BY <1>5, <1>11, <2>4, <4>2 DEF CleanHour
    <3>4. PICK c \in Nat : c = b + H /\ b <= c /\ c <= row.at
      BY <1>7, <3>2, <3>3
    <3>5. Diff(Q, b, c) = Diff(R, b, c)
      BY <1>24, <3>2, <3>4
    <3> QED BY <1>6, <1>9, <2>2, <2>4, <3>4, <3>5
  <2> QED BY <2>3, <2>4
<1> QED BY <1>13, <1>16, <1>17, <1>18, <1>21, <1>22, <1>23, <1>25, <1>26 DEF JInv

\* A sample that begins a generation: nothing is known of it yet, and the one it
\* ends is marked as by a reset.
LEMMA BeginsOwns ==
  ASSUME IInv, JInv, StoreSnapshot, \A g \in Ids : ~GoesOn(g, Head(queue))
  PROVE  JInv'
<1>1. Clocks /\ Tables /\ Rollups /\ Sweeps
  BY DEF IInv
<1>2. PICK n \in Nat, row \in Samples :
        /\ row.generation = n /\ row.at = now /\ Ids' = Ids \cup {n} /\ n \notin Ids
        /\ \A h \in Ids : ~ IsOpen(h)'
        /\ samples' = samples \cup {row} /\ stored' = stored \cup {row}
        /\ dirty' = dirty \cup {MinuteOf(h, now) : h \in OpenIds \cup {n}}
        /\ History(n)' = {row} /\ \A h \in Ids : History(h)' = History(h)
        /\ Take /\ UNCHANGED <<now, faults, minute, hour, sweep>>
  BY BeginsAdds
<1>3. /\ ~sweeping /\ todo = {} /\ sweeping' = sweeping /\ todo' = todo
      /\ UNCHANGED <<now, faults, minute, hour>>
  BY <1>1, <1>2 DEF Take, sweep, Sweeps
<1>4. PICK m : m = Bucket(now, M)
  OBVIOUS
<1>5. /\ m \in Minutes /\ m \in Nat /\ m <= now /\ now < m + M
      /\ \A s \in stored : s \notin samples => Bucket(s.at, M) # m
      /\ \A g \in Ids : IsOpen(g) =>
           /\ \E s \in History(g) : now <= s.at + MaxPause /\ \A t \in History(g) : t.at <= s.at
           /\ \A p : IsBefore(p, History(g), m) => p \in samples
  BY <1>4, MarksAreSound
<1>6. /\ H # M /\ now \in Nat /\ row.at = now /\ MaxPause \in Nat
      /\ \A h \in Ids : \A s \in History(h) : s.at \in Nat
  BY <1>1, <1>2, Sizes, Histories DEF Clocks
<1>7. /\ \A h, b : <<M, h, b>> \in dirty' <=>
                     <<M, h, b>> \in dirty \/ (b = m /\ (h = n \/ (h \in Ids /\ IsOpen(h))))
      /\ \A h, b : <<H, h, b>> \in dirty' <=> <<H, h, b>> \in dirty
  BY <1>2, <1>4, <1>6 DEF MinuteOf, OpenIds
<1>8. /\ \A b : <<M, n, b>> \notin dirty /\ <<H, n, b>> \notin dirty
      /\ \A b : <<n, b>> \notin DOMAIN minute /\ <<n, b>> \notin DOMAIN hour
  BY <1>1, <1>2 DEF Rollups
<1>9. /\ \A b : <<M, n, b>> \in dirty' => b = m
      /\ \A b : <<H, n, b>> \notin dirty'
  <2>1. \A b : <<M, n, b>> \in dirty' => <<M, n, b>> \in dirty \/ b = m
    BY <1>7
  <2>2. \A b : <<H, n, b>> \in dirty' => <<H, n, b>> \in dirty
    BY <1>7
  <2> QED BY <1>8, <2>1, <2>2
<1>10. Steady'
  <2>1. ~ (row.at < row.at)
    BY <1>6
  <2> QED BY <1>2, <2>1 DEF JInv, Steady
<1>11. Near'
  <2>1. ASSUME NEW g \in Ids, IsOpen(g) PROVE \E s \in History(g) : m <= s.at + MaxPause
    <3>1. PICK s \in History(g) : now <= s.at + MaxPause
      BY <1>5, <2>1
    <3> QED BY <1>5, <1>6, <3>1
  <2>2. m <= row.at + MaxPause
    BY <1>5, <1>6
  <2> SUFFICES ASSUME NEW h \in Ids', NEW b \in Minutes, <<M, h, b>> \in dirty'
               PROVE  \E s \in History(h)' : b <= s.at + MaxPause
    BY DEF Near
  <2>3. CASE h = n
    <3>1. b = m
      BY <1>9, <2>3
    <3>2. row \in History(h)'
      BY <1>2, <2>3
    <3> QED BY <2>2, <3>1, <3>2
  <2>4. CASE h \in Ids
    <3>1. <<M, h, b>> \in dirty \/ (b = m /\ IsOpen(h))
      BY <1>2, <1>7, <2>4
    <3>2. \E s \in History(h) : b <= s.at + MaxPause
      BY <2>1, <2>4, <3>1 DEF JInv, Near
    <3> QED BY <1>2, <2>4, <3>2
  <2> QED BY <1>2, <2>3, <2>4
<1>12. Past'
  <2> SUFFICES ASSUME NEW h \in Ids', IsOpen(h)'
               PROVE  /\ \A b \in Minutes : <<M, h, b>> \in dirty' \/ <<h, b>> \in DOMAIN minute' =>
                           \E s \in History(h)' : b <= s.at
                      /\ \A b \in Hours : <<H, h, b>> \in dirty' \/ <<h, b>> \in DOMAIN hour' =>
                           \E s \in History(h)' : b <= s.at
    BY DEF Past
  <2>1. h = n
    BY <1>2
  <2>2. \A b : <<M, n, b>> \in dirty' \/ <<n, b>> \in DOMAIN minute' => b = m
    BY <1>3, <1>8, <1>9
  <2>3. \A b : <<H, n, b>> \notin dirty' /\ <<n, b>> \notin DOMAIN hour'
    BY <1>3, <1>8, <1>9
  <2>4. row \in History(h)' /\ m <= row.at
    BY <1>2, <1>5, <1>6, <2>1
  <2> QED BY <2>1, <2>2, <2>3, <2>4
<1>13. Gone'
  <2>1. \A s \in stored' : s \notin samples' => s \in stored /\ s \notin samples
    BY <1>2
  <2>2. \A s \in stored : s \notin samples => MinuteOf(s.generation, s.at) \notin dirty'
    BY <1>5, <1>7 DEF JInv, Gone, MinuteOf
  <2> QED BY <1>3, <2>1, <2>2 DEF JInv, Gone
<1>14. Based'
  <2> SUFFICES ASSUME NEW h \in Ids', NEW b \in Minutes, <<M, h, b>> \in dirty',
                      NEW p, IsBefore(p, History(h)', b)
               PROVE  p \in samples'
    BY DEF Based
  <2>1. CASE h = n
    <3>1. b = m /\ p = row
      BY <1>2, <1>7, <1>8, <2>1 DEF IsBefore
    <3> QED BY <1>2, <3>1
  <2>2. CASE h \in Ids
    BY <1>2, <1>5, <1>7, <2>2 DEF JInv, Based
  <2> QED BY <1>2, <2>1, <2>2
<1>15. SweptMinutes' /\ SweptHours'
  BY <1>3 DEF SweptMinutes, SweptHours
<1>16. Summed'
  <2>1. MinuteOf(row.generation, row.at) \in dirty' /\ dirty \subseteq dirty'
    BY <1>2
  <2> QED BY <1>2, <1>3, <2>1 DEF JInv, Summed
<1>17. MinutesTrue'
  BY <1>2, <1>3, <1>7, <1>8 DEF JInv, MinutesTrue
<1>18. HoursTrue'
  <2>1. \A h \in Ids, b \in Hours : CleanHour(h, b)' => CleanHour(h, b)
    BY <1>7 DEF CleanHour
  <2> QED BY <1>2, <1>3, <1>8, <2>1 DEF JInv, HoursTrue
<1> QED BY <1>10, <1>11, <1>12, <1>13, <1>14, <1>15, <1>16, <1>17, <1>18 DEF JInv

\* At the start there is nothing.
LEMMA InitOwns == Init => JInv
<1> SUFFICES ASSUME Init PROVE JInv
  OBVIOUS
<1>1. Ids = {}
  <2>1. Len(generations) = 0
    BY DEF Init
  <2> QED BY <2>1 DEF Ids
<1>2. faults \in 0 .. MaxFaults
  BY Sizes DEF Init
<1>3. Gone /\ Summed
  BY <1>2 DEF Init, Gone, Summed
<1> QED BY <1>1, <1>3 DEF Init, JInv, Steady, Near, Past, Based, SweptMinutes, SweptHours,
                          MinutesTrue, HoursTrue

\* Nothing of the rollups happens in a poll, in time, or in a crash.
LEMMA OthersOwn ==
  ASSUME IInv, JInv, IInv', Poll \/ Tick \/ SetBack \/ Crash \/ UNCHANGED vars
  PROVE  JInv'
<1>1. /\ now \in Nat /\ now' \in Nat
      /\ faults \in 0 .. MaxFaults /\ faults \in Nat /\ MaxFaults \in Nat
  BY Sizes DEF IInv, Clocks, JInv, Gone
<1>2. CASE Poll \/ UNCHANGED vars
  <2>1. UNCHANGED <<now, faults, tables, sweep>>
    BY <1>2 DEF Poll, PollPresent, PollAbsent, vars
  <2>2. faults' \in 0 .. MaxFaults /\ now + faults <= now' + faults'
    BY <1>1, <2>1
  <2> QED BY <1>1, <2>1, <2>2, IdleStep
<1>3. CASE Tick
  <2>1. now' = now + 1 /\ UNCHANGED <<faults, tables, sweep>> /\ ~sweeping
    BY <1>3 DEF Tick
  <2>2. faults' \in 0 .. MaxFaults /\ now + faults <= now' + faults'
    BY <1>1, <2>1
  <2> QED BY <1>1, <2>1, <2>2, IdleStep
<1>4. CASE SetBack
  <2>1. /\ now' = now - 1 /\ faults' = faults + 1 /\ faults < MaxFaults
        /\ UNCHANGED <<tables, sweep>> /\ ~sweeping
    BY <1>4 DEF SetBack
  <2>2. faults' \in 0 .. MaxFaults /\ now + faults <= now' + faults'
    BY <1>1, <2>1
  <2> QED BY <1>1, <2>1, <2>2, IdleStep
<1>5. CASE Crash
  <2>1. /\ now' = now /\ faults' = faults + 1 /\ faults < MaxFaults
        /\ UNCHANGED tables /\ sweeping' = FALSE /\ todo' = {}
    BY <1>5 DEF Crash
  <2>2. faults' \in 0 .. MaxFaults /\ now + faults <= now' + faults'
    BY <1>1, <2>1
  <2> QED BY <1>1, <2>1, <2>2, IdleStep
<1> QED BY <1>2, <1>3, <1>4, <1>5

LEMMA OwnsInductive == Spec => []JInv
<1>1. Init => JInv
  BY InitOwns
<1>2. IInv /\ IInv' /\ JInv /\ [Next]_vars => JInv'
  <2> SUFFICES ASSUME IInv, IInv', JInv, [Next]_vars PROVE JInv'
    OBVIOUS
  <2>1. CASE Poll \/ Tick \/ SetBack \/ Crash \/ UNCHANGED vars
    BY <2>1, OthersOwn
  <2>2. CASE StoreReset
    BY <2>2, StoreResetOwns
  <2>3. CASE StoreSnapshot
    BY <2>3, GoesOnOwns, BeginsOwns
  <2>4. CASE StartSweep
    BY <2>4, StartSweepOwns
  <2>5. CASE Prune
    BY <2>5, PruneOwns
  <2>6. CASE \E g \in Ids, m \in Minutes : RecomputeMinute(g, m)
    BY <2>6, RecomputeMinuteOwns
  <2>7. CASE \E g \in Ids, h \in Hours : RecomputeHour(g, h)
    BY <2>7, RecomputeHourOwns
  <2> QED BY <2>1, <2>2, <2>3, <2>4, <2>5, <2>6, <2>7 DEF Next, Store, Maintain
<1> QED BY <1>1, <1>2, Inductive, PTL DEF Spec

\* Every sample is of a minute that is summed or going to be, and a clean minute
\* or hour holds the differences up to each of its samples, the one over its
\* start included, although rows it was made from are deleted
\* (recomputeMinute and recomputeHour, internal/store/sqlite/rollup.go:159;
\* internal/store/sqlite/retention.go:43).
THEOREM OwnedDifferences == Spec => []DifferencesAreOwned
<1>1. IInv /\ JInv => DifferencesAreOwned
  <2> SUFFICES ASSUME IInv, JInv PROVE DifferencesAreOwned
    OBVIOUS
  <2>1. Rollups
    BY DEF IInv
  <2>2. \A g, a, b : Truth(g, a, b) = Diff(History(g), a, b)
    BY DEF Truth, Diff, RowAt, RowOf
  <2>3. Summed
    BY DEF JInv
  <2>4. ASSUME NEW k \in DOMAIN minute, <<M, k[1], k[2]>> \notin dirty
        PROVE  minute[k] = Truth(k[1], k[2], k[2] + M)
    <3>1. PICK g \in Ids, m \in Minutes : k = <<g, m>> /\ k[1] = g /\ k[2] = m
      BY <2>1 DEF Rollups
    <3>2. minute[<<g, m>>] = Diff(History(g), m, m + M)
      BY <2>4, <3>1 DEF JInv, MinutesTrue
    <3> QED BY <2>2, <3>1, <3>2
  <2>5. ASSUME NEW k \in DOMAIN hour,
               <<H, k[1], k[2]>> \notin dirty /\ \A m \in Minutes : Bucket(m, H) = k[2] =>
                 <<M, k[1], m>> \notin dirty
        PROVE  hour[k] = Truth(k[1], k[2], k[2] + H)
    <3>1. PICK g \in Ids, h \in Hours : k = <<g, h>> /\ k[1] = g /\ k[2] = h
      BY <2>1 DEF Rollups
    <3>2. CleanHour(g, h)
      BY <2>5, <3>1 DEF CleanHour
    <3>3. hour[<<g, h>>] = Diff(History(g), h, h + H)
      BY <3>1, <3>2 DEF JInv, HoursTrue
    <3> QED BY <2>2, <3>1, <3>3
  <2> QED BY <2>3, <2>4, <2>5 DEF DifferencesAreOwned, Summed
<1> QED BY <1>1, Inductive, OwnsInductive, PTL
-----------------------------------------------------------------------------
(* What a reader of raw rows meets.                                        *)

\* A minute from which no row is gone, nor the one that its first differs from.
Complete(m) ==
  \A g \in Ids : \A s \in History(g) : Bucket(s.at, M) = m =>
    s \in samples /\ \A p : IsBefore(p, History(g), m) => p \in samples
\* The minutes that are dirty in any generation are that in all of them.
Readable == \A g \in Ids, m \in Minutes : <<M, g, m>> \in dirty => Complete(m)
\* The hour of a summed minute is summed or going to be.
Rolled ==
  \A k \in DOMAIN minute : \/ <<H, k[1], Bucket(k[2], H)>> \in dirty
                           \/ <<k[1], Bucket(k[2], H)>> \in DOMAIN hour
KInv == Readable /\ Rolled

\* It is the same while the rows are.
LEMMA CompleteStays ==
  ASSUME Ids' = Ids, UNCHANGED <<stored, samples>>
  PROVE  \A m : Complete(m)' <=> Complete(m)
BY HistoryStays DEF Complete

\* The row before a minute is not long before it, when there is one after it.
LEMMA BeforeIsNear ==
  ASSUME IInv, JInv, NEW g \in Ids, NEW m \in Int, NEW s \in History(g), m <= s.at,
         NEW p, IsBefore(p, History(g), m)
  PROVE  p.at \in Nat /\ m <= p.at + MaxPause
<1>1. \A t \in History(g) : t.at \in Nat
  BY Histories
<1>2. p \in History(g) /\ p.at < m /\ \A t \in History(g) : t.at < m => t.at <= p.at
  BY DEF IsBefore
<1>3. p.at < s.at
  BY <1>1, <1>2
<1>4. PICK u \in History(g) : p.at < u.at /\ u.at <= p.at + MaxPause
  BY <1>2, <1>3 DEF JInv, Steady
<1>5. ~ (u.at < m)
  BY <1>1, <1>2, <1>4
<1> QED BY <1>1, <1>2, <1>4, <1>5, Sizes

\* The minute of now is complete, whatever the clock was set back.
LEMMA CurrentIsComplete ==
  ASSUME IInv, JInv
  PROVE  Complete(Bucket(now, M))
<1>1. Clocks /\ Tables
  BY DEF IInv
<1>2. PICK m : m = Bucket(now, M)
  OBVIOUS
<1>3. /\ m \in Minutes /\ m \in Nat /\ m <= now /\ now < m + M /\ now \in Nat
      /\ \A s \in stored : s \notin samples => Bucket(s.at, M) # m
  BY <1>1, <1>2, MarksAreSound, Sizes DEF Clocks
<1>4. /\ M \in Nat /\ M > 0 /\ MaxPause \in Nat /\ RawFloor \in Nat /\ MaxFaults \in Nat
      /\ MaxPause + M + MaxFaults - 1 <= RawFloor
  BY Sizes
<1>5. ASSUME NEW g \in Ids, NEW s \in History(g), Bucket(s.at, M) = m
      PROVE  s \in samples /\ \A p : IsBefore(p, History(g), m) => p \in samples
  <2>1. s \in stored /\ s.at \in Int /\ \A t \in History(g) : t \in stored /\ t.at \in Nat
    BY Histories
  <2>2. m <= s.at
    BY <1>4, <1>5, <2>1, BucketStarts
  <2>3. ASSUME NEW p, IsBefore(p, History(g), m), p \notin samples PROVE FALSE
    <3>1. p.at \in Nat /\ m <= p.at + MaxPause
      BY <1>3, <2>2, <2>3, BeforeIsNear
    <3>2. p \in stored
      BY <2>1, <2>3 DEF IsBefore
    <3>3. PICK b \in Int : b = Bucket(p.at, M) /\ p.at < b + M
      <4>1. p.at \in Int
        BY <3>1
      <4> QED BY <1>4, <4>1, BucketIsMultiple
    <3>4. b + M + RawFloor <= now + faults /\ faults \in Nat /\ faults <= MaxFaults
      BY <1>4, <2>3, <3>2, <3>3 DEF JInv, Gone
    <3> QED BY <1>3, <1>4, <3>1, <3>3, <3>4
  <2> QED BY <1>3, <1>5, <2>1, <2>3
<1> QED BY <1>2, <1>5 DEF Complete

\* A deletion takes no row from a dirty minute of any generation: what is dirty
\* when a sweep ends is of this moment, or of a generation that is open.
LEMMA PruneReads == IInv /\ JInv /\ KInv /\ Prune => KInv'
<1> SUFFICES ASSUME IInv, JInv, KInv, Prune PROVE KInv'
  OBVIOUS
<1>1. Clocks /\ Tables /\ Led
  BY DEF IInv
<1>2. PICK retention \in {RawRetention, RawFloor} : samples' = samples \ RawVictims(retention)
  BY DEF Prune
<1>3. /\ todo = {} /\ sweeping
      /\ UNCHANGED <<now, generations, stored, minute, hour, dirty>>
      /\ Ids' = Ids /\ \A i : History(i)' = History(i)
  BY OpenStays, HistoryStays DEF Prune
<1>4. now \in Nat /\ RawFloor \in Nat /\ M \in Nat /\ M > 0 /\ MaxPause \in Nat
      /\ MaxPause + M <= RawFloor /\ 2 * MaxPause + M - 1 <= RawFloor
  BY <1>1, Sizes DEF Clocks
<1>5. ASSUME NEW s \in samples, s.at \in Nat, now - RawFloor <= s.at PROVE s \in samples'
  <2>1. now - retention \in Int /\ now - retention <= now - RawFloor
    BY <1>1, Sizes DEF Clocks
  <2>2. Bucket(now - retention, M) \in Int /\ Bucket(now - retention, M) <= now - retention
    BY <2>1, Sizes, BucketStarts
  <2>3. ~ (s.at < Bucket(now - retention, M))
    BY <1>4, <1>5, <2>1, <2>2
  <2> QED BY <1>2, <2>3 DEF RawVictims
<1>6. ASSUME NEW g \in Ids, NEW m \in Minutes, <<M, g, m>> \in dirty,
             NEW i \in Ids, NEW s \in History(i), Bucket(s.at, M) = m
      PROVE  s \in samples' /\ \A p : IsBefore(p, History(i), m) => p \in samples'
  <2>1. m \in Nat
    BY MinuteIs
  <2>2. now < m + M + MaxPause
    <3>1. ~ MinuteDue(g, m)
      BY <1>3, <1>6 DEF JInv, SweptMinutes
    <3>2. CASE m + M <= now
      <4>1. IsOpen(g) /\ \A r \in Rows(g) : ~ (r.at >= m + M)
        BY <3>1, <3>2 DEF MinuteDue
      <4>2. PICK l \in samples : l.generation = g /\ now <= l.at + MaxPause
        BY <1>1, <4>1 DEF Led
      <4>3. l \in Rows(g) /\ l.at \in Nat
        BY <1>1, <4>2, RowsHaveTimes DEF Rows, Tables
      <4> QED BY <1>4, <2>1, <4>1, <4>2, <4>3
    <3>3. CASE ~ (m + M <= now)
      BY <1>4, <2>1, <3>3
    <3> QED BY <3>2, <3>3
  <2>3. s.at \in Int /\ s.at \in Nat /\ m <= s.at
    <3>1. s.at \in Nat
      BY <1>6, Histories
    <3>2. s.at \in Int
      BY <3>1
    <3> QED BY <1>4, <1>6, <3>1, <3>2, BucketStarts
  <2>4. Complete(m)
    BY <1>6 DEF KInv, Readable
  <2>5. s \in samples /\ \A p : IsBefore(p, History(i), m) => p \in samples
    BY <1>6, <2>4 DEF Complete
  <2>6. now - RawFloor <= s.at
    BY <1>4, <2>1, <2>2, <2>3
  <2>7. ASSUME NEW p, IsBefore(p, History(i), m) PROVE p \in samples'
    <3>1. p.at \in Nat /\ m <= p.at + MaxPause
      BY <2>1, <2>3, <2>7, BeforeIsNear
    <3>2. now - RawFloor <= p.at
      BY <1>4, <2>1, <2>2, <3>1
    <3> QED BY <1>5, <2>5, <2>7, <3>1, <3>2
  <2> QED BY <1>5, <2>3, <2>5, <2>6, <2>7
<1>7. Readable'
  BY <1>3, <1>6 DEF Readable, Complete
<1>8. Rolled'
  BY <1>3 DEF KInv, Rolled
<1> QED BY <1>7, <1>8 DEF KInv

\* A minute is marked, and no row is added.
LEMMA StoreResetReads == IInv /\ JInv /\ KInv /\ StoreReset => KInv'
<1> SUFFICES ASSUME IInv, JInv, KInv, StoreReset PROVE KInv'
  OBVIOUS
<1>1. Clocks /\ Tables /\ Fresh
  BY DEF IInv
<1>2. /\ Take /\ generations' = Close(OpenIds)
      /\ UNCHANGED <<now, link, moved, collector, faults, samples, stored, minute, hour, sweep>>
  BY DEF StoreReset
<1>3. Ids' = Ids
  <2>1. generations \in Seq(Generations)
    BY <1>1 DEF Tables
  <2> QED BY <1>2, <2>1, CloseKeeps DEF Ids
<1>4. dirty \subseteq dirty' /\ \A x \in dirty' : x \in dirty \/ \E g : x = MinuteOf(g, now)
  <2>1. Head(queue).at = now
    BY <1>1, <1>2, TakeKeeps
  <2> QED BY <2>1 DEF StoreReset
<1>5. \A m : Complete(m)' <=> Complete(m)
  BY <1>2, <1>3, CompleteStays
<1>6. Readable'
  <2>1. ASSUME NEW g \in Ids, NEW m \in Minutes, <<M, g, m>> \in dirty' PROVE Complete(m)
    <3>1. CASE <<M, g, m>> \in dirty
      BY <3>1 DEF KInv, Readable
    <3>2. CASE m = Bucket(now, M)
      BY <3>2, CurrentIsComplete
    <3> QED BY <1>4, <2>1, <3>1, <3>2 DEF MinuteOf
  <2> QED BY <1>3, <1>5, <2>1 DEF Readable
<1>7. Rolled'
  BY <1>2, <1>4 DEF KInv, Rolled
<1> QED BY <1>6, <1>7 DEF KInv

\* A row is added: the minute of now was complete and is again, and others keep
\* their rows and the ones before them.
LEMMA GoesOnReads ==
  ASSUME IInv, JInv, KInv, StoreSnapshot, NEW g \in Ids, GoesOn(g, Head(queue))
  PROVE  KInv'
<1>1. Clocks /\ Tables /\ Led
  BY DEF IInv
<1>2. PICK row \in Samples :
        /\ row.generation = g /\ row.at = now /\ IsOpen(g) /\ Ids' = Ids
        /\ samples' = samples \cup {row} /\ stored' = stored \cup {row}
        /\ dirty' = dirty \cup {MinuteOf(g, now)}
        /\ \A s \in History(g) : s.at < row.at
        /\ \A h : History(h)' = IF h = g THEN History(g) \cup {row} ELSE History(h)
        /\ UNCHANGED <<now, minute, hour>>
  BY GoesOnAdds
<1>3. now \in Nat /\ row.at = now /\ row \in samples'
  BY <1>1, <1>2, Sizes DEF Clocks
<1>4. ASSUME NEW m \in Minutes, Complete(m), m = Bucket(now, M) \/ \E h \in Ids : <<M, h, m>> \in dirty,
             NEW i \in Ids, NEW s \in History(i)', Bucket(s.at, M) = m
      PROVE  s \in samples' /\ \A p : IsBefore(p, History(i)', m) => p \in samples'
  <2>1. m \in Nat
    BY MinuteIs
  <2>2. CASE i # g
    <3>1. History(i)' = History(i)
      BY <1>2, <2>2
    <3> QED BY <1>2, <1>4, <3>1 DEF Complete
  <2>3. CASE i = g
    <3>1. History(i)' = History(g) \cup {row}
      BY <1>2, <2>3
    <3>2. \A t \in History(g) : t.at \in Nat /\ t.at < now
      BY <1>2, Histories
    <3>3. m <= now
      <4>1. s.at \in Int /\ s.at <= now
        BY <1>3, <3>1, <3>2
      <4> QED BY <1>3, <1>4, <2>1, <4>1, BucketStarts, Sizes
    <3>4. ASSUME NEW p, IsBefore(p, History(g)', m) PROVE IsBefore(p, History(g), m) /\ p \in samples
      <4>1. p # row
        BY <1>3, <2>1, <3>3, <3>4 DEF IsBefore
      <4>2. IsBefore(p, History(g), m)
        BY <2>3, <3>1, <3>4, <4>1 DEF IsBefore
      <4>3. CASE \E t \in History(g) : Bucket(t.at, M) = m
        BY <1>4, <4>2, <4>3 DEF Complete
      <4>4. CASE \A t \in History(g) : Bucket(t.at, M) # m
        <5>1. PICK l \in samples : l.generation = g /\ \A t \in History(g) : t.at <= l.at
          BY <1>1, <1>2 DEF Led
        <5>2. l \in History(g)
          BY <1>1, <5>1 DEF Tables, History
        <5>3. s = row
          BY <1>4, <2>3, <3>1, <4>4
        <5>4. m = Bucket(now, M)
          BY <1>3, <1>4, <5>3
        <5>5. ~ (m <= l.at)
          <6>1. now < m + M
            BY <1>3, <5>4, BucketIsMultiple, Sizes
          <6>2. m <= l.at => Bucket(l.at, M) = m
            BY <1>3, <2>1, <3>2, <5>2, <6>1, MinuteIs, Sizes
          <6> QED BY <4>4, <5>2, <6>2
        <5>6. l.at < m
          BY <2>1, <3>2, <5>2, <5>5
        <5>7. p \in History(g) /\ l.at <= p.at /\ p.at <= l.at
          BY <4>2, <5>1, <5>2, <5>6 DEF IsBefore
        <5>8. p.at = l.at
          BY <3>2, <5>2, <5>7
        <5>9. p = l
          BY <5>2, <5>7, <5>8, Histories DEF Distinct
        <5> QED BY <4>2, <5>1, <5>9
      <4> QED BY <4>3, <4>4
    <3>5. s \in samples'
      BY <1>2, <1>3, <1>4, <2>3, <3>1 DEF Complete
    <3> QED BY <1>2, <2>3, <3>4, <3>5
  <2> QED BY <2>2, <2>3
<1>5. Readable'
  <2> SUFFICES ASSUME NEW h \in Ids, NEW m \in Minutes, <<M, h, m>> \in dirty',
                      NEW i \in Ids, NEW s \in History(i)', Bucket(s.at, M) = m
               PROVE  s \in samples' /\ \A p : IsBefore(p, History(i)', m) => p \in samples'
    BY <1>2 DEF Readable, Complete
  <2>1. <<M, h, m>> \in dirty \/ m = Bucket(now, M)
    BY <1>2 DEF MinuteOf
  <2>2. Complete(m)
    BY <2>1, CurrentIsComplete DEF KInv, Readable
  <2> QED BY <1>4, <2>1, <2>2
<1>6. Rolled'
  BY <1>2 DEF KInv, Rolled
<1> QED BY <1>5, <1>6 DEF KInv

\* A generation begins with a row that there is.
LEMMA BeginsReads ==
  ASSUME IInv, JInv, KInv, StoreSnapshot, \A g \in Ids : ~GoesOn(g, Head(queue))
  PROVE  KInv'
<1>1. Clocks /\ Tables /\ Rollups
  BY DEF IInv
<1>2. PICK n \in Nat, row \in Samples :
        /\ row.generation = n /\ row.at = now /\ Ids' = Ids \cup {n} /\ n \notin Ids
        /\ samples' = samples \cup {row} /\ stored' = stored \cup {row}
        /\ dirty' = dirty \cup {MinuteOf(h, now) : h \in OpenIds \cup {n}}
        /\ History(n)' = {row} /\ \A h \in Ids : History(h)' = History(h)
        /\ UNCHANGED <<now, minute, hour>>
  BY BeginsAdds
<1>3. now \in Nat /\ row.at = now /\ row \in samples'
  BY <1>1, <1>2, Sizes DEF Clocks
<1>4. Readable'
  <2> SUFFICES ASSUME NEW h \in Ids', NEW m \in Minutes, <<M, h, m>> \in dirty',
                      NEW i \in Ids', NEW s \in History(i)', Bucket(s.at, M) = m
               PROVE  s \in samples' /\ \A p : IsBefore(p, History(i)', m) => p \in samples'
    BY DEF Readable, Complete
  <2>1. <<M, h, m>> \in dirty \/ m = Bucket(now, M)
    BY <1>2 DEF MinuteOf
  <2>2. Complete(m)
    <3>1. CASE <<M, h, m>> \in dirty
      <4>1. H # M
        BY Sizes
      <4>2. h \in Ids
        BY <1>1, <3>1, <4>1 DEF Rollups
      <4> QED BY <3>1, <4>2 DEF KInv, Readable
    <3>2. CASE m = Bucket(now, M)
      BY <3>2, CurrentIsComplete
    <3> QED BY <2>1, <3>1, <3>2
  <2>3. CASE i \in Ids
    BY <1>2, <2>2, <2>3 DEF Complete
  <2>4. CASE i = n
    <3>1. s = row
      BY <1>2, <2>4
    <3>2. m <= row.at /\ m \in Nat
      <4>1. row.at \in Int /\ M \in Nat /\ M > 0
        BY <1>3, Sizes
      <4>2. m = Bucket(row.at, M)
        BY <3>1
      <4>3. Bucket(row.at, M) <= row.at
        BY <4>1, BucketStarts
      <4> QED BY <4>2, <4>3, MinuteIs
    <3>3. \A p : ~ IsBefore(p, History(n)', m)
      BY <1>2, <1>3, <3>2 DEF IsBefore
    <3> QED BY <1>3, <2>4, <3>1, <3>3
  <2> QED BY <1>2, <2>3, <2>4
<1>5. Rolled'
  BY <1>2 DEF KInv, Rolled
<1> QED BY <1>4, <1>5 DEF KInv

\* A minute is summed, and its hour marked.
LEMMA RecomputeMinuteReads ==
  ASSUME IInv, KInv, NEW g \in Ids, NEW m \in Minutes, RecomputeMinute(g, m)
  PROVE  KInv'
<1>1. PICK a : a = AggregateRows(LoadRows(g, m))
  OBVIOUS
<1>2. /\ minute' = With(minute, <<g, m>>, a)
      /\ dirty' = (dirty \ {<<M, g, m>>}) \cup {<<H, g, Bucket(m, H)>>}
      /\ UNCHANGED <<generations, samples, stored, hour>> /\ Ids' = Ids
  BY <1>1, OpenStays DEF RecomputeMinute
<1>3. H # M
  BY Sizes
<1>4. Readable'
  <2>1. \A m0 : Complete(m0)' <=> Complete(m0)
    BY <1>2, CompleteStays
  <2>2. \A h, b : <<M, h, b>> \in dirty' => <<M, h, b>> \in dirty
    BY <1>2, <1>3
  <2> QED BY <1>2, <2>1, <2>2 DEF KInv, Readable
<1>5. Rolled'
  <2>1. \A h, b : <<H, h, b>> \in dirty => <<H, h, b>> \in dirty'
    BY <1>2, <1>3
  <2>2. DOMAIN minute' = DOMAIN minute \cup {<<g, m>>} /\ <<H, g, Bucket(m, H)>> \in dirty'
    BY <1>2 DEF With
  <2> QED BY <1>2, <2>1, <2>2 DEF KInv, Rolled
<1> QED BY <1>4, <1>5 DEF KInv

\* An hour is summed.
LEMMA RecomputeHourReads ==
  ASSUME IInv, KInv, NEW g \in Ids, NEW h \in Hours, RecomputeHour(g, h)
  PROVE  KInv'
<1>1. PICK a : hour' = With(hour, <<g, h>>, a)
  BY DEF RecomputeHour
<1>2. /\ dirty' = dirty \ {<<H, g, h>>}
      /\ UNCHANGED <<generations, samples, stored, minute>> /\ Ids' = Ids
  BY OpenStays DEF RecomputeHour
<1>3. Readable'
  <2>1. \A m : Complete(m)' <=> Complete(m)
    BY <1>2, CompleteStays
  <2> QED BY <1>2, <2>1 DEF KInv, Readable
<1>4. Rolled'
  <2>1. DOMAIN hour' = DOMAIN hour \cup {<<g, h>>}
    BY <1>1 DEF With
  <2> QED BY <1>2, <2>1 DEF KInv, Rolled
<1> QED BY <1>3, <1>4 DEF KInv

LEMMA ReadsInductive == Spec => []KInv
<1>1. Init => KInv
  <2> SUFFICES ASSUME Init PROVE KInv
    OBVIOUS
  <2>1. dirty = {} /\ DOMAIN minute = {}
    BY DEF Init
  <2> QED BY <2>1 DEF KInv, Readable, Rolled
<1>2. IInv /\ JInv /\ KInv /\ [Next]_vars => KInv'
  <2> SUFFICES ASSUME IInv, JInv, KInv, [Next]_vars PROVE KInv'
    OBVIOUS
  <2>1. CASE Poll \/ Tick \/ SetBack \/ Crash \/ StartSweep \/ UNCHANGED vars
    <3>1. UNCHANGED tables
      BY <2>1 DEF Poll, PollPresent, PollAbsent, Tick, SetBack, Crash, StartSweep, vars
    <3>2. UNCHANGED <<samples, stored, minute, hour, dirty>> /\ Ids' = Ids
      BY <3>1, OpenStays DEF tables
    <3>3. \A m : Complete(m)' <=> Complete(m)
      BY <3>2, CompleteStays
    <3> QED BY <3>2, <3>3 DEF KInv, Readable, Rolled
  <2>2. CASE StoreReset
    BY <2>2, StoreResetReads
  <2>3. CASE StoreSnapshot
    BY <2>3, GoesOnReads, BeginsReads
  <2>4. CASE Prune
    BY <2>4, PruneReads
  <2>5. CASE \E g \in Ids, m \in Minutes : RecomputeMinute(g, m)
    BY <2>5, RecomputeMinuteReads
  <2>6. CASE \E g \in Ids, h \in Hours : RecomputeHour(g, h)
    BY <2>6, RecomputeHourReads
  <2> QED BY <2>1, <2>2, <2>3, <2>4, <2>5, <2>6 DEF Next, Store, Maintain
<1> QED BY <1>1, <1>2, Inductive, OwnsInductive, PTL DEF Spec

-----------------------------------------------------------------------------
(* What was counted up to a moment, in all generations.                    *)

\* The row at a moment is one of the rows, and later ones count no less.
LEMMA RowsGrow ==
  ASSUME IInv, NEW g \in Ids, NEW t \in Int, NEW u \in Int, t <= u
  PROVE  /\ RowOf(History(g), t) \in History(g)
         /\ RowOf(History(g), t).counter \in Nat /\ RowOf(History(g), u).counter \in Nat
         /\ RowOf(History(g), t).counter <= RowOf(History(g), u).counter
<1>1. PICK R : R = History(g)
  OBVIOUS
<1>2. /\ R \subseteq Samples /\ Distinct(R) /\ R # {} /\ R \subseteq stored
      /\ \A s \in R : s.generation = g /\ s.at \in Nat /\ s.counter \in Nat
  BY <1>1, Histories, RowsHaveTimes
<1>3. ASSUME NEW v PROVE RowOf(R, v) \in R
  <2>1. PICK B : B = {s \in R : s.at < v}
    OBVIOUS
  <2>2. B \subseteq Samples
    BY <1>2, <2>1
  <2> QED BY <1>2, <2>1, <2>2, LastRowIsLast, FirstRowIsFirst DEF RowOf
<1>4. PICK a \in R, b \in R : a = RowOf(R, t) /\ b = RowOf(R, u)
  BY <1>3
<1>5. a.at <= b.at
  <2>1. CASE \E s \in R : s.at < t
    <3>1. PICK p : IsBefore(p, R, t)
      BY <1>2, <2>1, OneIsBefore
    <3>2. p \in R /\ p.at < u
      BY <1>2, <3>1 DEF IsBefore
    <3>3. PICK q : IsBefore(q, R, u)
      BY <1>2, <3>2, OneIsBefore
    <3>4. a = p /\ b = q
      BY <1>2, <1>4, <3>1, <3>3, RowOfIs
    <3> QED BY <3>2, <3>3, <3>4 DEF IsBefore
  <2>2. CASE \A s \in R : ~ (s.at < t)
    <3>1. a = FirstRow(R)
      BY <1>2, <1>4, <2>2, RowOfIs
    <3> QED BY <1>2, <3>1, FirstRowIsFirst
  <2> QED BY <2>1, <2>2
<1>6. a.counter <= b.counter
  <2>1. CASE a.at < b.at
    BY <1>2, <2>1 DEF IInv, Ordered
  <2>2. CASE a.at = b.at
    <3>1. a = b
      BY <2>2, <1>2 DEF Distinct
    <3> QED BY <1>2, <3>1
  <2> QED BY <1>2, <1>5, <2>1, <2>2
<1> QED BY <1>1, <1>2, <1>4, <1>6

\* There are finitely many generations.
LEMMA IdsAreFinite == IInv => IsFiniteSet(Ids)
BY LenProperties, FS_Interval DEF IInv, Tables, Ids

\* The counters of all generations, each as of its last row before t.
CountAt(t) == SumFunction([g \in Ids |-> RowOf(History(g), t).counter])

\* The differences of all generations add up to what was counted in between.
LEMMA GenerationsAddUp ==
  ASSUME IInv, NEW t \in Int, NEW u \in Int, t <= u,
         NEW e, \A g \in Ids : e[g] = Diff(History(g), t, u).delta
  PROVE  /\ CountAt(t) \in Nat /\ CountAt(u) \in Nat /\ CountAt(t) <= CountAt(u)
         /\ SumFunctionOnSet(e, Ids) = CountAt(u) - CountAt(t)
<1>1. IsFiniteSet(Ids)
  BY IdsAreFinite
<1>2. PICK a : a = [g \in Ids |-> RowOf(History(g), t).counter]
  OBVIOUS
<1>3. PICK b : b = [g \in Ids |-> RowOf(History(g), u).counter]
  OBVIOUS
<1>4. PICK d : d = [g \in Ids |-> RowOf(History(g), u).counter - RowOf(History(g), t).counter]
  OBVIOUS
<1>5. a \in [Ids -> Nat] /\ b \in [Ids -> Nat] /\ d \in [Ids -> Nat]
      /\ DOMAIN a = Ids /\ DOMAIN b = Ids
      /\ \A g \in Ids : a[g] \in Nat /\ b[g] = a[g] + d[g] /\ e[g] = d[g]
  <2>1. ASSUME NEW g \in Ids
        PROVE  /\ RowOf(History(g), t).counter \in Nat /\ RowOf(History(g), u).counter \in Nat
               /\ RowOf(History(g), t).counter <= RowOf(History(g), u).counter
    BY RowsGrow
  <2> QED BY <1>2, <1>3, <1>4, <2>1 DEF Diff
<1>6. SumFunctionOnSet(b, Ids) = SumFunctionOnSet(a, Ids) + SumFunctionOnSet(d, Ids)
  BY <1>1, <1>5, SumsTogether
<1>7. SumFunctionOnSet(e, Ids) = SumFunctionOnSet(d, Ids)
  BY <1>1, <1>5, SumsAgree
<1>8. CountAt(t) = SumFunctionOnSet(a, Ids) /\ CountAt(u) = SumFunctionOnSet(b, Ids)
  BY <1>2, <1>3, <1>5 DEF CountAt, SumFunction
<1>9. /\ SumFunctionOnSet(a, Ids) \in Nat /\ SumFunctionOnSet(b, Ids) \in Nat
      /\ SumFunctionOnSet(d, Ids) \in Nat
  BY <1>1, <1>5, SumFunctionIsNat
<1> QED BY <1>6, <1>7, <1>8, <1>9

\* There are finitely many rows: one of a generation at a time.
LEMMA RowsAreFinite == IInv => IsFiniteSet(stored)
<1> SUFFICES ASSUME IInv PROVE IsFiniteSet(stored)
  OBVIOUS
<1>1. Tables /\ Ordered
  BY DEF IInv
<1>2. PICK T : T = Ids \X (0 .. MaxTime)
  OBVIOUS
<1>3. IsFiniteSet(T)
  <2>1. IsFiniteSet(Ids) /\ IsFiniteSet(0 .. MaxTime)
    BY <1>1, LenProperties, FS_Interval, Sizes DEF Tables, Ids
  <2> QED BY <1>2, <2>1, FS_Product
<1>4. PICK f : f = [s \in stored |-> <<s.generation, s.at>>]
  OBVIOUS
<1>5. f \in [stored -> T]
  BY <1>1, <1>2, <1>4 DEF Tables, Samples
<1>6. \A s, t \in stored : f[s] = f[t] => s = t
  BY <1>1, <1>4 DEF Ordered
<1>7. f \in Injection(stored, T)
  BY <1>5, <1>6 DEF Injection, IsInjective
<1> QED BY <1>3, <1>7, FS_Injection
-----------------------------------------------------------------------------
(* Raw rows, from one moment to another.                                   *)

\* What a reader needs is there: the rows in between, and the one before them.
Kept(g, from, to) ==
  \A s \in History(g) : from <= s.at /\ s.at < to =>
    s \in samples /\ \A p : IsBefore(p, History(g), from) => p \in samples

\* A row grew by what lies between it and the row before it.
LEMMA GrownIs ==
  ASSUME IInv, NEW g \in Ids, NEW from \in Nat, NEW to \in Nat, Kept(g, from, to),
         NEW s \in History(g), from <= s.at, s.at < to
  PROVE  Grown(s, from, to) = RowOf(History(g), s.at + 1).counter - RowOf(History(g), s.at).counter
<1>1. PICK R : R = History(g)
  OBVIOUS
<1>2. /\ R \subseteq Samples /\ Distinct(R) /\ R # {} /\ Rows(g) \subseteq R /\ s \in R
      /\ \A r \in R : /\ r.generation = g /\ r.at \in Nat /\ r.counter \in Nat
                      /\ r \in samples => r \in Rows(g)
  BY <1>1, Histories, RowsHaveTimes
<1>3. RowOf(R, s.at + 1) = s
  <2>1. IsBefore(s, R, s.at + 1)
    BY <1>2 DEF IsBefore
  <2> QED BY <1>2, <2>1, RowOfIs
<1>4. PICK E : E = {r \in Rows(g) : r.at < from}
  OBVIOUS
<1>5. PICK N : N = {r \in Rows(g) : from <= r.at /\ r.at < to} \cup (IF E = {} THEN {} ELSE {LastRow(E)})
  OBVIOUS
<1>6. RawRows(g, from, to) = N
  BY <1>4, <1>5 DEF RawRows, LastBefore
<1>7. E \subseteq R /\ E \subseteq Samples /\ (E # {} => LastRow(E) \in E)
  BY <1>2, <1>4, LastRowIsLast
<1>8. N \subseteq R
  BY <1>2, <1>5, <1>7
<1>9. PICK B : B = {r \in N : r.at < s.at}
  OBVIOUS
<1>10. Grown(s, from, to) = IF B = {} THEN 0 ELSE s.counter - LastRow(B).counter
  BY <1>2, <1>6, <1>9 DEF Grown
<1>11. CASE \E r \in R : r.at < s.at
  <2>1. PICK q : IsBefore(q, R, s.at)
    BY <1>2, <1>11, OneIsBefore
  <2>2. q \in R /\ q.at < s.at /\ \A r \in R : r.at < s.at => r.at <= q.at
    BY <2>1 DEF IsBefore
  <2>3. q \in N
    <3>1. CASE from <= q.at
      <4>1. q.at < to
        BY <1>2, <2>2
      <4>2. q \in Rows(g)
        BY <1>1, <1>2, <2>2, <3>1, <4>1 DEF Kept
      <4> QED BY <1>5, <3>1, <4>1, <4>2
    <3>2. CASE q.at < from
      <4>1. \A r \in R : r.at < from => r.at < s.at
        BY <1>2
      <4>2. IsBefore(q, R, from)
        BY <2>2, <3>2, <4>1 DEF IsBefore
      <4>3. q \in Rows(g)
        BY <1>1, <1>2, <2>2, <4>2 DEF Kept
      <4>4. q \in E /\ \A r \in E : r.at <= q.at
        BY <1>4, <1>7, <3>2, <4>2, <4>3 DEF IsBefore
      <4>5. LastRow(E) = q
        BY <1>2, <1>7, <4>4, LastRowIs
      <4> QED BY <1>5, <4>4, <4>5
    <3> QED BY <1>2, <2>2, <3>1, <3>2
  <2>4. q \in B /\ B \subseteq R /\ \A r \in B : r.at <= q.at
    BY <1>8, <1>9, <2>2, <2>3
  <2>5. LastRow(B) = q
    BY <1>2, <2>4, LastRowIs
  <2>6. RowOf(R, s.at) = q
    BY <1>2, <2>1, RowOfIs
  <2> QED BY <1>1, <1>3, <1>10, <2>4, <2>5, <2>6
<1>12. CASE \A r \in R : ~ (r.at < s.at)
  <2>1. B = {}
    BY <1>8, <1>9, <1>12
  <2>2. RowOf(R, s.at) = FirstRow(R)
    BY <1>2, <1>12, RowOfIs
  <2>3. FirstRow(R) = s
    <3>1. \A r \in R : s.at <= r.at
      BY <1>2, <1>12
    <3> QED BY <1>2, <3>1, FirstRowIs
  <2>4. s.counter - s.counter = 0
    BY <1>2
  <2> QED BY <1>1, <1>3, <1>10, <2>1, <2>2, <2>3, <2>4
<1> QED BY <1>11, <1>12

\* The row before them is what they grow from, and grew by nothing itself.
LEMMA FirstGrewNothing ==
  ASSUME IInv, NEW g \in Ids, NEW from \in Nat, NEW to \in Nat,
         NEW s \in RawRows(g, from, to), ~ (from <= s.at)
  PROVE  Grown(s, from, to) = 0
<1>1. Rows(g) \subseteq Samples /\ \A r \in Rows(g) : r.generation = g /\ r.at \in Nat
  BY Histories
<1>2. PICK E : E = {r \in Rows(g) : r.at < from}
  OBVIOUS
<1>3. PICK N : N = {r \in Rows(g) : from <= r.at /\ r.at < to} \cup (IF E = {} THEN {} ELSE {LastRow(E)})
  OBVIOUS
<1>4. RawRows(g, from, to) = N
  BY <1>2, <1>3 DEF RawRows, LastBefore
<1>5. E # {} /\ s = LastRow(E)
  BY <1>3, <1>4
<1>6. s \in E
  <2>1. E \subseteq Samples
    BY <1>1, <1>2
  <2> QED BY <1>5, <2>1, LastRowIsLast
<1>7. s.at < from /\ s.at \in Nat /\ s.generation = g
  BY <1>1, <1>2, <1>6
<1>8. {r \in N : r.at < s.at} = {}
  BY <1>1, <1>3, <1>5, <1>7
<1> QED BY <1>4, <1>7, <1>8 DEF Grown

\* The rows in between grew by the difference over them.
LEMMA RowsAddUp ==
  ASSUME IInv, NEW g \in Ids, NEW from \in Nat, NEW to \in Nat, from <= to, Kept(g, from, to),
         NEW D, D = {s \in History(g) : from <= s.at /\ s.at < to},
         NEW e, e = [s \in D |-> Grown(s, from, to)]
  PROVE  e \in [D -> Nat] /\ SumFunctionOnSet(e, D) = Diff(History(g), from, to).delta
<1>1. PICK R : R = History(g)
  OBVIOUS
<1>2. /\ R \subseteq Samples /\ Distinct(R) /\ R # {} /\ R \subseteq stored
      /\ \A r \in R : r.at \in Nat
  BY <1>1, Histories
<1>3. IsFiniteSet(D)
  <2>1. D \subseteq stored
    BY <1>1, <1>2
  <2> QED BY <2>1, RowsAreFinite, FS_Subset
<1>4. PICK n \in Nat : n = to - from
  OBVIOUS
<1>5. PICK r : r = [i \in 0 .. n |-> RowOf(R, from + i).counter]
  OBVIOUS
<1>6. PICK f : f = [s \in D |-> s.at - from]
  OBVIOUS
<1>7. \A t \in Int, u \in Int : t <= u =>
        /\ RowOf(R, t).counter \in Nat /\ RowOf(R, u).counter \in Nat
        /\ RowOf(R, t).counter <= RowOf(R, u).counter
  BY <1>1, RowsGrow
<1>8. \A i \in 0 .. n : r[i] \in Nat
  <2>1. \A i \in 0 .. n : from + i \in Int /\ from + i <= from + i
    OBVIOUS
  <2> QED BY <1>5, <1>7, <2>1
<1>9. ASSUME NEW s \in D
      PROVE  f[s] \in 0 .. n - 1 /\ e[s] = r[f[s] + 1] - r[f[s]] /\ e[s] \in Nat
  <2>1. s \in R /\ s.at \in Nat /\ from <= s.at /\ s.at < to
    BY <1>1, <1>2
  <2>2. f[s] = s.at - from /\ f[s] \in 0 .. n - 1 /\ f[s] \in 0 .. n /\ f[s] + 1 \in 0 .. n
        /\ from + f[s] = s.at /\ from + (f[s] + 1) = s.at + 1
    BY <1>4, <1>6, <2>1
  <2>3. e[s] = RowOf(R, s.at + 1).counter - RowOf(R, s.at).counter
    BY <1>1, <2>1, GrownIs
  <2>4. r[f[s]] = RowOf(R, s.at).counter /\ r[f[s] + 1] = RowOf(R, s.at + 1).counter
    BY <1>5, <2>2
  <2>5. s.at \in Int /\ s.at + 1 \in Int /\ s.at <= s.at + 1
    BY <2>1
  <2>6. RowOf(R, s.at).counter \in Nat /\ RowOf(R, s.at + 1).counter \in Nat
        /\ RowOf(R, s.at).counter <= RowOf(R, s.at + 1).counter
    BY <1>7, <2>5
  <2> QED BY <2>2, <2>3, <2>4, <2>6
<1>10. \A s, t \in D : f[s] = f[t] => s = t
  <2> SUFFICES ASSUME NEW s \in D, NEW t \in D, f[s] = f[t] PROVE s = t
    OBVIOUS
  <2>1. s \in R /\ t \in R /\ s.at \in Nat /\ t.at \in Nat
    BY <1>1, <1>2
  <2>2. s.at = t.at
    BY <1>6, <2>1
  <2> QED BY <1>2, <2>1, <2>2 DEF Distinct
<1>11. ASSUME NEW i \in 0 .. n - 1, \A s \in D : f[s] # i PROVE r[i + 1] = r[i]
  <2>1. PICK t \in Nat : t = from + i
    OBVIOUS
  <2>2. from <= t /\ t < to /\ t + 1 = from + (i + 1) /\ i \in 0 .. n /\ i + 1 \in 0 .. n
    BY <1>4, <2>1
  <2>3. ASSUME NEW s \in R, s.at < t + 1, ~ (s.at < t) PROVE FALSE
    <3>1. s.at = t
      BY <1>2, <2>3
    <3>2. s \in D
      BY <1>1, <2>2, <3>1
    <3>3. f[s] = i
      BY <1>6, <2>1, <3>1, <3>2
    <3> QED BY <1>11, <3>2, <3>3
  <2>4. RowOf(R, t + 1) = RowOf(R, t)
    <3>1. t \in Int /\ t + 1 \in Int /\ t <= t + 1
      OBVIOUS
    <3> QED BY <1>2, <2>3, <3>1, RowOfRests
  <2> QED BY <1>5, <2>1, <2>2, <2>4
<1>12. e \in [D -> Nat]
  BY <1>9
<1>13. Telescopes(n, r, D, f, e)
  BY <1>8, <1>9, <1>10, <1>11, <1>12 DEF Telescopes
<1>14. SumFunctionOnSet(e, D) = r[n] - r[0]
  BY <1>3, <1>13, SumTelescopes
<1>15. r[n] = RowOf(R, to).counter /\ r[0] = RowOf(R, from).counter
  <2>1. n \in 0 .. n /\ 0 \in 0 .. n /\ from + n = to /\ from + 0 = from
    BY <1>4
  <2> QED BY <1>5, <2>1
<1> QED BY <1>1, <1>12, <1>14, <1>15 DEF Diff

-----------------------------------------------------------------------------
(* What a point is made of: raw minutes, and columns of a table.           *)

\* Raw rows are of their generation, and in the range but for one.
LEMMA RawRowsAre ==
  ASSUME IInv, NEW g \in Ids, NEW from \in Nat, NEW to \in Nat
  PROVE  /\ RawRows(g, from, to) \subseteq Rows(g)
         /\ \A s \in RawRows(g, from, to) : from <= s.at => s.at < to
         /\ \A s \in Rows(g) : from <= s.at /\ s.at < to => s \in RawRows(g, from, to)
<1>1. Rows(g) \subseteq Samples /\ \A r \in Rows(g) : r.at \in Nat
  BY Histories
<1>2. PICK E : E = {r \in Rows(g) : r.at < from}
  OBVIOUS
<1>3. RawRows(g, from, to) = {r \in Rows(g) : from <= r.at /\ r.at < to}
                               \cup (IF E = {} THEN {} ELSE {LastRow(E)})
  BY <1>2 DEF RawRows, LastBefore
<1>4. E # {} => LastRow(E) \in E
  <2>1. E \subseteq Samples
    BY <1>1, <1>2
  <2> QED BY <2>1, LastRowIsLast
<1>5. \A r \in E : r \in Rows(g) /\ ~ (from <= r.at)
  BY <1>1, <1>2
<1> QED BY <1>3, <1>4, <1>5

\* A complete minute read from its rows, or a part of it up to a moment.
LEMMA MinuteIsRead ==
  ASSUME IInv, NEW m \in Minutes, Complete(m), NEW c \in Nat, m <= c, c <= m + M,
         NEW width, NEW p, \A t \in Int : m <= t /\ t < m + M => Bucket(t, width) = p
  PROVE  RawDelta(p, width, m, c) = CountAt(c) - CountAt(m)
<1>1. m \in Nat /\ \A t \in Int : m <= t /\ t < m + M => Bucket(t, M) = m
  BY MinuteIs
<1>2. PICK A : A = {s \in UNION {RawRows(g, m, c) : g \in Ids} : Bucket(s.at, width) = p}
  OBVIOUS
<1>3. PICK e : e = [s \in A |-> Grown(s, m, c)]
  OBVIOUS
<1>4. RawDelta(p, width, m, c) = SumFunctionOnSet(e, A)
  BY <1>2, <1>3 DEF RawDelta, SumFunction
<1>5. PICK P : P = [g \in Ids |-> {s \in A : s.generation = g}]
  OBVIOUS
<1>6. PICK Q : Q = [g \in Ids |-> {s \in History(g) : m <= s.at /\ s.at < c}]
  OBVIOUS
<1>7. ASSUME NEW g \in Ids
      PROVE  /\ Q[g] \subseteq P[g] /\ P[g] \subseteq RawRows(g, m, c) /\ P[g] \subseteq stored
             /\ \A s \in P[g] : s \notin Q[g] => ~ (m <= s.at)
             /\ Kept(g, m, c)
  <2>1. /\ Rows(g) \subseteq History(g) /\ History(g) \subseteq stored
        /\ \A s \in History(g) : s.generation = g /\ s.at \in Nat /\ (s \in samples => s \in Rows(g))
    BY Histories
  <2>2. \A s \in History(g) : m <= s.at /\ s.at < c => Bucket(s.at, M) = m /\ Bucket(s.at, width) = p
    <3> SUFFICES ASSUME NEW s \in History(g), m <= s.at, s.at < c
                 PROVE  Bucket(s.at, M) = m /\ Bucket(s.at, width) = p
      OBVIOUS
    <3>1. s.at \in Int /\ s.at < m + M
      BY <1>1, <2>1, Sizes
    <3> QED BY <1>1, <3>1
  <2>3. Kept(g, m, c)
    BY <2>2 DEF Complete, Kept
  <2>4. \A h \in Ids : RawRows(h, m, c) \subseteq Rows(h)
    BY <1>1, RawRowsAre
  <2>5. P[g] \subseteq RawRows(g, m, c)
    BY <1>2, <1>5, <2>4 DEF Rows
  <2>6. \A s \in RawRows(g, m, c) : m <= s.at => s.at < c
    BY <1>1, RawRowsAre
  <2>7. \A s \in Rows(g) : m <= s.at /\ s.at < c => s \in RawRows(g, m, c)
    BY <1>1, RawRowsAre
  <2>8. Q[g] \subseteq P[g]
    <3> SUFFICES ASSUME NEW s \in Q[g] PROVE s \in P[g]
      OBVIOUS
    <3>1. s \in History(g) /\ m <= s.at /\ s.at < c
      BY <1>6
    <3>2. s \in Rows(g)
      BY <2>1, <2>3, <3>1 DEF Kept
    <3> QED BY <1>2, <1>5, <2>1, <2>2, <2>7, <3>1, <3>2
  <2>9. \A s \in P[g] : s \notin Q[g] => ~ (m <= s.at)
    <3> SUFFICES ASSUME NEW s \in P[g], m <= s.at PROVE s \in Q[g]
      OBVIOUS
    <3>1. s \in Rows(g) /\ s.at < c
      BY <2>4, <2>5, <2>6
    <3> QED BY <1>6, <2>1, <3>1
  <2> QED BY <2>1, <2>3, <2>4, <2>5, <2>8, <2>9
<1>8. A = Whole(P, Ids) /\ ArePartsOf(P, Ids) /\ IsFiniteSet(A) /\ IsFiniteSet(Ids)
  <2>1. \A s \in A : s.generation \in Ids
    <3>1. \A g \in Ids : RawRows(g, m, c) \subseteq Rows(g)
      BY <1>1, RawRowsAre
    <3> QED BY <1>2, <3>1 DEF Rows
  <2>2. A = Whole(P, Ids)
    BY <1>5, <2>1 DEF Whole
  <2>3. A \subseteq stored
    BY <1>7, <2>2 DEF Whole
  <2>4. IsFiniteSet(A) /\ \A g \in Ids : IsFiniteSet(P[g])
    BY <1>7, <2>3, RowsAreFinite, FS_Subset
  <2>5. \A g, h \in Ids : g # h => P[g] \cap P[h] = {}
    BY <1>5
  <2>6. IsFiniteSet(Ids)
    BY IdsAreFinite
  <2> QED BY <2>2, <2>4, <2>5, <2>6 DEF ArePartsOf
<1>9. ASSUME NEW g \in Ids
      PROVE  /\ \A s \in P[g] : s \notin Q[g] => e[s] = 0
             /\ \A s \in Q[g] : e[s] \in Nat
             /\ SumFunctionOnSet(e, Q[g]) = Diff(History(g), m, c).delta
             /\ P[g] \subseteq A
  <2>1. P[g] \subseteq A /\ Q[g] \subseteq A
    BY <1>5, <1>7
  <2>2. ASSUME NEW s \in P[g], s \notin Q[g] PROVE e[s] = 0
    <3>1. s \in RawRows(g, m, c) /\ ~ (m <= s.at)
      BY <1>7, <2>2
    <3>2. Grown(s, m, c) = 0
      BY <1>1, <3>1, FirstGrewNothing
    <3> QED BY <1>3, <2>1, <3>2
  <2>3. PICK D : D = {s \in History(g) : m <= s.at /\ s.at < c}
    OBVIOUS
  <2>4. PICK d : d = [s \in D |-> Grown(s, m, c)]
    OBVIOUS
  <2>5. Kept(g, m, c) /\ Q[g] = D
    BY <1>6, <1>7, <2>3
  <2>6. d \in [D -> Nat] /\ SumFunctionOnSet(d, D) = Diff(History(g), m, c).delta
    BY <1>1, <2>3, <2>4, <2>5, RowsAddUp
  <2>7. \A s \in D : e[s] = d[s] /\ e[s] \in Nat
    BY <1>3, <2>1, <2>4, <2>5, <2>6
  <2>8. IsFiniteSet(D)
    BY <1>8, <2>1, <2>5, FS_Subset
  <2>9. SumFunctionOnSet(e, D) = SumFunctionOnSet(d, D)
    BY <2>7, <2>8, SumsAgree
  <2> QED BY <2>1, <2>2, <2>5, <2>6, <2>7, <2>9
<1>10. e \in [A -> Nat]
  <2>1. \A s \in A : e[s] \in Nat
    <3> SUFFICES ASSUME NEW s \in A PROVE e[s] \in Nat
      OBVIOUS
    <3>1. PICK g \in Ids : s \in P[g]
      BY <1>8 DEF Whole
    <3> QED BY <1>9, <3>1
  <2> QED BY <1>3, <2>1
<1>11. ASSUME NEW g \in Ids PROVE SumFunctionOnSet(e, P[g]) = Diff(History(g), m, c).delta
  <2>1. PICK B : B = P[g] \ Q[g]
    OBVIOUS
  <2>2. P[g] = Q[g] \cup B /\ Q[g] \cap B = {} /\ B \in SUBSET A /\ Q[g] \in SUBSET A
    BY <1>7, <1>9, <2>1
  <2>3. PICK T \in SUBSET A : T = Q[g]
    BY <2>2
  <2>5. IsFiniteSet(A) /\ e \in [A -> Nat] /\ B \in SUBSET A /\ T \cap B = {}
    BY <1>8, <1>10, <2>2, <2>3
  <2>6. /\ SumFunctionOnSet(e, T \cup B) = SumFunctionOnSet(e, T) + SumFunctionOnSet(e, B)
        /\ SumFunctionOnSet(e, T) \in Nat
    BY <2>5, SumSplits
  <2>4. SumFunctionOnSet(e, B) = 0
    <3>1. IsFiniteSet(B) /\ \A s \in B : e[s] = 0
      BY <1>8, <1>9, <2>1, <2>2, FS_Subset
    <3> QED BY <3>1, SumFunctionZero
  <2> QED BY <1>9, <2>2, <2>3, <2>4, <2>6
<1>12. PICK f : f = [g \in Ids |-> Diff(History(g), m, c).delta]
  OBVIOUS
<1>13. SumFunctionOnSet(f, Ids) = SumFunctionOnSet(e, A)
  <2>1. \A g \in Ids : f[g] = SumFunctionOnSet(e, P[g])
    BY <1>11, <1>12
  <2> QED BY <1>8, <1>10, <2>1, SumOfParts
<1>14. SumFunctionOnSet(f, Ids) = CountAt(c) - CountAt(m)
  <2>1. m \in Int /\ c \in Int /\ \A g \in Ids : f[g] = Diff(History(g), m, c).delta
    BY <1>1, <1>12
  <2> QED BY <2>1, GenerationsAddUp
<1> QED BY <1>4, <1>13, <1>14

\* The keys of a bucket in a table.
ColumnOf(table, b) == {k \in DOMAIN table : k[2] = b}
\* The column of a bucket is what was counted in it: a generation without a
\* rollup of it saw nothing.
ColumnHolds(table, b, c) ==
  \A g \in Ids : IF <<g, b>> \in DOMAIN table
                   THEN table[<<g, b>>].delta = Diff(History(g), b, c).delta
                   ELSE Diff(History(g), b, c).delta = 0

\* It adds up to what was counted in all generations.
LEMMA ColumnIsRead ==
  ASSUME IInv, NEW table, \A k \in DOMAIN table : k[1] \in Ids /\ k = <<k[1], k[2]>>,
         NEW b \in Int, NEW c \in Int, b <= c,
         ColumnHolds(table, b, c),
         NEW K, K = ColumnOf(table, b),
         NEW e, \A k \in K : e[k] = table[k].delta
  PROVE  /\ IsFiniteSet(K) /\ \A k \in K : e[k] \in Nat
         /\ SumFunctionOnSet(e, K) = CountAt(c) - CountAt(b)
<1>0. \A g \in Ids : IF <<g, b>> \in DOMAIN table
                       THEN table[<<g, b>>].delta = Diff(History(g), b, c).delta
                       ELSE Diff(History(g), b, c).delta = 0
  BY DEF ColumnHolds
<1>1. IsFiniteSet(Ids)
  BY IdsAreFinite
<1>2. \A k \in K : k[1] \in Ids /\ k = <<k[1], b>> /\ k \in DOMAIN table
  <2> SUFFICES ASSUME NEW k \in K PROVE k[1] \in Ids /\ k = <<k[1], b>> /\ k \in DOMAIN table
    OBVIOUS
  <2>1. k \in DOMAIN table /\ k[2] = b
    BY DEF ColumnOf
  <2>2. k[1] \in Ids /\ k = <<k[1], k[2]>>
    BY <2>1
  <2> QED BY <2>1, <2>2
<1>3. IsFiniteSet(K)
  <2>1. K \subseteq Ids \X {b}
    BY <1>2
  <2>2. IsFiniteSet({b})
    BY FS_Singleton
  <2>3. IsFiniteSet(Ids \X {b})
    BY <1>1, <2>2, FS_Product
  <2> QED BY <2>1, <2>3, FS_Subset
<1>4. PICK f : f = [g \in Ids |-> Diff(History(g), b, c).delta]
  OBVIOUS
<1>5. \A g \in Ids : f[g] \in Nat
  <2> SUFFICES ASSUME NEW g \in Ids PROVE f[g] \in Nat
    OBVIOUS
  <2>1. /\ RowOf(History(g), b).counter \in Nat /\ RowOf(History(g), c).counter \in Nat
        /\ RowOf(History(g), b).counter <= RowOf(History(g), c).counter
    BY RowsGrow
  <2> QED BY <1>4, <2>1 DEF Diff
<1>6. PICK d : d = [k \in K |-> table[k].delta]
  OBVIOUS
<1>7. \A k \in K : d[k] = f[k[1]] /\ d[k] = e[k]
  BY <1>0, <1>2, <1>4, <1>6
<1>8. d \in [K -> Nat]
  BY <1>2, <1>5, <1>6, <1>7
<1>9. PICK P : P = [g \in Ids |-> {k \in K : k[1] = g}]
  OBVIOUS
<1>10. ArePartsOf(P, Ids) /\ Whole(P, Ids) = K
  <2>1. Whole(P, Ids) = K
    BY <1>2, <1>9 DEF Whole
  <2>2. \A g \in Ids : P[g] \subseteq K
    BY <1>9
  <2>3. \A g \in Ids : IsFiniteSet(P[g])
    BY <1>3, <2>2, FS_Subset
  <2>4. \A g, h \in Ids : g # h => P[g] \cap P[h] = {}
    BY <1>9
  <2> QED BY <2>1, <2>3, <2>4 DEF ArePartsOf
<1>11. ASSUME NEW g \in Ids PROVE f[g] = SumFunctionOnSet(d, P[g])
  <2>1. CASE <<g, b>> \in DOMAIN table
    <3>1. PICK k : k = <<g, b>>
      OBVIOUS
    <3>2. k \in K /\ k[1] = g
      BY <2>1, <3>1 DEF ColumnOf
    <3>3. P[g] = {k}
      BY <1>2, <1>9, <3>1, <3>2
    <3>4. d[k] \in Nat /\ d[k] = f[g]
      BY <1>7, <1>8, <3>2
    <3> QED BY <3>3, <3>4, SumOfOne
  <2>2. CASE <<g, b>> \notin DOMAIN table
    <3>1. P[g] = {}
      BY <1>2, <1>9, <2>2
    <3>2. SumFunctionOnSet(d, {}) = 0
      BY FS_EmptySet, SumFunctionZero
    <3> QED BY <1>0, <1>4, <2>2, <3>1, <3>2
  <2> QED BY <2>1, <2>2
<1>12. SumFunctionOnSet(f, Ids) = SumFunctionOnSet(d, K)
  <2>1. \A g \in Ids : f[g] = SumFunctionOnSet(d, P[g])
    BY <1>11
  <2>2. IsFiniteSet(K) /\ IsFiniteSet(Ids) /\ ArePartsOf(P, Ids) /\ K = Whole(P, Ids)
    BY <1>1, <1>3, <1>10
  <2> QED BY <1>8, <2>1, <2>2, SumOfParts
<1>13. SumFunctionOnSet(f, Ids) = CountAt(c) - CountAt(b)
  <2>1. \A g \in Ids : f[g] = Diff(History(g), b, c).delta
    BY <1>4
  <2> QED BY <2>1, GenerationsAddUp
<1>14. SumFunctionOnSet(e, K) = SumFunctionOnSet(d, K)
  BY <1>3, <1>7, SumsAgree
<1>15. \A k \in K : e[k] \in Nat
  BY <1>7, <1>8
<1> QED BY <1>3, <1>12, <1>13, <1>14, <1>15

\* Without a row in a bucket nothing was counted in it.
LEMMA QuietCountsNothing ==
  ASSUME IInv, NEW g \in Ids, NEW b \in Int, NEW c \in Int, b <= c,
         \A s \in History(g) : ~ (b <= s.at /\ s.at < c)
  PROVE  Diff(History(g), b, c).delta = 0
<1>1. PICK R : R = History(g)
  OBVIOUS
<1>2. R \subseteq Samples /\ Distinct(R) /\ R # {} /\ \A s \in R : s.at \in Nat
  BY <1>1, Histories
<1>3. \A s \in R : s.at < c => s.at < b
  BY <1>1, <1>2
<1>4. RowOf(R, c) = RowOf(R, b)
  BY <1>2, <1>3, RowOfRests
<1>5. RowOf(R, b).counter \in Nat
  BY <1>1, RowsGrow
<1> QED BY <1>1, <1>4, <1>5 DEF Diff

\* A minute that is clean in every generation.
LEMMA CleanMinuteIsRead ==
  ASSUME IInv, JInv, NEW m \in Minutes, \A g \in Ids : <<M, g, m>> \notin dirty,
         NEW K, K = ColumnOf(minute, m),
         NEW e, \A k \in K : e[k] = minute[k].delta
  PROVE  /\ IsFiniteSet(K) /\ \A k \in K : e[k] \in Nat
         /\ SumFunctionOnSet(e, K) = CountAt(m + M) - CountAt(m)
<1>1. /\ m \in Int /\ M \in Int /\ M > 0
      /\ \A t \in Int : m <= t /\ t < m + M => Bucket(t, M) = m
  BY MinuteIs, Sizes
<1>2. PICK c \in Int : c = m + M /\ m <= c
  BY <1>1
<1>3. \A k \in DOMAIN minute : k[1] \in Ids /\ k = <<k[1], k[2]>>
  BY DEF IInv, Rollups
<1>4. ASSUME NEW g \in Ids
      PROVE  IF <<g, m>> \in DOMAIN minute
               THEN minute[<<g, m>>].delta = Diff(History(g), m, c).delta
               ELSE Diff(History(g), m, c).delta = 0
  <2>1. CASE <<g, m>> \in DOMAIN minute
    <3>1. minute[<<g, m>>] = Diff(History(g), m, c)
      BY <1>2, <2>1 DEF JInv, MinutesTrue
    <3> QED BY <2>1, <3>1
  <2>2. CASE <<g, m>> \notin DOMAIN minute
    <3>1. ASSUME NEW s \in History(g), m <= s.at, s.at < c PROVE FALSE
      <4>1. s.at \in Int /\ s \in stored /\ s.generation = g
        BY Histories
      <4>2. Bucket(s.at, M) = m
        BY <1>1, <1>2, <3>1, <4>1
      <4> QED BY <2>2, <4>1, <4>2 DEF JInv, Summed, MinuteOf
    <3> QED BY <1>1, <1>2, <2>2, <3>1, QuietCountsNothing
  <2> QED BY <2>1, <2>2
<1>5. /\ IsFiniteSet(K) /\ \A k \in K : e[k] \in Nat
      /\ SumFunctionOnSet(e, K) = CountAt(c) - CountAt(m)
  <2>1. PICK table : table = minute
    OBVIOUS
  <2>2. ColumnHolds(table, m, c) /\ K = ColumnOf(table, m)
    BY <1>4, <2>1 DEF ColumnHolds
  <2>3. /\ \A k \in DOMAIN table : k[1] \in Ids /\ k = <<k[1], k[2]>>
        /\ \A k \in K : e[k] = table[k].delta
    BY <1>3, <2>1
  <2> QED BY <1>1, <1>2, <2>2, <2>3, ColumnIsRead
<1> QED BY <1>2, <1>5

\* An hour that is.
LEMMA CleanHourIsRead ==
  ASSUME IInv, JInv, KInv, NEW h \in Hours, \A g \in Ids : CleanHour(g, h),
         NEW K, K = ColumnOf(hour, h),
         NEW e, \A k \in K : e[k] = hour[k].delta
  PROVE  /\ IsFiniteSet(K) /\ \A k \in K : e[k] \in Nat
         /\ SumFunctionOnSet(e, K) = CountAt(h + H) - CountAt(h)
<1>1. /\ h \in Int /\ H \in Int /\ H > 0
      /\ \A t \in Int : h <= t /\ t < h + H => Bucket(t, H) = h
  BY HourIs, Sizes
<1>2. PICK c \in Int : c = h + H /\ h <= c
  BY <1>1
<1>3. \A k \in DOMAIN hour : k[1] \in Ids /\ k = <<k[1], k[2]>>
  BY DEF IInv, Rollups
<1>4. ASSUME NEW g \in Ids
      PROVE  IF <<g, h>> \in DOMAIN hour
               THEN hour[<<g, h>>].delta = Diff(History(g), h, c).delta
               ELSE Diff(History(g), h, c).delta = 0
  <2>1. CASE <<g, h>> \in DOMAIN hour
    <3>1. hour[<<g, h>>] = Diff(History(g), h, c)
      BY <1>2, <2>1 DEF JInv, HoursTrue
    <3> QED BY <2>1, <3>1
  <2>2. CASE <<g, h>> \notin DOMAIN hour
    <3>1. ASSUME NEW s \in History(g), h <= s.at, s.at < c PROVE FALSE
      <4>1. s.at \in Int /\ s.at \in 0 .. MaxTime /\ s \in stored /\ s.generation = g
        BY Histories DEF Samples
      <4>2. PICK m \in Minutes : m = Bucket(s.at, M)
        BY <4>1, MinutesAndHours
      <4>3. Bucket(m, H) = h
        BY <1>1, <1>2, <3>1, <4>1, <4>2, MinutesNest
      <4>4. <<M, g, m>> \notin dirty /\ <<H, g, h>> \notin dirty
        BY <4>3 DEF CleanHour
      <4>5. PICK k : k = <<g, m>>
        OBVIOUS
      <4>6. k \in DOMAIN minute /\ k[1] = g /\ k[2] = m
        BY <4>1, <4>2, <4>4, <4>5 DEF JInv, Summed, MinuteOf
      <4> QED BY <2>2, <4>3, <4>4, <4>6 DEF KInv, Rolled
    <3> QED BY <1>1, <1>2, <2>2, <3>1, QuietCountsNothing
  <2> QED BY <2>1, <2>2
<1>5. /\ IsFiniteSet(K) /\ \A k \in K : e[k] \in Nat
      /\ SumFunctionOnSet(e, K) = CountAt(c) - CountAt(h)
  <2>1. PICK table : table = hour
    OBVIOUS
  <2>2. ColumnHolds(table, h, c) /\ K = ColumnOf(table, h)
    BY <1>4, <2>1 DEF ColumnHolds
  <2>3. /\ \A k \in DOMAIN table : k[1] \in Ids /\ k = <<k[1], k[2]>>
        /\ \A k \in K : e[k] = table[k].delta
    BY <1>3, <2>1
  <2> QED BY <1>1, <1>2, <2>2, <2>3, ColumnIsRead
<1> QED BY <1>2, <1>5

-----------------------------------------------------------------------------
(* The points of a series.                                                 *)

\* The least of some numbers.
LEMMA MinIsLeast ==
  ASSUME NEW S, S \subseteq Nat, S # {}
  PROVE  Min(S) \in S /\ \A y \in S : Min(S) <= y
<1>1. PICK n \in S : \A m \in S : ~ (<<m, n>> \in OpToRel(<, Nat))
  BY NatLessThanWellFounded, WFMin
<1>2. \A m \in S : n <= m
  <2>1. \A m \in S : ~ (m < n)
    BY <1>1 DEF OpToRel
  <2> QED BY <2>1
<1> QED BY <1>2 DEF Min

\* Up to where a bucket is counted that may be the current one.
Until(t) == IF t > now + 1 THEN now + 1 ELSE t

\* It is the end that a series has for the bucket.
LEMMA UntilIs == IInv => /\ now \in Nat /\ now <= MaxTime
                         /\ \A t \in Nat : Until(t) \in Nat /\ Min({t, now + 1}) = Until(t)
<1> SUFFICES ASSUME IInv PROVE /\ now \in Nat /\ now <= MaxTime
                               /\ \A t \in Nat : Until(t) \in Nat /\ Min({t, now + 1}) = Until(t)
  OBVIOUS
<1>1. now \in Nat /\ now <= MaxTime
  BY Sizes DEF IInv, Clocks
<1>2. ASSUME NEW t \in Nat PROVE Until(t) \in Nat /\ Min({t, now + 1}) = Until(t)
  <2>1. PICK S : S = {t, now + 1}
    OBVIOUS
  <2>2. S \subseteq Nat /\ S # {}
    BY <1>1, <2>1
  <2>3. Min(S) \in S /\ \A y \in S : Min(S) <= y
    BY <2>2, MinIsLeast
  <2> QED BY <1>1, <2>1, <2>3 DEF Until
<1> QED BY <1>1, <1>2

\* The widths of the points of both tiers.
Widths == {M, H}
BucketsOf(width) == IF width = M THEN Minutes ELSE Hours

\* A bucket of either width.
LEMMA BucketOfIs ==
  ASSUME NEW width \in Widths
  PROVE  /\ width \in Nat /\ width > 0
         /\ \A t \in 0 .. MaxTime : Bucket(t, width) \in BucketsOf(width)
         /\ \A b \in BucketsOf(width) : b \in Nat /\ b <= MaxTime /\ Bucket(b, width) = b
<1>1. CASE width = M
  <2>1. \A m \in Minutes : m \in Nat /\ m <= MaxTime /\ Bucket(m, M) = m
    <3> SUFFICES ASSUME NEW m \in Minutes PROVE m \in Nat /\ m <= MaxTime /\ Bucket(m, M) = m
      OBVIOUS
    <3> QED BY MinuteIs, Sizes
  <2> QED BY <1>1, <2>1, Sizes DEF BucketsOf, Minutes
<1>2. CASE width = H
  <2>1. \A h \in Hours : h \in Nat /\ h <= MaxTime /\ Bucket(h, H) = h
    <3> SUFFICES ASSUME NEW h \in Hours PROVE h \in Nat /\ h <= MaxTime /\ Bucket(h, H) = h
      OBVIOUS
    <3> QED BY HourIs, Sizes
  <2>2. H # M
    BY Sizes
  <2> QED BY <1>2, <2>1, <2>2, Sizes DEF BucketsOf, Hours
<1> QED BY <1>1, <1>2 DEF Widths

\* A tier begins at a bucket of it, when it has begun.
LEMMA StartIs ==
  ASSUME IInv, NEW width \in Widths, NEW t \in Int, Start(width) <= t, t <= now
  PROVE  Start(width) \in BucketsOf(width)
<1>1. PICK table : table = Table(width)
  OBVIOUS
<1>2. \A k \in DOMAIN table : k[2] \in BucketsOf(width)
  BY <1>1, Sizes DEF IInv, Rollups, Table, BucketsOf, Widths
<1>3. PICK S : S = {k[2] : k \in DOMAIN table} \cup {MaxTime + 1}
  OBVIOUS
<1>4. S \subseteq Nat /\ S # {} /\ Start(width) = Min(S)
  BY <1>1, <1>2, <1>3, BucketOfIs, Sizes DEF Start
<1>5. Min(S) \in S
  BY <1>4, MinIsLeast
<1>6. Min(S) # MaxTime + 1
  BY <1>4, UntilIs, Sizes
<1> QED BY <1>2, <1>3, <1>4, <1>5, <1>6

\* A point is a bucket from there on.
LEMMA PointIs ==
  ASSUME IInv, NEW width \in Widths, NEW t \in Int, Start(width) <= t, t <= now,
         NEW p, p = Bucket(t, width)
  PROVE  p \in BucketsOf(width) /\ Start(width) <= p /\ p <= now
<1>1. PICK from \in BucketsOf(width) : from = Start(width)
  BY StartIs
<1>2. /\ width \in Nat /\ width > 0 /\ from \in Nat /\ Bucket(from, width) = from
      /\ \A b \in 0 .. MaxTime : Bucket(b, width) \in BucketsOf(width)
  BY BucketOfIs
<1>3. now \in Nat /\ now <= MaxTime /\ t \in 0 .. MaxTime
  BY <1>1, <1>2, UntilIs, Sizes
<1>4. p \in Int /\ p <= t /\ t < p + width /\ \E q \in Int : p = q * width
  BY <1>2, BucketIsMultiple
<1>5. ASSUME p < from PROVE FALSE
  <2>1. Bucket(p, width) + width <= from
    BY <1>2, <1>4, <1>5, BucketsAreApart
  <2>2. Bucket(p, width) = p
    BY <1>2, <1>4, BucketIsOne
  <2> QED BY <1>1, <1>2, <1>4, <2>1, <2>2
<1>6. p \in BucketsOf(width)
  BY <1>2, <1>3
<1>7. from <= p /\ p <= now
  <2>1. from \in Nat
    BY <1>2
  <2> HIDE <1>2
  <2> QED BY <1>3, <1>4, <1>5, <2>1
<1> QED BY <1>1, <1>6, <1>7
-----------------------------------------------------------------------------
(* What a series takes from the raw rows.                                  *)

\* What is dirty.
LEMMA DirtyIs ==
  ASSUME IInv, NEW d \in dirty
  PROVE  \/ d[1] = M /\ d[1] # H /\ d[2] \in Ids /\ d[3] \in Minutes /\ d = <<M, d[2], d[3]>>
         \/ d[1] = H /\ d[1] # M /\ d[2] \in Ids /\ d[3] \in Hours /\ d = <<H, d[2], d[3]>>
<1>1. H # M
  BY Sizes
<1> QED BY <1>1 DEF IInv, Rollups

\* The current minute, and the current hour.
LEMMA CurrentIs ==
  ASSUME IInv, NEW width \in Widths, NEW b, b = Bucket(now, width)
  PROVE  /\ b \in BucketsOf(width) /\ b \in Nat /\ b <= now /\ now < b + width
         /\ \A c \in BucketsOf(width) : c <= now /\ c # b => c + width <= now
<1>1. /\ width \in Nat /\ width > 0
      /\ \A t \in 0 .. MaxTime : Bucket(t, width) \in BucketsOf(width)
      /\ \A c \in BucketsOf(width) : c \in Nat /\ Bucket(c, width) = c
  BY BucketOfIs
<1>2. now \in Nat /\ now \in 0 .. MaxTime
  BY UntilIs, Sizes
<1>3. b \in BucketsOf(width) /\ b \in Nat
  BY <1>1, <1>2
<1>4. b <= now /\ now < b + width /\ \E q \in Int : b = q * width
  <2>1. now \in Int /\ width \in Nat /\ width > 0
    BY <1>1, <1>2
  <2> QED BY <2>1, BucketIsMultiple
<1>5. ASSUME NEW c \in BucketsOf(width), c <= now, c # b PROVE c + width <= now
  <2>1. c \in Nat /\ Bucket(c, width) = c
    BY <1>1
  <2>2. CASE c < b
    <3>1. Bucket(c, width) + width <= b
      BY <1>1, <1>2, <2>1, <2>2, BucketsAreApart
    <3> QED BY <1>1, <1>2, <1>3, <1>4, <2>1, <3>1
  <2>3. CASE b < c
    <3>1. Bucket(c, width) = b
      BY <1>1, <1>2, <1>3, <1>4, <1>5, <2>1, <2>3, BucketIsOne
    <3> QED BY <1>5, <2>1, <3>1
  <2> QED BY <1>3, <1>5, <2>1, <2>2, <2>3
<1> QED BY <1>3, <1>4, <1>5

\* The minutes a series reads from the rows are complete, the others are over
\* and clean in every generation.
LEMMA MarkedMinutes ==
  ASSUME IInv, JInv, KInv, NEW from \in Nat, from <= now, NEW width \in Widths,
         NEW D, D = DirtyMinutes(from, now + 1, width)
  PROVE  /\ \A m \in D : m \in Minutes /\ m <= now /\ Complete(m)
         /\ \A m \in Minutes : m <= now /\ m \notin D =>
              m + M <= now /\ \A g \in Ids : <<M, g, m>> \notin dirty
<1>1. now \in Nat /\ M \in Nat /\ M > 0 /\ width \in Nat /\ M <= width /\ M \in Widths
  BY UntilIs, Sizes DEF Widths
<1>2. PICK b : b = Bucket(now, M)
  OBVIOUS
<1>3. /\ b \in Minutes /\ b \in Nat /\ b <= now /\ now < b + M
      /\ \A c \in Minutes : c <= now /\ c # b => c + M <= now
  BY <1>1, <1>2, CurrentIs DEF BucketsOf
<1>4. D = {m \in {b} : m < now + 1 /\ from - width <= m}
            \cup {d[3] : d \in {e \in dirty : e[1] = M /\ e[3] < now + 1}}
  BY <1>2 DEF DirtyMinutes
<1>5. b \in D
  BY <1>1, <1>3, <1>4
<1>6. \A m \in Minutes : m \in Nat
  BY MinuteIs
<1>7. ASSUME NEW m \in D PROVE m \in Minutes /\ m <= now /\ Complete(m)
  <2>1. CASE m = b
    BY <1>2, <1>3, <2>1, CurrentIsComplete
  <2>2. CASE m # b
    <3>1. PICK d \in dirty : d[1] = M /\ d[3] < now + 1 /\ m = d[3]
      BY <1>4, <2>2
    <3>2. d[2] \in Ids /\ d[3] \in Minutes /\ d = <<M, d[2], d[3]>>
      BY <3>1, DirtyIs
    <3>3. Complete(m)
      BY <3>1, <3>2 DEF KInv, Readable
    <3> QED BY <1>1, <1>6, <3>1, <3>2, <3>3
  <2> QED BY <2>1, <2>2
<1>8. ASSUME NEW m \in Minutes, m <= now, m \notin D
      PROVE  m + M <= now /\ \A g \in Ids : <<M, g, m>> \notin dirty
  <2>1. m + M <= now
    BY <1>3, <1>5, <1>8
  <2>2. ASSUME NEW g \in Ids, <<M, g, m>> \in dirty PROVE FALSE
    <3>1. PICK d \in dirty : d = <<M, g, m>>
      BY <2>2
    <3>2. d[1] = M /\ d[3] = m /\ m < now + 1
      BY <1>1, <1>6, <1>8, <3>1
    <3> QED BY <1>4, <1>8, <3>2
  <2> QED BY <2>1, <2>2
<1> QED BY <1>7, <1>8

\* The hours of those minutes are not taken either, the others are over and clean.
LEMMA MarkedHours ==
  ASSUME IInv, NEW from \in Nat, from <= now,
         NEW D, D = DirtyMinutes(from, now + 1, H), NEW E, E = DirtyHours(from, now + 1, H)
  PROVE  /\ \A m \in D : Bucket(m, H) \in E
         /\ \A h \in Hours : h <= now /\ h \notin E =>
              h + H <= now /\ \A g \in Ids : CleanHour(g, h)
<1>1. now \in Nat /\ H \in Nat /\ H > 0 /\ M # H /\ H \in Widths
  BY UntilIs, Sizes DEF Widths
<1>2. PICK b : b = Bucket(now, H)
  OBVIOUS
<1>3. /\ b \in Hours /\ b \in Nat /\ b <= now /\ now < b + H
      /\ \A c \in Hours : c <= now /\ c # b => c + H <= now
  BY <1>1, <1>2, CurrentIs DEF BucketsOf
<1>4. E = {h \in {b} : h < now + 1 /\ from - H <= h}
            \cup {Bucket(d[3], H) : d \in {e \in dirty : e[3] < now + 1}}
  BY <1>2 DEF DirtyHours
<1>5. b \in E
  BY <1>1, <1>3, <1>4
<1>6. ASSUME NEW m \in D PROVE Bucket(m, H) \in E
  <2>1. CASE m = Bucket(now, M)
    BY <1>1, <1>2, <1>5, <2>1, MinutesNest
  <2>2. CASE m # Bucket(now, M)
    <3>1. PICK d \in dirty : d[3] < now + 1 /\ m = d[3]
      BY <2>2 DEF DirtyMinutes
    <3> QED BY <1>4, <3>1
  <2> QED BY <2>1, <2>2
<1>7. ASSUME NEW h \in Hours, h <= now, h \notin E
      PROVE  h + H <= now /\ \A g \in Ids : CleanHour(g, h)
  <2>1. h + H <= now
    BY <1>3, <1>5, <1>7
  <2>2. h \in Nat /\ \A t \in Int : h <= t /\ t < h + H => Bucket(t, H) = h
    BY HourIs
  <2>3. ASSUME NEW d \in dirty, d[3] \in Int, Bucket(d[3], H) = h PROVE FALSE
    <3>1. d[3] < h + H
      BY <1>1, <2>3, BucketIsMultiple
    <3>2. d[3] < now + 1
      BY <1>1, <2>1, <2>2, <2>3, <3>1
    <3> QED BY <1>4, <1>7, <2>3, <3>2
  <2>4. ASSUME NEW g \in Ids PROVE CleanHour(g, h)
    <3>1. ASSUME <<H, g, h>> \in dirty PROVE FALSE
      <4>1. PICK d \in dirty : d = <<H, g, h>>
        BY <3>1
      <4>2. d[3] = h /\ h \in Int /\ Bucket(h, H) = h
        BY <1>1, <2>2, <4>1
      <4> QED BY <2>3, <4>2
    <3>2. ASSUME NEW m \in Minutes, Bucket(m, H) = h, <<M, g, m>> \in dirty PROVE FALSE
      <4>1. PICK d \in dirty : d = <<M, g, m>>
        BY <3>2
      <4>2. d[3] = m /\ m \in Int
        BY <4>1, MinuteIs
      <4> QED BY <2>3, <3>2, <4>2
    <3> QED BY <3>1, <3>2 DEF CleanHour
  <2> QED BY <2>1, <2>4
<1> QED BY <1>6, <1>7

-----------------------------------------------------------------------------
(* The minutes of an hour.                                                 *)

\* There are finitely many minutes.
LEMMA MinutesAreFinite == IsFiniteSet(Minutes)
<1>1. Minutes \subseteq 0 .. MaxTime
  BY Sizes, BucketStarts DEF Minutes
<1>2. IsFiniteSet(0 .. MaxTime)
  BY Sizes, FS_Interval
<1> QED BY <1>1, <1>2, FS_Subset

\* What was counted is a number, and does not become less.
LEMMA CountsGrow ==
  ASSUME IInv, NEW t \in Int, NEW u \in Int, t <= u
  PROVE  CountAt(t) \in Nat /\ CountAt(u) \in Nat /\ CountAt(t) <= CountAt(u)
<1>1. PICK e : e = [g \in Ids |-> Diff(History(g), t, u).delta]
  OBVIOUS
<1>2. \A g \in Ids : e[g] = Diff(History(g), t, u).delta
  BY <1>1
<1> QED BY <1>2, GenerationsAddUp

\* What was counted in the minutes of an hour adds up to what was in it.
LEMMA HourAddsUp ==
  ASSUME IInv, NEW h \in Hours, h <= now,
         NEW D, D = {m \in Minutes : Bucket(m, H) = h /\ m <= now},
         NEW e, \A m \in D : e[m] = CountAt(Until(m + M)) - CountAt(m)
  PROVE  /\ \A m \in D : e[m] \in Nat
         /\ SumFunctionOnSet(e, D) = CountAt(Until(h + H)) - CountAt(h)
<1>1. /\ H \in Nat /\ H > 0 /\ M \in Nat /\ M > 0
      /\ now \in Nat /\ now <= MaxTime /\ MaxTime \in Nat
      /\ \A t \in Nat : Until(t) \in Nat
  BY Sizes, UntilIs
<1>2. \A m \in D : m \in Minutes /\ m \in Nat /\ m <= now /\ h <= m /\ m < h + H
  <2> SUFFICES ASSUME NEW m \in D
               PROVE  m \in Minutes /\ m \in Nat /\ m <= now /\ h <= m /\ m < h + H
    OBVIOUS
  <2>1. m \in Minutes /\ Bucket(m, H) = h /\ m <= now /\ m \in Nat
    BY MinuteIs
  <2> QED BY <1>1, <2>1, BucketIsMultiple
<1>3. IsFiniteSet(D)
  BY MinutesAreFinite, FS_Subset
<1>4. PICK n \in Nat : H = n * M /\ n > 0
  BY HourOfMinutes
<1>5. h \in Nat /\ \A t \in Int : h <= t /\ t < h + H => Bucket(t, H) = h
  BY HourIs
<1>6. PICK c \in Int : h = c * M
  <2>1. PICK q \in Int : h = q * H
    BY HourIs
  <2>2. q * n \in Int /\ h = (q * n) * M
    BY <1>1, <1>4, <2>1
  <2> QED BY <2>2
<1>7. PICK at : at = [i \in 0 .. n |-> h + i * M]
  OBVIOUS
<1>8. /\ \A i \in 0 .. n : at[i] \in Nat
      /\ \A i \in 0 .. n - 1 : /\ at[i + 1] = at[i] + M /\ h <= at[i] /\ at[i] < h + H
                               /\ at[i] = (c + i) * M
      /\ at[0] = h /\ at[n] = h + H
  <2>1. \A i \in 0 .. n : i * M \in Nat
    BY <1>1
  <2>2. \A i \in 0 .. n - 1 : (i + 1) * M = i * M + M /\ i * M + M <= n * M
    <3> SUFFICES ASSUME NEW i \in 0 .. n - 1 PROVE (i + 1) * M = i * M + M /\ i * M + M <= n * M
      OBVIOUS
    <3>1. (i + 1) * M = i * M + M
      BY <1>1
    <3>2. (i + 1) * M <= n * M
      BY <1>1, FactorsOrder
    <3> QED BY <3>1, <3>2
  <2>3. \A i \in 0 .. n - 1 : (c + i) * M = c * M + i * M
    BY <1>1
  <2>4. 0 * M = 0 /\ n \in 0 .. n /\ 0 \in 0 .. n
    BY <1>1
  <2>5. \A i \in 0 .. n : at[i] = h + i * M /\ at[i] \in Nat
    BY <1>5, <1>7, <2>1
  <2>6. at[0] = h /\ at[n] = h + H
    BY <1>4, <1>5, <2>4, <2>5
  <2>7. ASSUME NEW i \in 0 .. n - 1
        PROVE  /\ at[i + 1] = at[i] + M /\ h <= at[i] /\ at[i] < h + H
               /\ at[i] = (c + i) * M
    <3>1. i \in 0 .. n /\ i + 1 \in 0 .. n
      BY <1>4
    <3>2. PICK x \in Nat : x = i * M
      BY <2>1, <3>1
    <3>3. at[i] = h + x /\ at[i + 1] = h + (i + 1) * M
      BY <2>5, <3>1, <3>2
    <3>4. (i + 1) * M = x + M /\ x + M <= H /\ (c + i) * M = h + x
      BY <1>4, <1>6, <2>2, <2>3, <3>2
    <3> QED BY <1>1, <1>5, <3>3, <3>4
  <2> QED BY <2>5, <2>6, <2>7
<1>9. \A m \in D : \E i \in 0 .. n - 1 : m = at[i]
  <2> SUFFICES ASSUME NEW m \in D PROVE \E i \in 0 .. n - 1 : m = at[i]
    OBVIOUS
  <2>1. m \in Nat /\ h <= m /\ m < h + H
    BY <1>2
  <2>2. PICK p \in Int : m = p * M
    BY <1>2, MinuteIs
  <2>3. ASSUME p < c PROVE FALSE
    <3>1. (p + 1) * M <= c * M /\ (p + 1) * M = p * M + M
      BY <1>1, <2>3, FactorsOrder
    <3> QED BY <1>1, <1>5, <1>6, <2>1, <2>2, <3>1
  <2>4. ASSUME p >= c + n PROVE FALSE
    <3>1. (c + n) * M <= p * M /\ (c + n) * M = c * M + n * M
      BY <1>1, <2>4, FactorsOrder
    <3>2. h + H <= m
      BY <1>4, <1>6, <2>2, <3>1
    <3> QED BY <1>1, <1>5, <2>1, <3>2
  <2>5. p - c \in 0 .. n - 1 /\ c + (p - c) = p
    BY <2>3, <2>4
  <2> QED BY <1>8, <2>2, <2>5
<1>10. PICK f : f = [m \in D |-> CHOOSE i \in 0 .. n - 1 : m = at[i]]
  OBVIOUS
<1>11. \A m \in D : f[m] \in 0 .. n - 1 /\ m = at[f[m]]
  BY <1>9, <1>10
<1>12. PICK r : r = [i \in 0 .. n |-> CountAt(Until(at[i]))]
  OBVIOUS
<1>13. \A i \in 0 .. n : r[i] \in Nat
  <2> SUFFICES ASSUME NEW i \in 0 .. n PROVE r[i] \in Nat
    OBVIOUS
  <2>1. PICK t \in Int : t = Until(at[i]) /\ t <= t
    BY <1>1, <1>8
  <2>2. CountAt(t) \in Nat
    BY <2>1, CountsGrow
  <2> QED BY <1>12, <2>1, <2>2
<1>14. ASSUME NEW m \in D
       PROVE  e[m] = r[f[m] + 1] - r[f[m]] /\ e[m] \in Nat
  <2>1. PICK i \in 0 .. n - 1 : i = f[m] /\ m = at[i] /\ at[i + 1] = m + M
    BY <1>8, <1>11
  <2>2. i \in 0 .. n /\ i + 1 \in 0 .. n
    BY <1>4
  <2>3. m \in Nat /\ m <= now
    BY <1>2
  <2>4. PICK u \in Nat : u = Until(m + M)
    BY <1>1, <2>3
  <2>5. Until(m) = m /\ m <= u /\ m \in Int /\ u \in Int
    BY <1>1, <2>3, <2>4 DEF Until
  <2>6. r[i] = CountAt(m) /\ r[i + 1] = CountAt(u) /\ e[m] = CountAt(u) - CountAt(m)
    BY <1>12, <2>1, <2>2, <2>4, <2>5
  <2>7. CountAt(m) \in Nat /\ CountAt(u) \in Nat /\ CountAt(m) <= CountAt(u)
    BY <2>5, CountsGrow
  <2> QED BY <2>1, <2>6, <2>7
<1>15. ASSUME NEW i \in 0 .. n - 1, \A m \in D : f[m] # i PROVE r[i + 1] = r[i]
  <2>1. PICK t \in Nat : t = at[i]
    BY <1>8
  <2>2. h <= t /\ t < h + H /\ t = (c + i) * M /\ at[i + 1] = t + M
    BY <1>8, <2>1
  <2>3. ASSUME t <= now PROVE FALSE
    <3>1. Bucket(t, M) = t
      <4>1. t \in Int /\ c + i \in Int /\ (c + i) * M <= t /\ t < (c + i) * M + M
        BY <1>1, <2>2
      <4> QED BY <1>1, <2>2, <4>1, BucketIsOne
    <3>2. t \in Minutes
      <4>1. t \in 0 .. MaxTime
        BY <1>1, <2>3
      <4> QED BY <3>1, <4>1, MinutesAndHours
    <3>3. Bucket(t, H) = h
      BY <1>5, <2>2
    <3>4. t \in D
      BY <2>3, <3>2, <3>3
    <3>5. PICK j \in 0 .. n - 1 : j = f[t] /\ at[j] = t /\ at[j] = (c + j) * M
      BY <1>8, <1>11, <3>4
    <3>6. ASSUME i < j PROVE FALSE
      <4>1. (c + i + 1) * M <= (c + j) * M /\ (c + i + 1) * M = (c + i) * M + M
        BY <1>1, <3>6, FactorsOrder
      <4> QED BY <1>1, <2>2, <3>5, <4>1
    <3>7. ASSUME j < i PROVE FALSE
      <4>1. (c + j + 1) * M <= (c + i) * M /\ (c + j + 1) * M = (c + j) * M + M
        BY <1>1, <3>7, FactorsOrder
      <4> QED BY <1>1, <2>2, <3>5, <4>1
    <3>8. i = j
      BY <3>6, <3>7
    <3> QED BY <1>15, <3>4, <3>5, <3>8
  <2>4. Until(t) = now + 1 /\ Until(t + M) = now + 1
    BY <1>1, <2>3 DEF Until
  <2>5. i \in 0 .. n /\ i + 1 \in 0 .. n
    BY <1>4
  <2> QED BY <1>12, <2>1, <2>2, <2>4, <2>5
<1>16. PICK d : d = [m \in D |-> e[m]]
  OBVIOUS
<1>17. d \in [D -> Nat] /\ \A m \in D : d[m] = e[m] /\ d[m] = r[f[m] + 1] - r[f[m]]
  BY <1>14, <1>16
<1>18. SumFunctionOnSet(d, D) = r[n] - r[0]
  <2>1. \A k, l \in D : f[k] = f[l] => k = l
    BY <1>11
  <2>2. Telescopes(n, r, D, f, d)
    BY <1>11, <1>13, <1>15, <1>17, <2>1 DEF Telescopes
  <2> QED BY <1>3, <2>2, SumTelescopes
<1>19. SumFunctionOnSet(e, D) = SumFunctionOnSet(d, D)
  BY <1>3, <1>17, SumsAgree
<1>20. r[n] = CountAt(Until(h + H)) /\ r[0] = CountAt(h)
  <2>1. Until(h) = h
    BY <1>1, <1>5 DEF Until
  <2>2. n \in 0 .. n /\ 0 \in 0 .. n
    BY <1>4
  <2> QED BY <1>8, <1>12, <2>1, <2>2
<1> QED BY <1>14, <1>18, <1>19, <1>20
-----------------------------------------------------------------------------
(* A point of a series.                                                    *)

\* What a minute that is read from its rows adds to a point.
LEMMA ExposedMinute ==
  ASSUME IInv, JInv, KInv, NEW from \in Nat, from <= now, NEW width \in Widths,
         NEW m \in DirtyMinutes(from, now + 1, width), NEW p, Bucket(m, width) = p,
         NEW c, c = Until(m + M)
  PROVE  RawDelta(p, width, m, c) = CountAt(c) - CountAt(m)
<1>1. PICK D : D = DirtyMinutes(from, now + 1, width)
  OBVIOUS
<1>2. m \in D /\ m \in Minutes /\ m <= now /\ Complete(m)
  <2>1. m \in D
    BY <1>1
  <2> QED BY <1>1, <2>1, MarkedMinutes
<1>3. m \in Nat /\ \A t \in Int : m <= t /\ t < m + M => Bucket(t, M) = m
  BY <1>2, MinuteIs
<1>4. now \in Nat /\ M \in Nat /\ M > 0 /\ c \in Nat /\ m <= c /\ c <= m + M
  BY <1>2, <1>3, UntilIs, Sizes DEF Until
<1>5. \A t \in Int : m <= t /\ t < m + M => Bucket(t, width) = p
  <2> SUFFICES ASSUME NEW t \in Int, m <= t, t < m + M PROVE Bucket(t, width) = p
    OBVIOUS
  <2>1. Bucket(t, M) = m
    BY <1>3
  <2>2. Bucket(m, M) = m
    BY <1>3, <1>4
  <2>3. Bucket(t, H) = Bucket(m, H)
    BY <2>1, MinutesNest
  <2> QED BY <2>1, <2>2, <2>3 DEF Widths
<1> QED BY <1>2, <1>4, <1>5, MinuteIsRead

\* The minutes a point takes from the rows.
Exposed(p, width, from) == {m \in DirtyMinutes(from, now + 1, width) : Bucket(m, width) = p}

\* A point is rolled up, but for them.
LEMMA PointIsMadeOf ==
  ASSUME IInv, JInv, KInv, NEW width \in Widths, NEW from \in Nat, NEW p \in BucketsOf(width),
         from <= p, p <= now,
         NEW D, D = DirtyMinutes(from, now + 1, width),
         NEW E, E = DirtyHours(from, now + 1, width)
  PROVE  /\ IsFiniteSet(Exposed(p, width, from)) /\ Exposed(p, width, from) \subseteq D
         /\ \E w : /\ \A m \in Exposed(p, width, from) : w[m] = CountAt(Until(m + M)) - CountAt(m)
                   /\ Series(p, width, width, from, now + 1) =
                        RollupDelta(p, width, width, from, now + 1, IF width = H THEN E ELSE D, Everything)
                          + (IF width = H THEN RollupDelta(p, width, M, from, now + 1, D, E) ELSE 0)
                          + SumFunctionOnSet(w, Exposed(p, width, from))
<1>1. PICK to : to = now + 1
  OBVIOUS
<1>2. /\ now \in Nat /\ M \in Nat /\ M > 0 /\ from <= now /\ p \in Nat /\ width \in Nat /\ width > 0
  BY UntilIs, Sizes, BucketOfIs
<1>3. \A m \in D : m \in Minutes /\ m \in Nat /\ m <= now
  <2>1. \A m \in D : m \in Minutes /\ m <= now
    BY <1>2, MarkedMinutes
  <2> QED BY <2>1, MinuteIs
<1>4. PICK X : X = Exposed(p, width, from)
  OBVIOUS
<1>5. X = {m \in D : Bucket(m, width) = p} /\ X \subseteq D /\ X \subseteq Minutes
  BY <1>3, <1>4 DEF Exposed
<1>6. IsFiniteSet(X)
  BY <1>5, MinutesAreFinite, FS_Subset
<1>7. \A m \in X : m \in D /\ m \in Nat /\ m <= now /\ from <= m /\ m + M > from /\ m < to
  <2> SUFFICES ASSUME NEW m \in X
               PROVE  m \in D /\ m \in Nat /\ m <= now /\ from <= m /\ m + M > from /\ m < to
    OBVIOUS
  <2>1. m \in D /\ m \in Nat /\ m <= now /\ Bucket(m, width) = p
    BY <1>3, <1>5
  <2>2. p <= m
    BY <1>2, <2>1, BucketStarts
  <2> QED BY <1>1, <1>2, <2>1, <2>2
<1>8. PICK raw : raw = [m \in X |-> RawDelta(p, width, IF m < from THEN from ELSE m,
                                             IF m + M > to THEN to ELSE m + M)]
  OBVIOUS
<1>9. ASSUME NEW m \in X PROVE raw[m] = CountAt(Until(m + M)) - CountAt(m)
  <2>1. PICK c : c = Until(m + M)
    OBVIOUS
  <2>2. raw[m] = RawDelta(p, width, m, c)
    BY <1>1, <1>2, <1>7, <1>8, <2>1 DEF Until
  <2>3. m \in DirtyMinutes(from, now + 1, width) /\ Bucket(m, width) = p
    BY <1>5
  <2>4. RawDelta(p, width, m, c) = CountAt(c) - CountAt(m)
    BY <1>2, <2>1, <2>3, ExposedMinute
  <2> QED BY <2>1, <2>2, <2>4
<1>10. {m \in D : m + M > from /\ m < to /\ Bucket(m, width) = p} = X
  BY <1>5, <1>7
<1>11. SumFunction(raw) = SumFunctionOnSet(raw, X)
  BY <1>8 DEF SumFunction
<1>12. Series(p, width, width, from, to) =
         RollupDelta(p, width, width, from, to, IF width = H THEN E ELSE D, Everything)
           + (IF width = H THEN RollupDelta(p, width, M, from, to, D, E) ELSE 0)
           + SumFunctionOnSet(raw, X)
  BY <1>1, <1>8, <1>10, <1>11 DEF Series
<1> QED BY <1>1, <1>4, <1>5, <1>6, <1>9, <1>12

\* The keys of some buckets.
ColumnsOf(table, S) == {k \in DOMAIN table : k[2] \in S}

\* What the columns of clean minutes add up to.
LEMMA ColumnsOfMinutes ==
  ASSUME IInv, JInv, NEW S \in SUBSET Minutes,
         \A m \in S : \A g \in Ids : <<M, g, m>> \notin dirty,
         NEW X, X = ColumnsOf(minute, S),
         NEW d, \A m \in S : d[m] = CountAt(m + M) - CountAt(m)
  PROVE  SumFunction([k \in X |-> minute[k].delta]) = SumFunctionOnSet(d, S)
<1>1. IsFiniteSet(S)
  BY MinutesAreFinite, FS_Subset
<1>2. PICK e : e = [k \in X |-> minute[k].delta]
  OBVIOUS
<1>3. PICK P : P = [m \in S |-> ColumnOf(minute, m)]
  OBVIOUS
<1>4. ASSUME NEW m \in S
      PROVE  /\ IsFiniteSet(P[m]) /\ \A k \in P[m] : e[k] \in Nat
             /\ d[m] = SumFunctionOnSet(e, P[m])
  <2>1. PICK K : K = ColumnOf(minute, m)
    OBVIOUS
  <2>2. \A k \in K : k \in X
    BY <2>1 DEF ColumnOf, ColumnsOf
  <2>3. \A k \in K : e[k] = minute[k].delta
    BY <1>2, <2>2
  <2>4. m \in Minutes /\ \A g \in Ids : <<M, g, m>> \notin dirty
    OBVIOUS
  <2>5. /\ IsFiniteSet(K) /\ \A k \in K : e[k] \in Nat
        /\ SumFunctionOnSet(e, K) = CountAt(m + M) - CountAt(m)
    BY <2>1, <2>3, <2>4, CleanMinuteIsRead
  <2> QED BY <1>3, <2>1, <2>5
<1>5. Whole(P, S) = X
  <2>1. \A k : k \in X <=> \E m \in S : k \in ColumnOf(minute, m)
    BY DEF ColumnOf, ColumnsOf
  <2> QED BY <1>3, <2>1 DEF Whole
<1>6. ArePartsOf(P, S)
  <2>1. \A m, o \in S : m # o => P[m] \cap P[o] = {}
    BY <1>3 DEF ColumnOf
  <2> QED BY <1>4, <2>1 DEF ArePartsOf
<1>7. e \in [X -> Nat] /\ DOMAIN e = X
  <2>1. \A k \in X : e[k] \in Nat
    <3> SUFFICES ASSUME NEW k \in X PROVE e[k] \in Nat
      OBVIOUS
    <3>1. PICK m \in S : k \in P[m]
      BY <1>5 DEF Whole
    <3> QED BY <1>4, <3>1
  <2> QED BY <1>2, <2>1
<1>8. SumFunctionOnSet(d, S) = SumFunctionOnSet(e, X)
  <2>1. \A m \in S : d[m] = SumFunctionOnSet(e, P[m])
    BY <1>4
  <2>2. IsFiniteSet(S) /\ ArePartsOf(P, S) /\ X = Whole(P, S) /\ e \in [X -> Nat]
    BY <1>1, <1>5, <1>6, <1>7
  <2>3. IsFiniteSet(X)
    <3>1. generations \in Seq(Generations) /\ X \subseteq Ids \X Minutes
      BY DEF IInv, Tables, Rollups, ColumnsOf
    <3> QED BY <3>1, KeysAreFinite
  <2> QED BY <2>1, <2>2, <2>3, SumOfParts
<1> QED BY <1>2, <1>7, <1>8 DEF SumFunction

\* A rollup of nothing.
LEMMA NoneRolledUp ==
  ASSUME NEW p, NEW width, NEW resolution, NEW from, NEW to, NEW skip, NEW parents,
         \A k \in DOMAIN Table(resolution) :
           ~ (/\ Bucket(from, resolution) <= k[2] /\ k[2] < to /\ Bucket(k[2], width) = p
              /\ k[2] \notin skip /\ Bucket(k[2], H) \in parents)
  PROVE  RollupDelta(p, width, resolution, from, to, skip, parents) = 0
<1>1. PICK table : table = Table(resolution)
  OBVIOUS
<1>2. PICK e : e = [k \in {} |-> table[k].delta]
  OBVIOUS
<1>3. {k \in DOMAIN Table(resolution) :
         /\ Bucket(from, resolution) <= k[2] /\ k[2] < to /\ Bucket(k[2], width) = p
         /\ k[2] \notin skip /\ Bucket(k[2], H) \in parents} = {}
  OBVIOUS
<1>4. RollupDelta(p, width, resolution, from, to, skip, parents) = SumFunction(e)
  BY <1>1, <1>2, <1>3 DEF RollupDelta
<1>5. SumFunction(e) = SumFunctionOnSet(e, {})
  BY <1>2 DEF SumFunction
<1> QED BY <1>4, <1>5, FS_EmptySet, SumFunctionZero

\* A point of the minutes: read from its rows, or from its column.
LEMMA MinutePoint ==
  ASSUME IInv, JInv, KInv, NEW from \in Nat, NEW p \in Minutes, from <= p, p <= now
  PROVE  Series(p, M, M, from, now + 1) = CountAt(Until(p + M)) - CountAt(p)
<1>1. /\ now \in Nat /\ M \in Nat /\ M > 0 /\ from <= now /\ p \in Nat /\ M # H /\ M \in Widths
      /\ BucketsOf(M) = Minutes
  BY UntilIs, Sizes, MinuteIs DEF Widths, BucketsOf
<1>2. PICK D : D = DirtyMinutes(from, now + 1, M)
  OBVIOUS
<1>3. PICK E : E = DirtyHours(from, now + 1, M)
  OBVIOUS
<1>4. PICK X : X = Exposed(p, M, from)
  OBVIOUS
<1>5. PICK roll : roll = RollupDelta(p, M, M, from, now + 1, D, Everything)
  OBVIOUS
<1>6. PICK w : /\ \A m \in X : w[m] = CountAt(Until(m + M)) - CountAt(m)
               /\ Series(p, M, M, from, now + 1) = roll + 0 + SumFunctionOnSet(w, X)
  BY <1>1, <1>2, <1>3, <1>4, <1>5, PointIsMadeOf
<1>7. /\ \A m \in D : m \in Minutes /\ m <= now
      /\ \A m \in Minutes : m <= now /\ m \notin D =>
           m + M <= now /\ \A g \in Ids : <<M, g, m>> \notin dirty
  BY <1>1, <1>2, MarkedMinutes
<1>8. \A m \in Minutes : m \in Nat /\ Bucket(m, M) = m
  BY <1>1, BucketOfIs
<1>9. X = {m \in D : m = p}
  BY <1>2, <1>4, <1>7, <1>8 DEF Exposed
<1>10. \A k \in DOMAIN minute : k[2] \in Minutes
  BY DEF IInv, Rollups
<1>11. Table(M) = minute
  BY DEF Table
<1>12. CountAt(p) \in Nat /\ CountAt(Until(p + M)) \in Nat /\ CountAt(p) <= CountAt(Until(p + M))
  <2>1. PICK u \in Int : u = Until(p + M) /\ p <= u
    BY <1>1 DEF Until
  <2> QED BY <1>1, <2>1, CountsGrow
<1>13. CASE p \in D
  <2>1. X = {p}
    BY <1>9, <1>13
  <2>2. roll = 0
    <3>1. \A k \in DOMAIN Table(M) : ~ (Bucket(k[2], M) = p /\ k[2] \notin D)
      BY <1>8, <1>10, <1>11, <1>13
    <3>2. RollupDelta(p, M, M, from, now + 1, D, Everything) = 0
      BY <3>1, NoneRolledUp
    <3> QED BY <1>5, <3>2
  <2>3. w[p] = CountAt(Until(p + M)) - CountAt(p) /\ w[p] \in Nat
    BY <1>6, <1>12, <2>1
  <2>4. SumFunctionOnSet(w, X) = w[p]
    BY <2>1, <2>3, SumOfOne
  <2> QED BY <1>6, <1>12, <2>2, <2>3, <2>4
<1>14. CASE p \notin D
  <2>1. X = {}
    BY <1>9, <1>14
  <2>2. SumFunctionOnSet(w, X) = 0
    BY <2>1, FS_EmptySet, SumFunctionZero
  <2>3. p + M <= now /\ \A g \in Ids : <<M, g, p>> \notin dirty
    BY <1>7, <1>14
  <2>4. Until(p + M) = p + M
    BY <1>1, <2>3 DEF Until
  <2>5. PICK K : K = ColumnOf(minute, p)
    OBVIOUS
  <2>6. PICK e : e = [k \in K |-> minute[k].delta]
    OBVIOUS
  <2>7. /\ IsFiniteSet(K) /\ \A k \in K : e[k] \in Nat
        /\ SumFunctionOnSet(e, K) = CountAt(p + M) - CountAt(p)
    <3>1. \A k \in K : e[k] = minute[k].delta
      BY <2>6
    <3> QED BY <2>3, <2>5, <3>1, CleanMinuteIsRead
  <2>8. roll = SumFunctionOnSet(e, K)
    <3>1. Bucket(from, M) <= from
      BY <1>1, BucketStarts
    <3>2. \A k \in DOMAIN minute :
            (/\ Bucket(from, M) <= k[2] /\ k[2] < now + 1 /\ Bucket(k[2], M) = p
             /\ k[2] \notin D /\ Bucket(k[2], H) \in Everything) <=> k[2] = p
      <4> SUFFICES ASSUME NEW k \in DOMAIN minute
                   PROVE  (/\ Bucket(from, M) <= k[2] /\ k[2] < now + 1 /\ Bucket(k[2], M) = p
                           /\ k[2] \notin D /\ Bucket(k[2], H) \in Everything) <=> k[2] = p
        OBVIOUS
      <4>1. k[2] \in Nat /\ Bucket(k[2], M) = k[2] /\ Bucket(k[2], H) \in Everything
        BY <1>8, <1>10, MinutesAndHours DEF Everything
      <4>2. Bucket(from, M) \in Int
        BY <1>1, BucketStarts
      <4> QED BY <1>1, <1>14, <3>1, <4>1, <4>2
    <3>3. {k \in DOMAIN Table(M) :
             /\ Bucket(from, M) <= k[2] /\ k[2] < now + 1 /\ Bucket(k[2], M) = p
             /\ k[2] \notin D /\ Bucket(k[2], H) \in Everything} = K
      BY <1>11, <2>5, <3>2 DEF ColumnOf
    <3>4. roll = SumFunction(e)
      BY <1>5, <1>11, <2>6, <3>3 DEF RollupDelta
    <3> QED BY <2>6, <3>4 DEF SumFunction
  <2> QED BY <1>6, <1>12, <2>2, <2>4, <2>7, <2>8
<1> QED BY <1>13, <1>14

\* A point of the hours, when its hour is clean: read from its column.
LEMMA CleanHourPoint ==
  ASSUME IInv, JInv, KInv, NEW from \in Nat, NEW p \in Hours, from <= p, p <= now,
         p \notin DirtyHours(from, now + 1, H)
  PROVE  Series(p, H, H, from, now + 1) = CountAt(Until(p + H)) - CountAt(p)
<1>1. /\ now \in Nat /\ H \in Nat /\ H > 0 /\ from <= now /\ p \in Nat /\ M # H /\ H \in Widths
      /\ BucketsOf(H) = Hours
  BY UntilIs, Sizes, HourIs DEF Widths, BucketsOf
<1>2. PICK D : D = DirtyMinutes(from, now + 1, H)
  OBVIOUS
<1>3. PICK E : E = DirtyHours(from, now + 1, H)
  OBVIOUS
<1>4. PICK X : X = Exposed(p, H, from)
  OBVIOUS
<1>5. PICK roll : roll = RollupDelta(p, H, H, from, now + 1, E, Everything)
  OBVIOUS
<1>6. PICK rest : rest = RollupDelta(p, H, M, from, now + 1, D, E)
  OBVIOUS
<1>7. PICK w : Series(p, H, H, from, now + 1) = roll + rest + SumFunctionOnSet(w, X)
  BY <1>1, <1>2, <1>3, <1>4, <1>5, <1>6, PointIsMadeOf
<1>8. /\ \A m \in D : Bucket(m, H) \in E
      /\ p + H <= now /\ \A g \in Ids : CleanHour(g, p)
  BY <1>1, <1>2, <1>3, MarkedHours
<1>9. SumFunctionOnSet(w, X) = 0
  <2>1. X = {}
    BY <1>2, <1>3, <1>4, <1>8 DEF Exposed
  <2> QED BY <2>1, FS_EmptySet, SumFunctionZero
<1>10. rest = 0
  <2>1. \A k \in DOMAIN Table(M) : ~ (Bucket(k[2], H) = p /\ Bucket(k[2], H) \in E)
    BY <1>3
  <2>2. RollupDelta(p, H, M, from, now + 1, D, E) = 0
    BY <2>1, NoneRolledUp
  <2> QED BY <1>6, <2>2
<1>11. PICK K : K = ColumnOf(hour, p)
  OBVIOUS
<1>12. PICK e : e = [k \in K |-> hour[k].delta]
  OBVIOUS
<1>13. /\ IsFiniteSet(K) /\ \A k \in K : e[k] \in Nat
       /\ SumFunctionOnSet(e, K) = CountAt(p + H) - CountAt(p)
  <2>1. \A k \in K : e[k] = hour[k].delta
    BY <1>12
  <2> QED BY <1>8, <1>11, <2>1, CleanHourIsRead
<1>14. Table(H) = hour
  BY <1>1 DEF Table
<1>15. roll = SumFunctionOnSet(e, K)
  <2>1. Bucket(from, H) <= from /\ Bucket(from, H) \in Int
    BY <1>1, BucketStarts
  <2>2. \A h \in Hours : h \in Nat /\ Bucket(h, H) = h
    BY <1>1, BucketOfIs
  <2>3. \A k \in DOMAIN hour :
          (/\ Bucket(from, H) <= k[2] /\ k[2] < now + 1 /\ Bucket(k[2], H) = p
           /\ k[2] \notin E /\ Bucket(k[2], H) \in Everything) <=> k[2] = p
    <3> SUFFICES ASSUME NEW k \in DOMAIN hour
                 PROVE  (/\ Bucket(from, H) <= k[2] /\ k[2] < now + 1 /\ Bucket(k[2], H) = p
                         /\ k[2] \notin E /\ Bucket(k[2], H) \in Everything) <=> k[2] = p
      OBVIOUS
    <3>1. k[2] \in Hours
      BY DEF IInv, Rollups
    <3>2. k[2] \in Nat /\ Bucket(k[2], H) = k[2] /\ Bucket(k[2], H) \in Everything
      BY <2>2, <3>1 DEF Everything
    <3> QED BY <1>1, <1>3, <2>1, <3>2
  <2>4. {k \in DOMAIN Table(H) :
           /\ Bucket(from, H) <= k[2] /\ k[2] < now + 1 /\ Bucket(k[2], H) = p
           /\ k[2] \notin E /\ Bucket(k[2], H) \in Everything} = K
    BY <1>11, <1>14, <2>3 DEF ColumnOf
  <2>5. roll = SumFunction(e)
    BY <1>5, <1>12, <1>14, <2>4 DEF RollupDelta
  <2> QED BY <1>12, <2>5 DEF SumFunction
<1>16. Until(p + H) = p + H
  BY <1>1, <1>8 DEF Until
<1>17. CountAt(p) \in Nat /\ CountAt(p + H) \in Nat
  <2>1. PICK u \in Int : u = p + H /\ p <= u
    BY <1>1
  <2> QED BY <1>1, <2>1, CountsGrow
<1> QED BY <1>7, <1>9, <1>10, <1>13, <1>15, <1>16, <1>17

\* When it is not: read from the columns of its minutes, and from the rows of
\* those that are dirty.
LEMMA MarkedHourPoint ==
  ASSUME IInv, JInv, KInv, NEW from \in Nat, NEW p \in Hours, from <= p, p <= now,
         p \in DirtyHours(from, now + 1, H)
  PROVE  Series(p, H, H, from, now + 1) = CountAt(Until(p + H)) - CountAt(p)
<1>1. /\ now \in Nat /\ H \in Nat /\ H > 0 /\ M \in Nat /\ M > 0 /\ from <= now
      /\ p \in Nat /\ M # H /\ H \in Widths /\ BucketsOf(H) = Hours
  BY UntilIs, Sizes, HourIs DEF Widths, BucketsOf
<1>2. PICK D : D = DirtyMinutes(from, now + 1, H)
  OBVIOUS
<1>3. PICK E : E = DirtyHours(from, now + 1, H) /\ p \in E
  OBVIOUS
<1>4. PICK X : X = Exposed(p, H, from)
  OBVIOUS
<1>5. PICK roll : roll = RollupDelta(p, H, H, from, now + 1, E, Everything)
  OBVIOUS
<1>6. PICK rest : rest = RollupDelta(p, H, M, from, now + 1, D, E)
  OBVIOUS
<1>7. PICK w : /\ \A m \in X : w[m] = CountAt(Until(m + M)) - CountAt(m)
               /\ Series(p, H, H, from, now + 1) = roll + rest + SumFunctionOnSet(w, X)
  BY <1>1, <1>2, <1>3, <1>4, <1>5, <1>6, PointIsMadeOf
<1>8. /\ \A m \in D : m \in Minutes /\ m <= now
      /\ \A m \in Minutes : m <= now /\ m \notin D =>
           m + M <= now /\ \A g \in Ids : <<M, g, m>> \notin dirty
  BY <1>1, <1>2, MarkedMinutes
<1>9. roll = 0
  <2>1. \A h \in Hours : Bucket(h, H) = h
    BY <1>1, BucketOfIs
  <2>2. \A k \in DOMAIN Table(H) : k[2] \in Hours
    BY <1>1 DEF Table, IInv, Rollups
  <2>3. \A k \in DOMAIN Table(H) : ~ (Bucket(k[2], H) = p /\ k[2] \notin E)
    BY <1>3, <2>1, <2>2
  <2>4. RollupDelta(p, H, H, from, now + 1, E, Everything) = 0
    BY <2>3, NoneRolledUp
  <2> QED BY <1>5, <2>4
<1>10. PICK A : A = {m \in Minutes : Bucket(m, H) = p /\ m <= now}
  OBVIOUS
<1>11. PICK C : C = {m \in A : m \notin D}
  OBVIOUS
<1>12. /\ X \subseteq A /\ C \subseteq A /\ X \cup C = A /\ X \cap C = {}
       /\ A \subseteq Minutes /\ C \subseteq Minutes
  BY <1>2, <1>4, <1>8, <1>10, <1>11 DEF Exposed
<1>13. IsFiniteSet(A)
  BY <1>12, MinutesAreFinite, FS_Subset
<1>14. PICK d : d = [m \in A |-> CountAt(Until(m + M)) - CountAt(m)]
  OBVIOUS
<1>15. /\ \A m \in A : d[m] \in Nat
       /\ SumFunctionOnSet(d, A) = CountAt(Until(p + H)) - CountAt(p)
  <2>1. \A m \in A : d[m] = CountAt(Until(m + M)) - CountAt(m)
    BY <1>14
  <2> QED BY <1>10, <2>1, HourAddsUp
<1>16. /\ SumFunctionOnSet(d, A) = SumFunctionOnSet(d, X) + SumFunctionOnSet(d, C)
       /\ SumFunctionOnSet(d, X) \in Nat /\ SumFunctionOnSet(d, C) \in Nat
  <2>1. d \in [A -> Nat] /\ X \in SUBSET A /\ C \in SUBSET A
    BY <1>12, <1>14, <1>15
  <2>2. /\ SumFunctionOnSet(d, X \cup C) = SumFunctionOnSet(d, X) + SumFunctionOnSet(d, C)
        /\ SumFunctionOnSet(d, X) \in Nat /\ SumFunctionOnSet(d, C) \in Nat
    BY <1>12, <1>13, <2>1, SumSplits
  <2> QED BY <1>12, <2>2
<1>17. SumFunctionOnSet(w, X) = SumFunctionOnSet(d, X)
  <2>1. IsFiniteSet(X)
    BY <1>12, <1>13, FS_Subset
  <2>2. \A m \in X : w[m] = d[m]
    BY <1>7, <1>12, <1>14
  <2> QED BY <2>1, <2>2, SumsAgree
<1>18. \A m \in C : m + M <= now /\ \A g \in Ids : <<M, g, m>> \notin dirty
  BY <1>8, <1>10, <1>11
<1>19. \A m \in C : d[m] = CountAt(m + M) - CountAt(m)
  <2> SUFFICES ASSUME NEW m \in C PROVE d[m] = CountAt(m + M) - CountAt(m)
    OBVIOUS
  <2>1. m \in Nat /\ m + M <= now
    BY <1>12, <1>18, MinuteIs
  <2>2. Until(m + M) = m + M
    BY <1>1, <2>1 DEF Until
  <2> QED BY <1>12, <1>14, <2>2
<1>20. PICK Y : Y = ColumnsOf(minute, C)
  OBVIOUS
<1>21. SumFunction([k \in Y |-> minute[k].delta]) = SumFunctionOnSet(d, C)
  <2>1. PICK S \in SUBSET Minutes : S = C
    BY <1>12
  <2>2. \A m \in S : \A g \in Ids : <<M, g, m>> \notin dirty
    BY <1>18, <2>1
  <2>3. \A m \in S : d[m] = CountAt(m + M) - CountAt(m)
    BY <1>19, <2>1
  <2> QED BY <1>20, <2>1, <2>2, <2>3, ColumnsOfMinutes
<1>22. rest = SumFunctionOnSet(d, C)
  <2>1. Bucket(from, M) <= from /\ Bucket(from, M) \in Int
    BY <1>1, BucketStarts
  <2>2. \A k \in DOMAIN minute :
          (/\ Bucket(from, M) <= k[2] /\ k[2] < now + 1 /\ Bucket(k[2], H) = p
           /\ k[2] \notin D /\ Bucket(k[2], H) \in E) <=> k[2] \in C
    <3> SUFFICES ASSUME NEW k \in DOMAIN minute
                 PROVE  (/\ Bucket(from, M) <= k[2] /\ k[2] < now + 1 /\ Bucket(k[2], H) = p
                         /\ k[2] \notin D /\ Bucket(k[2], H) \in E) <=> k[2] \in C
      OBVIOUS
    <3>1. PICK m \in Minutes : m = k[2]
      BY DEF IInv, Rollups
    <3>2. m \in Nat /\ Bucket(m, H) \in Int /\ Bucket(m, H) <= m
      BY <1>1, MinuteIs, BucketStarts
    <3>3. m \in C <=> m \notin D /\ Bucket(m, H) = p /\ m <= now
      BY <1>10, <1>11
    <3>4. Bucket(m, H) = p => Bucket(from, M) <= m
      BY <1>1, <2>1, <3>2
    <3>5. m < now + 1 <=> m <= now
      BY <1>1, <3>2
    <3> QED BY <1>3, <3>1, <3>3, <3>4, <3>5
  <2>3. Table(M) = minute
    BY DEF Table
  <2>4. {k \in DOMAIN Table(M) :
           /\ Bucket(from, M) <= k[2] /\ k[2] < now + 1 /\ Bucket(k[2], H) = p
           /\ k[2] \notin D /\ Bucket(k[2], H) \in E} = Y
    BY <1>20, <2>2, <2>3 DEF ColumnsOf
  <2>5. rest = SumFunction([k \in Y |-> minute[k].delta])
    BY <1>6, <2>3, <2>4 DEF RollupDelta
  <2> QED BY <1>21, <2>5
<1> QED BY <1>7, <1>9, <1>15, <1>16, <1>17, <1>22

\* Each point of a series shows what was counted in it, by all generations.
LEMMA PointIsExact ==
  ASSUME IInv, JInv, KInv, NEW width \in Widths, NEW t \in Int, Start(width) <= t, t <= now,
         NEW p, p = Bucket(t, width)
  PROVE  Series(p, width, width, Start(width), now + 1)
           = SumFunction([g \in Ids |-> Truth(g, p, Min({p + width, now + 1})).delta])
<1>1. PICK from : from = Start(width)
  OBVIOUS
<1>2. p \in BucketsOf(width) /\ from <= p /\ p <= now /\ from \in BucketsOf(width)
  BY <1>1, StartIs, PointIs
<1>3. /\ now \in Nat /\ width \in Nat /\ width > 0 /\ p \in Nat /\ from \in Nat
      /\ Min({p + width, now + 1}) = Until(p + width)
  <2>1. width \in Nat /\ width > 0 /\ p \in Nat /\ from \in Nat
    BY <1>2, BucketOfIs
  <2>2. p + width \in Nat
    BY <2>1
  <2> QED BY <2>1, <2>2, UntilIs
<1>4. PICK q \in Nat : q = Until(p + width) /\ p <= q
  BY <1>2, <1>3 DEF Until
<1>5. Series(p, width, width, from, now + 1) = CountAt(q) - CountAt(p)
  <2>1. CASE width = M
    <3>1. p \in Minutes
      BY <1>2, <2>1 DEF BucketsOf
    <3> QED BY <1>2, <1>3, <1>4, <2>1, <3>1, MinutePoint
  <2>2. CASE width = H
    <3>1. p \in Hours
      BY <1>2, <2>2, Sizes DEF BucketsOf
    <3>2. CASE p \in DirtyHours(from, now + 1, H)
      BY <1>2, <1>3, <1>4, <2>2, <3>1, <3>2, MarkedHourPoint
    <3>3. CASE p \notin DirtyHours(from, now + 1, H)
      BY <1>2, <1>3, <1>4, <2>2, <3>1, <3>3, CleanHourPoint
    <3> QED BY <3>2, <3>3
  <2> QED BY <2>1, <2>2 DEF Widths
<1>6. PICK e : e = [g \in Ids |-> Truth(g, p, q).delta]
  OBVIOUS
<1>7. SumFunctionOnSet(e, Ids) = CountAt(q) - CountAt(p)
  <2>1. \A g \in Ids : e[g] = Diff(History(g), p, q).delta
    BY <1>6 DEF Truth, RowAt, Diff, RowOf
  <2>2. p \in Int /\ q \in Int
    BY <1>3
  <2> QED BY <1>4, <2>1, <2>2, GenerationsAddUp
<1>8. SumFunction(e) = SumFunctionOnSet(e, Ids)
  BY <1>6 DEF SumFunction
<1> QED BY <1>1, <1>3, <1>4, <1>5, <1>6, <1>7, <1>8

\* An interface series shows what was counted in each of its points, once:
\* from where a tier begins on, by minutes and by hours, although any generation
\* may have minutes that are not summed yet, and rows that were deleted
\* (InterfaceSeries).  The proof does not need the bus to be empty.
THEOREM SeriesExact == Spec => []SeriesIsExact
<1>1. IInv /\ JInv /\ KInv => SeriesIsExact
  <2> SUFFICES ASSUME IInv, JInv, KInv, NEW width \in {M, H},
                      NEW p \in {Bucket(t, width) : t \in Start(width) .. now}
               PROVE  Series(p, width, width, Start(width), now + 1)
                        = SumFunction([g \in Ids |-> Truth(g, p, Min({p + width, now + 1})).delta])
    BY DEF SeriesIsExact
  <2>1. PICK t \in Start(width) .. now : p = Bucket(t, width)
    OBVIOUS
  <2> QED BY <2>1, PointIsExact DEF Widths
<1> QED BY <1>1, Inductive, OwnsInductive, ReadsInductive, PTL
=============================================================================
