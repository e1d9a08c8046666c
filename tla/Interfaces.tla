---------------------------- MODULE Interfaces ----------------------------
(***************************************************************************)
(* One interface, from the kernel's counter to the rollups: the collector  *)
(* (internal/ifstats/collector.go) polls the link and publishes resets and *)
(* snapshots, the writer (internal/store/sqlite/events_extra.go) sorts the *)
(* samples into generations, and the maintenance (rollup.go, retention.go) *)
(* turns them into differences and deletes them.                           *)
(*                                                                         *)
(* One counter stands for the fifteen, one number for what identifies a    *)
(* link (boot, index, MAC).  Time is counted in ticks, with at most one    *)
(* poll in each.  Of a generation's end only that it ended is kept, and    *)
(* the rows of interface_resets, which no difference is made from, are     *)
(* left out.  The limits on the rows one sweep or deletion may take are    *)
(* modelled in Rollups.                                                    *)
(***************************************************************************)
EXTENDS Sequences, FiniteSetsExt

CONSTANTS MaxTime,      \* bound: the clock
          MaxTraffic,   \* bound: the counter of a link
          MaxLinks,     \* bound: links the interface has been
          MaxSamples,   \* bound: samples stored
          MaxFaults,    \* bound: crashes, and settings of the clock
          MaxPause,     \* ticks between two samples of one generation
          M, H,         \* a minute and an hour, in ticks
          RawRetention, RawFloor \* when raw rows are deleted, at the latest and soonest

ASSUME BoundAssumption ==
  /\ {MaxTime, MaxTraffic, MaxLinks, MaxSamples, MaxFaults, MaxPause} \subseteq Nat
  /\ MaxLinks > 0
ASSUME UnitAssumption ==
  M \in Nat \ {0} /\ H \in Nat \ {0} /\ H % M = 0 /\ M < H
\* The machine is not stopped, nor its clock set back, for about as long as raw
\* rows are kept: a longer pause loses the difference over it, and behind such a
\* clock a minute is summed again whose rows are deleted.
ASSUME RetentionAssumption ==
  /\ {RawRetention, RawFloor} \subseteq Nat /\ RawFloor <= RawRetention
  /\ MaxPause + M <= RawFloor
  /\ 2 * MaxPause + M - 1 <= RawFloor
  /\ MaxPause + M + MaxFaults - 1 <= RawFloor

VARIABLES now,             \* the wall clock
          link, moved,     \* the link, and all it and its predecessors counted
          polled,          \* the collector has polled in this tick
          previous, missing, \* the collector's maps, of this interface
          queue,           \* events published and not yet stored
          faults,          \* crashes, and times the clock was set back
          generations,     \* interface_generations, by id
          samples, stored, \* interface_samples, and every row there ever was
          minute, hour,    \* interface_rollups: of <<generation, bucket>>
          dirty,           \* dirty_rollups: <<resolution, generation, bucket>>
          sweeping, todo   \* the maintenance, as in Rollups

collector == <<polled, previous, missing>>
tables == <<generations, samples, stored, minute, hour, dirty>>
sweep == <<sweeping, todo>>
vars == <<now, link, moved, collector, queue, faults, tables, sweep>>

NoLink == [identity |-> 0, counter |-> 0]
Bucket(t, width) == t - (t % width)
Minutes == {Bucket(t, M) : t \in 0 .. MaxTime}
Hours == {Bucket(t, H) : t \in 0 .. MaxTime}
Ids == 1 .. Len(generations)
Rows(g) == {s \in samples : s.generation = g}
IsOpen(g) == generations[g].open \* ended_at_us IS NULL
Aggregates == [elapsed : Nat, delta : Nat]
Nothing == [elapsed |-> 0, delta |-> 0]

\* Tables refer to generations there are, rows are never invented, and a sweep
\* works on dirty buckets.
TypeOK ==
  /\ now \in 0 .. MaxTime /\ moved \in Nat
  /\ link \in [identity : 0 .. MaxLinks, counter : 0 .. MaxTraffic]
  /\ previous \in [identity : 0 .. MaxLinks, counter : 0 .. MaxTraffic]
  /\ \A g \in Ids : generations[g] \in [identity : 0 .. MaxLinks, open : BOOLEAN]
  /\ samples \subseteq stored
  /\ \A s \in stored : s.generation \in Ids /\ s.at \in 0 .. MaxTime
  /\ DOMAIN minute \subseteq Ids \X Minutes /\ DOMAIN hour \subseteq Ids \X Hours
  /\ \A k \in DOMAIN minute : minute[k] \in Aggregates
  /\ \A k \in DOMAIN hour : hour[k] \in Aggregates
  /\ dirty \subseteq ({M} \X Ids \X Minutes) \cup ({H} \X Ids \X Hours)
  /\ todo \subseteq dirty /\ (todo # {} => sweeping)

Init ==
  /\ now = 0
  /\ link = [identity |-> 1, counter |-> 0] /\ moved = 0
  /\ polled = FALSE /\ previous = NoLink /\ missing = FALSE
  /\ queue = <<>> /\ faults = 0
  /\ generations = <<>> /\ samples = {} /\ stored = {}
  /\ minute = [k \in {} |-> Nothing] /\ hour = [k \in {} |-> Nothing] /\ dirty = {}
  /\ sweeping = FALSE /\ todo = {}
-----------------------------------------------------------------------------
(* The collector, collect().  The bus keeps the order and loses nothing    *)
(* while the process lives.  A poll shares nothing with a sweep: one made  *)
(* during it is like one after it.                                         *)

Event(kind, l) == [kind |-> kind, identity |-> l.identity, counter |-> l.counter, at |-> now]

\* resetReason.
Differs(old, l) == old.identity # l.identity \/ l.counter < old.counter

\* What a link counted since it was `old`: its counter may have begun again,
\* and another link brings what it counted before.
Counted(old, l) ==
  IF old.identity # l.identity THEN 0
  ELSE IF l.counter < old.counter THEN l.counter ELSE l.counter - old.counter
\* The link is found, as it was or another.
PollPresent ==
  /\ ~polled /\ queue = <<>> /\ ~sweeping /\ Cardinality(stored) < MaxSamples
  /\ \E identity \in {link.identity, link.identity + 1} \cap 0 .. MaxLinks,
        counter \in 0 .. MaxTraffic :
       LET l == [identity |-> identity, counter |-> counter]
       IN  /\ link' = l /\ moved' = moved + Counted(link, l)
           /\ queue' = (IF previous # NoLink /\ Differs(previous, l)
                          THEN <<Event("reset", l)>> ELSE <<>>) \o <<Event("snapshot", l)>>
           /\ previous' = l
  /\ missing' = FALSE /\ polled' = TRUE
  /\ UNCHANGED <<now, faults, tables, sweep>>

\* It is not, which is said once, until it is found again.
PollAbsent ==
  /\ ~polled /\ queue = <<>> /\ ~sweeping /\ ~missing
  /\ queue' = <<Event("reset", previous)>>
  /\ missing' = TRUE /\ previous' = NoLink /\ polled' = TRUE
  /\ UNCHANGED <<now, link, moved, faults, tables, sweep>>
-----------------------------------------------------------------------------
(* insertInterfaceEvent.                                                   *)

LastRow(rows) == CHOOSE s \in rows : \A r \in rows : r.at <= s.at
OpenIds == {g \in Ids : IsOpen(g)}
Close(S) == [g \in Ids |-> [generations[g] EXCEPT !.open = @ /\ g \notin S]]
MinuteOf(g, at) == <<M, g, Bucket(at, M)>>
Take == queue # <<>> /\ ~sweeping /\ queue' = Tail(queue)

\* Of the generations it ends, one is marked dirty.
StoreReset ==
  /\ Take /\ Head(queue).kind = "reset"
  /\ generations' = Close(OpenIds)
  /\ IF OpenIds = {} THEN UNCHANGED dirty
     ELSE \E g \in OpenIds : dirty' = dirty \cup {MinuteOf(g, Head(queue).at)}
  /\ UNCHANGED <<now, link, moved, collector, faults, samples, stored, minute, hour, sweep>>

\* ensureInterfaceGeneration: whether the sample goes on with a generation.
GoesOn_Identity(g, e) == \* fault: the last row is not looked at
  IsOpen(g) /\ generations[g].identity = e.identity
GoesOn_Row(g, e) == \* fault: only the last row is
  /\ IsOpen(g)
  /\ Rows(g) # {} => /\ e.counter >= LastRow(Rows(g)).counter
                     /\ e.at > LastRow(Rows(g)).at
GoesOn(g, e) ==
  /\ IsOpen(g) /\ generations[g].identity = e.identity
  /\ Rows(g) # {} => /\ e.counter >= LastRow(Rows(g)).counter
                     /\ e.at > LastRow(Rows(g)).at
StoreSnapshot ==
  /\ Take /\ Head(queue).kind = "snapshot"
  /\ LET e == Head(queue)
         same == {g \in Ids : GoesOn(g, e)}
         id == IF same = {} THEN Len(generations) + 1 ELSE Max(same)
         ended == IF same = {} THEN OpenIds ELSE {}
         row == [generation |-> id, at |-> e.at, counter |-> e.counter]
     IN  /\ generations' = Close(ended) \o
              (IF same = {} THEN <<[identity |-> e.identity, open |-> TRUE]>> ELSE <<>>)
         /\ samples' = samples \cup {row} /\ stored' = stored \cup {row}
         /\ dirty' = dirty \cup {MinuteOf(g, e.at) : g \in ended \cup {id}}
  /\ UNCHANGED <<now, link, moved, collector, faults, minute, hour, sweep>>
-----------------------------------------------------------------------------
(* recomputeDirty.                                                         *)

MinuteDue(g, m) ==
  m + M <= now /\ (~IsOpen(g) \/ \E s \in Rows(g) : s.at >= m + M)
HourDue(g, h) ==
  h + H <= now /\ ~ \E m \in Minutes : Bucket(m, H) = h /\ <<M, g, m>> \in dirty
Due_All == {<<M, g, m>> : g \in Ids, m \in {b \in Minutes : b + M <= now}} \* fault
Due == {d \in dirty : IF d[1] = M THEN MinuteDue(d[2], d[3]) ELSE HourDue(d[2], d[3])}

\* loadInterfaceRows: those of the minute, and the one before it.
LoadRows_Within(g, m) == {s \in Rows(g) : m <= s.at /\ s.at < m + M} \* fault: no baseline
LoadRows(g, m) ==
  LET before == {s \in Rows(g) : s.at < m}
  IN  {s \in Rows(g) : m <= s.at /\ s.at < m + M}
        \cup (IF before = {} THEN {} ELSE {LastRow(before)})
FirstRow(rows) == CHOOSE s \in rows : \A r \in rows : s.at <= r.at
\* aggregateInterfaceRows: the differences from row to row add up to that of
\* the last and the first.  It refuses rows that are out of order.
AggregateRows(rows) ==
  IF rows = {} THEN Nothing
  ELSE [elapsed |-> LastRow(rows).at - FirstRow(rows).at,
        delta |-> LastRow(rows).counter - FirstRow(rows).counter]
With(table, k, row) == [x \in DOMAIN table \cup {k} |-> IF x = k THEN row ELSE table[x]]

\* The keys are taken by kind, resolution and bucket.
Foremost(d) == d \in todo /\ \A e \in todo : d[1] < e[1] \/ (d[1] = e[1] /\ d[3] <= e[3])
RecomputeMinute(g, m) ==
  /\ sweeping /\ Foremost(<<M, g, m>>)
  /\ todo' = todo \ {<<M, g, m>>}
  /\ minute' = With(minute, <<g, m>>, AggregateRows(LoadRows(g, m)))
  /\ dirty' = (dirty \ {<<M, g, m>>}) \cup {<<H, g, Bucket(m, H)>>}
  /\ UNCHANGED <<now, link, moved, collector, queue, faults,
                 generations, samples, stored, hour, sweeping>>

RecomputeHour(g, h) ==
  /\ sweeping /\ Foremost(<<H, g, h>>)
  /\ todo' = todo \ {<<H, g, h>>}
  /\ LET parts == {k \in DOMAIN minute : k[1] = g /\ h <= k[2] /\ k[2] < h + H}
     IN  hour' = With(hour, <<g, h>>,
                      [elapsed |-> SumFunction([k \in parts |-> minute[k].elapsed]),
                       delta |-> SumFunction([k \in parts |-> minute[k].delta])])
  /\ dirty' = dirty \ {<<H, g, h>>}
  /\ UNCHANGED <<now, link, moved, collector, queue, faults,
                 generations, samples, stored, minute, sweeping>>
-----------------------------------------------------------------------------
(* prune, and emergencyPruneStage while the storage is over its budget.    *)
(* Minutes and hours are deleted by the same statements as those of pings, *)
(* which Rollups models.                                                   *)

RawVictims(retention) ==
  {s \in samples : /\ s.at < Bucket(now - retention, M)
                   /\ <<s.generation, Bucket(s.at, M)>> \in DOMAIN minute
                   /\ MinuteOf(s.generation, s.at) \notin dirty}
Prune ==
  /\ sweeping /\ todo = {} /\ sweeping' = FALSE
  /\ \E retention \in {RawRetention, RawFloor} : samples' = samples \ RawVictims(retention)
  /\ UNCHANGED <<now, link, moved, collector, queue, faults,
                 generations, stored, minute, hour, dirty, todo>>
\* A sweep with nothing to do is left out.
StartSweep ==
  /\ ~sweeping /\ sweeping' = TRUE /\ todo' = Due
  /\ Due # {} \/ RawVictims(RawFloor) # {}
  /\ UNCHANGED <<now, link, moved, collector, queue, faults, tables>>
-----------------------------------------------------------------------------
\* The process ends and starts again: what it has not stored is lost, and it
\* knows of no link.
Crash ==
  /\ faults < MaxFaults /\ faults' = faults + 1
  /\ queue' = <<>> /\ polled' = FALSE /\ previous' = NoLink /\ missing' = FALSE
  /\ sweeping' = FALSE /\ todo' = {}
  /\ UNCHANGED <<now, link, moved, tables>>

Tick ==
  /\ ~sweeping /\ queue = <<>> /\ now < MaxTime /\ now' = now + 1 /\ polled' = FALSE
  /\ \A g \in OpenIds : \E s \in stored : s.generation = g /\ now < s.at + MaxPause
  /\ UNCHANGED <<link, moved, previous, missing, queue, faults, tables, sweep>>

\* Somebody sets the clock back.
SetBack ==
  /\ ~sweeping /\ queue = <<>> /\ now > 0
  /\ faults < MaxFaults /\ faults' = faults + 1
  /\ now' = now - 1 /\ polled' = FALSE
  /\ UNCHANGED <<link, moved, previous, missing, queue, tables, sweep>>

Poll == PollPresent \/ PollAbsent
Store == StoreReset \/ StoreSnapshot
Maintain ==
  \/ StartSweep \/ Prune
  \/ \E g \in Ids, m \in Minutes : RecomputeMinute(g, m)
  \/ \E g \in Ids, h \in Hours : RecomputeHour(g, h)
Next == Poll \/ Store \/ Maintain \/ Crash \/ Tick \/ SetBack

Spec == Init /\ [][Next]_vars
-----------------------------------------------------------------------------
History(g) == {s \in stored : s.generation = g}
\* The row a difference up to t is taken from: the last one before t, or the
\* first of all when there is none.
RowAt(g, t) ==
  LET before == {s \in History(g) : s.at < t}
  IN  IF before = {} THEN FirstRow(History(g)) ELSE LastRow(before)
Truth(g, from, to) ==
  [elapsed |-> RowAt(g, to).at - RowAt(g, from).at,
   delta |-> RowAt(g, to).counter - RowAt(g, from).counter]

\* A generation is the samples of one link in order: one of them is open at a
\* time, and neither time nor counter goes back in one, so that
\* aggregateInterfaceRows never ends the daemon with an error (rollup.go:203).
GenerationsAreOrdered ==
  /\ Cardinality(OpenIds) <= 1
  /\ \A s, t \in stored :
       s.generation = t.generation =>
         (s.at < t.at => s.counter <= t.counter) /\ (s.at = t.at => s = t)

\* What the generations say was transferred never exceeds what the links
\* counted: no difference is taken over a reset, a restart or a replacement
\* ("without ever deriving a cross-generation delta",
\* docs/implementation-plan.md:351).
NoInventedTraffic ==
  SumFunction([g \in Ids |-> Truth(g, 0, MaxTime + 1).delta]) <= moved

\* Every sample is of a minute that is summed or going to be, and a clean minute
\* or hour holds the differences up to each of its samples, the one over its
\* start included, although rows it was made from are deleted (rollup.go:159,
\* retention.go:43).
DifferencesAreOwned ==
  /\ \A s \in stored : \/ MinuteOf(s.generation, s.at) \in dirty
                       \/ <<s.generation, Bucket(s.at, M)>> \in DOMAIN minute
  /\ \A k \in DOMAIN minute :
       <<M, k[1], k[2]>> \notin dirty => minute[k] = Truth(k[1], k[2], k[2] + M)
  /\ \A k \in DOMAIN hour :
       (<<H, k[1], k[2]>> \notin dirty /\ \A m \in Minutes : Bucket(m, H) = k[2] =>
           <<M, k[1], m>> \notin dirty) => hour[k] = Truth(k[1], k[2], k[2] + H)
=============================================================================
