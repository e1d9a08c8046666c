------------------------------ MODULE Rollups ------------------------------
(***************************************************************************)
(* internal/store/sqlite/rollup.go and retention.go for one ping target:   *)
(* raw rows are summed into minutes, minutes into hours, and each tier is  *)
(* deleted once the next one stands for it.  The goroutine that stores     *)
(* events also runs this maintenance; each bucket and each deletion is a   *)
(* transaction of its own, which a reader or a crash may fall between.     *)
(*                                                                         *)
(* Time is counted in ticks; a slot is the tick a probe was scheduled for. *)
(* Round-trip times and histograms are left out: they are summed with the  *)
(* counts.  History: `sample` and `gapLog` keep what was deleted.          *)
(***************************************************************************)
EXTENDS Integers, FiniteSetsExt

CONSTANTS MaxTime,    \* bound: the clock
          MaxSamples, \* bound: probes stored
          MaxGaps,    \* bound: scheduler gaps stored
          MaxMissed,  \* bound: slots of one gap
          MaxSlot,    \* bound: the last slot that is recorded
          M, H,       \* a minute and an hour, in ticks
          Steps,      \* intervals a gap may be recorded at
          Timeout,    \* of the target
          MaxLag,     \* ticks from a slot to the row it makes
          MaxWait,    \* ticks from a probe to the last reply it gets
          Sleep,      \* how long the machine may be suspended, 0 for never
          RawRetention, MinuteRetention, HourRetention, \* the configuration
          RawFloor, Month, \* of the emergency stages
          Quota,      \* buckets of one tier recomputed in a sweep
          PruneBatch  \* pruneBatch: rows one deletion may take

ASSUME UnitAssumption == M \in Nat \ {0} /\ H \in Nat \ {0} /\ H % M = 0 /\ M < H
ASSUME BoundAssumption ==
  /\ {MaxTime, MaxSlot, MaxSamples, MaxGaps, MaxMissed, Timeout, MaxLag,
      MaxWait, Sleep, Quota, PruneBatch} \subseteq Nat
  /\ Steps \subseteq Nat \ {0}
\* config.go: what the validation of the configuration guarantees.
ASSUME RetentionAssumption ==
  /\ {RawRetention, MinuteRetention, HourRetention, RawFloor, Month} \subseteq Nat
  /\ RawFloor >= Timeout + M /\ RawFloor <= RawRetention
  /\ RawRetention <= MinuteRetention /\ MinuteRetention <= HourRetention
  /\ RawFloor <= Month /\ Month <= MinuteRetention
\* Observations reach the tables before their raw rows may be deleted, although
\* the machine was suspended meanwhile.
ASSUME LagAssumption ==
  /\ {MaxLag, MaxWait, Timeout} \subseteq 0 .. RawFloor - Sleep
  /\ \A step \in Steps : MaxLag + MaxMissed * step + Sleep <= RawFloor

VARIABLES now,     \* the wall clock
          skew,    \* by how much the scheduler's slots lag behind it
          sample,  \* ping_samples, with the rows deleted since
          raw,     \* slots whose row is in ping_samples
          gapLog,  \* every gap stored
          gaps,    \* scheduler_gaps
          minute, hour, \* ping_rollups of either resolution
          dirty,   \* dirty_rollups: <<resolution, bucket>>
          mode,    \* "maintenance", "recovery" from a full disk, or "idle"
          todo,    \* buckets the maintenance has still to recompute
          stage    \* the deletion done last, 0 before

history == <<sample, gapLog>>
tables == <<raw, gaps, minute, hour, dirty>>
sweep == <<mode, todo, stage>>
sweeping == mode # "idle"
vars == <<now, skew, history, tables, sweep>>

Slots == 0 .. MaxTime
Bucket(t, width) == t - (t % width)
Minutes == {Bucket(t, M) : t \in Slots}
Hours == {Bucket(t, H) : t \in Slots}
NoSample == [outcome |-> "none", sent |-> 0]
Outcomes == {"pending", "sendError", "onTime", "late"}
Missed(g) == {g.first + k * g.step : k \in 0 .. g.count - 1}
Last(g) == g.first + (g.count - 1) * g.step
MissedBy(G) == UNION {Missed(g) : g \in G}
Used == {s \in Slots : sample[s] # NoSample} \cup MissedBy(gapLog)
Gaps == [first : Slots, step : Steps, count : 1 .. MaxMissed]

\* What a bucket holds of each kind of slot (pingAggregate).
Fields == {"sent", "sendError", "onTime", "late", "unanswered", "schedulerMissed"}
Zero == [f \in Fields |-> 0]
Plus(a, b) == [f \in Fields |-> a[f] + b[f]]
Total(S, table) == FoldSet(LAMBDA b, sum : Plus(table[b], sum), Zero, S)
\* Of the rows S of which those in `given` count as never answered.
Tally(S, given, missed) ==
  [sent |-> Cardinality({s \in S : sample[s].outcome # "sendError"}),
   sendError |-> Cardinality({s \in S : sample[s].outcome = "sendError"}),
   onTime |-> Cardinality({s \in S : sample[s].outcome = "onTime"}),
   late |-> Cardinality({s \in S : sample[s].outcome = "late"}),
   unanswered |-> Cardinality({s \in given : sample[s].outcome = "pending"}),
   schedulerMissed |-> missed]

\* Only slots that were used have rows, a rollup is a sum of slots, and a
\* sweep only works on dirty buckets.
TypeOK ==
  /\ now \in Slots /\ skew \in {0, Sleep}
  /\ \A s \in Slots : \/ sample[s] = NoSample
                      \/ sample[s].outcome \in Outcomes /\ sample[s].sent \in s .. now
  /\ raw \subseteq {s \in Slots : sample[s] # NoSample}
  /\ gapLog \subseteq Gaps /\ gaps \subseteq gapLog
  /\ DOMAIN minute \subseteq Minutes /\ DOMAIN hour \subseteq Hours
  /\ \A m \in DOMAIN minute : minute[m] \in [Fields -> Nat]
  /\ \A h \in DOMAIN hour : hour[h] \in [Fields -> Nat]
  /\ dirty \subseteq ({M} \X Minutes) \cup ({H} \X Hours)
  /\ mode \in {"idle", "maintenance", "recovery"} /\ stage \in 0 .. 8
  /\ todo \subseteq dirty
  /\ todo # {} => mode = "maintenance" /\ stage = 0

Init ==
  /\ now = 0 /\ skew = 0
  /\ sample = [s \in Slots |-> NoSample] /\ raw = {}
  /\ gapLog = {} /\ gaps = {}
  /\ minute = [m \in {} |-> Zero] /\ hour = [h \in {} |-> Zero] /\ dirty = {}
  /\ mode = "idle" /\ todo = {} /\ stage = 0
-----------------------------------------------------------------------------
(* Events as the writer stores them.                                       *)

MinuteOf(s) == <<M, Bucket(s, M)>>
\* A slot is recorded when it is past, and no later than MaxLag after that.
Recent(at) == at <= now /\ now <= at + MaxLag

\* insertProbe.
InsertProbe(s) ==
  /\ ~sweeping
  /\ s \notin Used /\ Recent(s + skew) /\ s <= MaxSlot
  /\ Cardinality({t \in Slots : sample[t] # NoSample}) < MaxSamples
  /\ \E outcome \in {"pending", "sendError"} :
       sample' = [sample EXCEPT ![s] = [outcome |-> outcome, sent |-> s + skew]]
  /\ raw' = raw \cup {s}
  /\ dirty' = dirty \cup {MinuteOf(s)}
  /\ UNCHANGED <<now, skew, gapLog, gaps, minute, hour, sweep>>

\* applyReply, of the first reply to a row that is there: its minute is dirty
\* even when it was summed before.
AttachReply(s) ==
  /\ ~sweeping
  /\ s \in raw /\ sample[s].outcome = "pending"
  /\ \E at \in sample[s].sent .. now :
       /\ now <= sample[s].sent + MaxWait
       /\ sample' = [sample EXCEPT ![s].outcome =
                       IF at <= sample[s].sent + Timeout THEN "onTime" ELSE "late"]
  /\ dirty' = dirty \cup {MinuteOf(s)}
  /\ UNCHANGED <<now, skew, gapLog, raw, gaps, minute, hour, sweep>>

\* The minutes from the first slot missed to the last.
Span_First(g) == {Bucket(g.first, M)} \* fault: only the first of them
Span(g) == {m \in Minutes : Bucket(g.first, M) <= m /\ m <= Bucket(Last(g), M)}
\* insertGap, which makes all of them dirty.
InsertGap(g) ==
  /\ ~sweeping
  /\ Cardinality(gapLog) < MaxGaps
  /\ Missed(g) \cap Used = {}
  /\ Recent(Last(g) + skew) /\ Last(g) <= MaxSlot
  /\ gapLog' = gapLog \cup {g} /\ gaps' = gaps \cup {g}
  /\ dirty' = dirty \cup {<<M, m>> : m \in Span(g)}
  /\ UNCHANGED <<now, skew, sample, raw, minute, hour, sweep>>

\* A sweep is short against a tick.
Tick ==
  /\ ~sweeping /\ now < MaxTime /\ now' = now + 1
  /\ UNCHANGED <<skew, history, tables, sweep>>

\* The machine sleeps: the wall clock jumps, the slots of the scheduler, which
\* follow the monotonic clock, do not.
Suspend ==
  /\ ~sweeping /\ skew = 0 /\ Sleep > 0 /\ now + Sleep <= MaxTime
  /\ skew' = Sleep /\ now' = now + Sleep
  /\ UNCHANGED <<history, tables, sweep>>
-----------------------------------------------------------------------------
(* recomputeDirty.                                                         *)

\* Probes of the minute whose deadline has not passed.
Awaited(m) == {s \in raw : /\ Bucket(s, M) = m /\ sample[s].outcome = "pending"
                               /\ sample[s].sent + Timeout > now}
MinuteEligible_Answered(m) == \* fault: waits for a reply, not for its deadline
  m + M <= now /\ ~ \E s \in raw : Bucket(s, M) = m /\ sample[s].outcome = "pending"
MinuteEligible(m) == m + M <= now /\ Awaited(m) = {}
HourEligible(h) ==
  h + H <= now /\ ~ \E m \in Minutes : Bucket(m, H) = h /\ <<M, m>> \in dirty
Oldest(S, n) == {b \in S : Cardinality({c \in S : c < b}) < n}

Due_All == {M} \X {m \in Minutes : MinuteEligible(m)} \* fault: clean ones too
Due ==
  ({M} \X Oldest({m \in Minutes : <<M, m>> \in dirty /\ MinuteEligible(m)}, Quota))
    \cup ({H} \X Oldest({h \in Hours : <<H, h>> \in dirty /\ HourEligible(h)}, Quota))
\* The k with from <= first + k * period < to, counted as the code counts them;
\* it is only called with first < to.
CountPeriodic(g, from, to) ==
  LET low == IF from > g.first THEN (from - g.first + g.step - 1) \div g.step ELSE 0
      above == (to - 1 - g.first) \div g.step
      high == IF above >= g.count THEN g.count - 1 ELSE above
  IN  IF from >= to \/ high < low THEN 0 ELSE high - low + 1
Overlapping(from, to) == {g \in gaps : g.first < to /\ Last(g) >= from}
MissedIn(from, to) ==
  MapThenSumSet(LAMBDA g : CountPeriodic(g, from, to), Overlapping(from, to))

AggregateRawMinute(m) ==
  LET rows == {s \in raw : Bucket(s, M) = m}
  IN  Tally(rows, rows, MissedIn(m, m + M))
\* A table with one row more.
With(table, b, row) == [x \in DOMAIN table \cup {b} |-> IF x = b THEN row ELSE table[x]]
Foremost(k) == k \in todo /\ \A l \in todo : k[1] < l[1] \/ (k[1] = l[1] /\ k[2] <= l[2])

\* recomputePingMinute and its transaction, which makes the hour dirty.
RecomputePingMinute(m) ==
  /\ sweeping /\ Foremost(<<M, m>>)
  /\ minute' = With(minute, m, AggregateRawMinute(m))
  /\ dirty' = (dirty \ {<<M, m>>}) \cup {<<H, Bucket(m, H)>>}
  /\ todo' = todo \ {<<M, m>>}
  /\ UNCHANGED <<now, skew, history, raw, gaps, hour, mode, stage>>

MinutesOf(h) == {m \in DOMAIN minute : h <= m /\ m < h + H}
\* recomputePingHour, which looks for dirty minutes once more.
RecomputePingHour(h) ==
  /\ sweeping /\ Foremost(<<H, h>>)
  /\ IF HourEligible(h)
       THEN /\ hour' = With(hour, h, Total(MinutesOf(h), minute))
            /\ dirty' = dirty \ {<<H, h>>}
       ELSE UNCHANGED <<hour, dirty>>
  /\ todo' = todo \ {<<H, h>>}
  /\ UNCHANGED <<now, skew, history, raw, gaps, minute, mode, stage>>
-----------------------------------------------------------------------------
(* prune and emergencyPruneStage: four deletions, and while the storage is  *)
(* over its budget four more, each at most PruneBatch rows; a deletion that *)
(* finds nothing is passed over.                                            *)

Ago(retention, width) == Bucket(now - retention, width)
Emergency(i) == i > 4
RawCutoff(i) == Ago(IF Emergency(i) THEN RawFloor ELSE RawRetention, M)
MinuteCutoff(i) == Ago(IF Emergency(i) THEN Month ELSE MinuteRetention, H)
HourCutoff(i) == Ago(IF Emergency(i) THEN Month ELSE HourRetention, H)

RawVictims(i) ==
  Oldest({s \in raw : /\ s < RawCutoff(i) /\ sample[s].sent < RawCutoff(i)
                      /\ Bucket(s, M) \in DOMAIN minute
                      /\ MinuteOf(s) \notin dirty}, PruneBatch)
GapVictims(i) ==
  LET over == {g \in gaps : /\ Last(g) < RawCutoff(i)
                            /\ \A m \in Span(g) : <<M, m>> \notin dirty}
  IN  {g \in over : Cardinality({f \in over : Last(f) < Last(g)}) < PruneBatch}
MinuteVictims_Unmarked(i) == \* fault: whether the hour is dirty does not matter
  Oldest({m \in DOMAIN minute : m < MinuteCutoff(i) /\ Bucket(m, H) \in DOMAIN hour}, PruneBatch)
MinuteVictims(i) ==
  Oldest({m \in DOMAIN minute : /\ m < MinuteCutoff(i)
                                /\ Bucket(m, H) \in DOMAIN hour
                                /\ <<H, Bucket(m, H)>> \notin dirty}, PruneBatch)
HourVictims(i) == Oldest({h \in DOMAIN hour : h < HourCutoff(i)}, PruneBatch)
Victims(i) ==
  CASE i \in {1, 5} -> RawVictims(i)
    [] i \in {2, 6} -> GapVictims(i)
    [] i \in {3, 7} -> MinuteVictims(i)
    [] i \in {4, 8} -> HourVictims(i)

Without(table, S) == [b \in DOMAIN table \ S |-> table[b]]
\* The maintenance ends with an emergency stage that took a whole batch.
TookBatch(i) ==
  mode = "maintenance" /\ Emergency(i) /\ Cardinality(Victims(i)) >= PruneBatch
\* stage is the deletion done last; i is the next one that finds a row.
Delete(i) ==
  /\ sweeping /\ todo = {}
  /\ i > stage /\ \A j \in stage + 1 .. i - 1 : Victims(j) = {}
  /\ Victims(i) # {}
  /\ raw' = IF i \in {1, 5} THEN raw \ Victims(i) ELSE raw
  /\ gaps' = IF i \in {2, 6} THEN gaps \ Victims(i) ELSE gaps
  /\ minute' = IF i \in {3, 7} THEN Without(minute, Victims(i)) ELSE minute
  /\ hour' = IF i \in {4, 8} THEN Without(hour, Victims(i)) ELSE hour
  /\ IF TookBatch(i) THEN mode' = "idle" /\ stage' = 0 ELSE stage' = i /\ UNCHANGED mode
  /\ UNCHANGED <<now, skew, history, dirty, todo>>

\* The keys of a sweep are chosen before the first of them is recomputed; a
\* sweep with nothing to do is left out.
StartSweep ==
  /\ ~sweeping
  /\ todo' = Due
  /\ Due # {} \/ \E i \in 1 .. 8 : Victims(i) # {}
  /\ mode' = "maintenance"
  /\ UNCHANGED <<now, skew, history, tables, stage>>

\* recoverFullOnce: a batch finds the disk full, and the emergency stages run at
\* once, until the batch fits.
RecoverFull ==
  /\ ~sweeping
  /\ \E i \in 5 .. 8 : Victims(i) # {}
  /\ mode' = "recovery" /\ stage' = 4
  /\ UNCHANGED <<now, skew, history, tables, todo>>

\* What a sweep does before it may end: the emergency stages end as soon as the
\* budget is kept or the batch fits, the others when they find nothing.
WorkLeft == todo # {} \/ \E j \in stage + 1 .. 4 : Victims(j) # {}
EndSweep ==
  /\ sweeping /\ ~WorkLeft
  /\ mode' = "idle" /\ stage' = 0
  /\ UNCHANGED <<now, skew, history, tables, todo>>

\* The process ends in the middle of a sweep and starts again.  With no work
\* left, and so in every recovery, that is the same step as the end of the sweep.
Crash ==
  /\ sweeping /\ WorkLeft
  /\ mode' = "idle" /\ stage' = 0 /\ todo' = {}
  /\ UNCHANGED <<now, skew, history, tables>>

Maintain ==
  \/ StartSweep
  \/ \E m \in Minutes : RecomputePingMinute(m)
  \/ \E h \in Hours : RecomputePingHour(h)
  \/ \E i \in 1 .. 8 : Delete(i)
  \/ EndSweep

Next ==
  \/ \E s \in Slots : InsertProbe(s) \/ AttachReply(s)
  \/ \E g \in Gaps : InsertGap(g)
  \/ Tick \/ Suspend \/ Maintain \/ RecoverFull \/ Crash

Spec == Init /\ [][Next]_vars
\* Maintenance runs for ever; nothing else has to happen but that time passes.
FairSpec == Spec /\ WF_vars(Maintain) /\ WF_vars(Tick)
-----------------------------------------------------------------------------
(* What the tables must say.                                               *)

\* Everything ever observed of the slots in [from, to).
Truth(from, to) ==
  LET rows == {s \in Slots : from <= s /\ s < to /\ sample[s] # NoSample}
  IN  Tally(rows, rows, Cardinality(MissedBy(gapLog) \cap (from .. to - 1)))
Clean(width, b) == <<width, b>> \notin dirty

\* A minute that is summed and not dirty holds all that was ever observed in
\* it, replies that came after it was summed and rows deleted since included
\* (rollup.go:330, retention.go:29).
MinuteIsExact ==
  \A m \in DOMAIN minute : Clean(M, m) => minute[m] = Truth(m, m + M)

\* An hour that is summed, and neither dirty nor over a dirty minute, holds all
\* that was ever observed in it, although its minutes may be gone (rollup.go:443).
HourIsExact ==
  \A h \in DOMAIN hour :
    (Clean(H, h) /\ \A m \in Minutes : Bucket(m, H) = h => Clean(M, m))
      => hour[h] = Truth(h, h + H)

\* Not more minutes are due than one sweep recomputes.
KeepsUp ==
  Cardinality({m \in Minutes : <<M, m>> \in dirty /\ MinuteEligible(m)}) <= Quota

\* Hours hold what was observed in them as long as minutes are only deleted after
\* the dirty ones were recomputed (writer.go:390): the maintenance keeps up, and no
\* batch finds the disk full.
HoursAreExact == [](KeepsUp /\ mode # "recovery") => []HourIsExact

\* So each tier stands for what was observed, and what it replaces may go.
RollupsAreExact == []MinuteIsExact /\ HoursAreExact

\* Every minute that is past, and the hour over it, is summed for good, however
\* often a late reply or gap made it dirty again and however often sweeps end and
\* begin (rollup.go:27): unless the process dies for ever with work left in a
\* sweep, or batches find the disk full for ever, for then the writer only
\* recovers, and its maintenance does not run (writer.go:97).
EverythingIsSummed ==
  <>[][~Crash /\ ~RecoverFull]_vars =>
    /\ \A m \in Minutes : m + M + Timeout <= MaxTime => <>[]Clean(M, m)
    /\ \A h \in Hours : h + H + Timeout <= MaxTime => <>[]Clean(H, h)
=============================================================================
