# Flameping in TLA+

Flameping is a daemon that pings a set of targets on a fixed cadence, keeps
every measurement in one SQLite file and serves graphs from it. Its promise is
that of a measuring instrument: *every slot that came due is accounted for* —
as a probe, as a send error or as part of a recorded gap — whatever blocks,
fails or is shut down on the way. The modules here model the concurrent path
from the scheduler to the writer, the incident controller beside it, the tables the
measurements are summed into and what is read back from them, and traceroutes;
the theorems prove what the path, the controller, the tables, their answers and the
stored routes rest on.

Sources are named relative to `src/internal/`.

## 1. Inventory

| part | state it keeps | operations | what is hard | what makes it correct |
|---|---|---|---|---|
| event bus `eventbus/` | `slots`, `queue`, `closed`, `depth` | Reserve, Publish, Cancel, Next, Close, Depth | selects with several ready cases; Close between two looks; depth counted beside the channel | no slot leaks, the holder of a reservation never waits, order per producer, nothing stranded at Close |
| scheduler `scheduler/` | heap of deadlines, pending gaps, requested cadences, wake token, timer | Run (submitDue, applyUpdates, flushGaps), UpdateInterval | time passes during a pass; cadence changes race with slots and gaps; cancellation anywhere | each due slot handed over once, no burst, gaps contiguous under one cadence, never late |
| echo engine `echo/engine.go` | two job queues, gaps channel, `current` endpoints, `inputsClosed`, `inputMu` | TrySubmit, RecordGap, Run, sendLoop, receiveLoop, UpdateEndpoint, DrainInputs, Close | endpoint changes under a queued job; sockets fail with jobs queued; drain against locks and full channels | every slot in one place, the right family, reservations returned, drain complete, shutdown ends |
| obsess controller `obsess/` | per target: mode, open probes, results in slot order, history, incident; heap of deadlines; one timer | BeginProbe, CompleteProbe, ObserveReply, ObserveGap, UpdateEndpoint, Run | replies before completion; results out of order; capacity shared by targets; one timer for all deadlines | deadlines enforced, recovery earned, baseline clean, limit kept, cadence follows mode |
| lifecycle `app/app.go` | contexts, wait groups, stage of the shutdown | Run, refreshDNS | order of cancel, drain, close; timers; pause on storage pressure | shutdown ends; accepted work is stored |
| storage writer `store/sqlite/writer.go` | batch, replies kept before their row, `prunedThrough`, `ready` | RunWriter, applyBatch, recovery on a full disk, maintenance | a batch applied twice; kept replies that expire | each event stored once; no reply disappears; a batch is stored when there is room |
| rollups `store/sqlite/rollup.go` | dirty buckets, minute and hour rows | recomputeDirty for pings and interfaces | late replies against sums already made; crashes between transactions; a clock that jumps | a clean bucket holds all that was ever observed in it; every bucket is summed in the end |
| retention `store/sqlite/retention.go` | the rows there are | prune, emergencyPruneStage | deletion against recomputation and against references | nothing goes that its bucket does not stand for, or that something refers to |
| queries `store/sqlite/{query,overview}.go` | — | PingSeries, InterfaceSeries, the overview | dirty, unfinished and partly deleted tiers mixed in one answer | every observation is counted once in any state a reader may see |
| interface collector `ifstats/` and generations `events_extra.go` | previous link by name, missing names; open generation per interface | collect, insertInterfaceEvent | a reset without its snapshot; restarts, counters and clocks that go back | neither time nor a counter goes back in a generation; no traffic is invented; differences are summed once |
| trace engine, runner `trace/` | endpoint per target, a lock per family; probes waiting for answers | Run, Trace, traceOnce | answers late, lost, out of order or to an earlier trace; endpoint changes during a wait | what is said of a hop was said of it; the hop reached is the nearest |
| route confirmation `events_extra.go` | the baseline and the candidate of each target | insertTrace, updateRouteCandidate | other flows, failures and retention between two traces | a change is two equal traces in a row, and every such pair is the baseline |
| histogram, resolver, target registry, migrations, route history, HTTP API, configuration, CLI, web UI | — | — | sequential or pure I/O | — |

How they interact: `scheduler --TrySubmit/RecordGap--> echo engine --Publish-->
event bus --Next--> writer`. The trace engine, the interface collector and
`refreshDNS` also publish on the bus. The engine calls the obsess controller's
hooks under its own locks; the controller calls `scheduler.UpdateInterval`.
`app.Run` starts all of them and takes them down in a fixed order.

## 2. Modules

| module | models | proved about in |
|---|---|---|
| `LosslessStream` | what the bus promises: a bounded stream of accepted events | (refined by `EventBus`) |
| `EventBus` | `eventbus/eventbus.go` | `StorageProofs` |
| `Scheduler`, `MCScheduler` | `scheduler/scheduler.go` | `SchedulerProofs` |
| `EchoEngine`, `MCEchoEngine` | `echo/engine.go` and the shutdown in `app/app.go:250-350` | `EchoEngineProofs` |
| `Obsess` | `obsess/controller.go` | `ObsessProofs` |
| `Writer` | `store/sqlite/writer.go` and the deletion of raw rows in `retention.go` | `WriterProofs` |
| `Rollups` | ping rows, gaps, minutes and hours: `rollup.go`, `retention.go`, what `writer.go` inserts | `StorageProofs` |
| `PingReads`, extends `Rollups` | the series of pings in `query.go`, the pings of `overview.go` | `StorageProofs` |
| `Interfaces` | `ifstats/collector.go`, interface generations in `events_extra.go`, their rows in `rollup.go` and `retention.go` | `InterfacesProofs` |
| `InterfaceReads`, extends `Interfaces` | the series of interfaces in `query.go` | `InterfacesProofs` |
| `Sums` | no code: lemmas about the folds that `Obsess`, `EchoEngine`, `Interfaces` and `Rollups` count with, and about multiples | itself |
| `Traceroute` | `trace/engine.go`, `trace/runner.go`, `trace/raw.go` | `RoutesProofs` |
| `Routes`, `MCRoutes`, extends `Traceroute` | traces, candidates and changes in `events_extra.go`, their deletion in `retention.go` | `RoutesProofs` |

Operators whose name holds an underscore (`Enqueue_AtFront`) are deliberate
faults: a plausible slip in the code, kept beside the definition it would
replace, to show that a property can be broken. No specification uses them.

### EventBus

One step per channel operation or atomic addition. `pc[p]` says where a
producer is: blocked in `Reserve` (`waiting`), holding a slot before the second
look at `closed` (`granted`), holding a `Reservation` (`reserved`), past the
send but before `depth.Add(1)` (`queued`), returning its slot (`releasing`).
`wpc` does the same for `Next`. `slots` and `queue` are the two channels.
`delivered` and `published` are history. Close and the cancellation of either
context may come at any time; `Orderly` names the lives in which they come in
the order of `app.Run` (`producers.Wait` before `bus.Close`), which the second
half of `Progress` is about. `sync.Once` of a reservation is in the shape of `pc`: after Publish or
Cancel there is no second use to call.

`LosslessStream` knows only claims, pending and received events; the bus
refines it with `claims <- Cardinality(SlotHolders)` and `pending <- queue`.

### Scheduler

A discrete clock that `Tick` advances at any point of a pass, so "now" read at
the start of a pass may be old when the timer is armed. `heap` is a function
from targets to their deadline; the choice among equal deadlines is free.
`SubmitAccepted`/`SubmitRejected` are the two answers of the sink; a slot before
now is folded into the pending gap as `addGap` does (`GapAfter`).
`RecordPending` is `flushGaps`, `TakeUpdates`/`ApplyUpdate` the swap of the
requested cadences and its application, `ArmTimer`, `WakeUp`, `Stop` and
`Return` the loop around them. `handed` and `requested` are history.

### EchoEngine

Six kinds of goroutines: the scheduler as it calls the engine, a sender and a
receiver per family, the gap reporter of `Run`, the writer at the end of the bus
and `app.Run` from the moment of the signal. A slot is a number; it is on its
way in a queue, in a sender's hand, in a gap or on the bus. The bus is the
abstract stream (`claims`, `pending`, `delivered`), which the refinement above
justifies. `inputMu` is not a variable: the scheduler holds it for reading while
`sched.pc` is `offering` or `sending` (`HoldsInputLock`), and `CloseInputs` is
DrainInputs' exclusive section. `app` walks through the stages of the
shutdown, each wait ending with what it waits for or with its timer.

### Obsess

Each hook is one action, as the controller's mutex makes it; `CompleteProbe`
and `ObserveReply` are apart as in the engine, so a reply may be observed
before, between or after. Run is `Scan` (expire one probe), `ScanDone`, `Arm`,
`WakeUp`: between `ScanDone` and `Arm` the lock is free. `Outcomes` and
`Settle` are `finish`: results are settled in slot order, against the limit of
the moment. `Rooms` is `makeRoom`, with the free choice of Go's map iteration.
`sent` is what the hooks rely on in the engine: one send loop stamps the probes of an
endpoint (`echo/engine.go:226`) with a write between two stamps, so they grow. The
stamp of the first probe to a new endpoint may be older than the change.

### Writer

`RunWriter` as a goroutine: `pc` walks from waiting (`next`) over `collect`,
`apply` and `expire` back to `next`, with `recover` and `paused` for a full disk
and `pressed` for the second half of the maintenance. A transaction is a fold
over the batch (`After`, a recursive function): `InsertProbe`, `AttachReply` and `KeepReply` are its
cases, on the tables, the dirty minutes and the map of kept replies together.
`Commit` installs the result, `FindsFull` throws it away, with the map put back
(`Restored`). `Full`, `PruneRaw`, `PruneRest` and `Pause` are the ladder of
`recoverFullOnce`; `PruneRawHalf` is the deletion whose mark found no room.
`DeleteRows` and `Advance` are `prune` and `advancePrunedThrough`. Every probe
has a minute of its own, so `dirty` and `rollup` are about probes. `space`
says whether SQLite finds room and changes at will. `log` and `retired` are
history, and so is `counts.replaced`, the kept replies that a later one replaced,
which no counter of the code counts. A send loop publishes a row without waiting once the packet has left:
`Prompt` keeps everything that takes time (a tick, the 250 ms of a batch) out of
that moment, so a kept reply is never older than its row's publication. One tick
is longer than the lifetime of a kept reply (`Lifetime = 0`). `CancelWriter` comes after
`Close`: the earliest of the three cancellations (`app/app.go:318`) stands right before
the bus is closed, when the engine has already stopped.

### Rollups and PingReads

One target, whose slots are the ticks of the scheduler's clock. `sample` and
`gapLog` are what was ever observed, `raw` and `gaps` the rows that are left,
`minute` and `hour` the two tiers as functions from a bucket to its counts, and
`dirty` the table of that name. `InsertProbe`, `AttachReply` and `InsertGap` are
the writer's transactions as far as these tables go. A sweep takes its keys
first (`StartSweep`, `Due`), recomputes them one transaction after another in the
order of the code (`RecomputePingMinute`, `RecomputePingHour`), then runs the four
deletions of `prune` and, under pressure, the four of `emergencyPruneStage`
(`Delete`), and may end in a crash between any two. A `Crash` leaves work of the sweep undone
(`WorkLeft`); with none left, a crash is the same step as `EndSweep`. `RecoverFull` is a batch that finds
the disk full (`recoverFullOnce`): the four stages of pressure at once, with nothing
recomputed before; `mode` tells the two apart. The goroutine that stores
events also runs the sweep, so nothing is stored during one. `Suspend` lets the
wall clock jump while the slots follow the monotonic clock.

`PingReads` adds no state: `QueryRaw`, `QueryRollups`, `OverlayDirty`,
`PlanSeriesResolution` and `OverviewPing` are operators over the tables, named
after the functions they stand for, and the properties compare what they answer
with what was observed, in every state, the middle of a sweep included.

### Interfaces and InterfaceReads

One interface, one of its counters. A poll finds a link (the same one, with its
counter gone on or begun again, or a replacement) or none, and publishes a reset
and a snapshot as `collect` does; the writer closes and opens generations
(`StoreReset`, `StoreSnapshot`, `GoesOn`); sweeps recompute and delete. A crash
loses what was published and not stored and all the collector knew; the clock may
be set back. `stored` and `moved` are history: all rows there ever were, and what
the links counted. `InterfaceReads` is `InterfaceSeries` as an operator.

### Traceroute and Routes

`run` is the trace under way, with its probes in the order they were sent,
`outstanding` the tokens that are waited for. `flight` holds every probe the
socket may yet receive an answer to: the socket stays open between traces and is
not emptied, so what was unanswered when a trace ended may be answered in a later
one (`End`), a few at a time. `Read` matches an answer by what the code matches it
by. `Hears`, `Reaches` and `Closed` say which network this is. `Wake` and `Begin`
are the two halves of `runTarget`, between which the endpoint may change. What
another routine, the resolver or retention does during a trace is like what it
does before it (`Quiet`): they share nothing with the trace but the endpoint,
which was read.

`Routes` stores the results: `StoreTrace` is `insertTrace` with
`updateRouteCandidate`, `DeleteTraces` and `DeleteChanges` are the deletions of
`prune` and `emergencyPruneStage`, in days. SQLite gives a new row the highest id
and one more, so ids come again after a deletion (`NextId`). `recent` is history.

## 3. Runs

| run | instance | shows |
|---|---|---|
| `bus` | 2 producers, 3 events each, capacity 2; Close and cancellation anywhere | `SlotAccounting`, `PublishNeverBlocks`; `StreamSafe`: the bus is a `LosslessStream`; under fairness `Progress` |
| `scheduler` | 2 targets, cadences 1 and 2, two changes, clock to 3, flush every 2 | `SlotsAccounted`, `NeverOversleeps`, `ChangeKeepsDistance`, and under fairness `CadenceConverges` |
| `echo_drain` | 3 endpoints in 2 families, 2 slots, queue 1, bus 1, an endpoint change, sockets may fail, the writer runs | `RightFamily`, `NothingLost`, and under fairness `ShutdownCompletes` |
| `echo_faults` | 2 endpoints, one of each family, starting on the IPv4 one (the families are alike), 2 slots, an endpoint change, sockets and writer may fail, timers may run out | `EverySlotInOnePlace` |
| `echo_hang` | 1 endpoint, 4 slots, the writer may fail | `ShutdownCompletes` is violated (section 6) |
| `obsess_incident` | 1 target, 3 probes begun up to 1 late, a gap, an endpoint change, clock to 6, relative threshold of 50 %, 2 intervals to recover | `DegradedNeverLearned`, `RecoveryIsEarned` |
| `obsess_targets` | 2 targets, 2 probes each, 2 tracked at most, an endpoint change, clock to 2 | `WithinCapacity`, `CadenceFollowsState`, and under fairness `DeadlinesAreEnforced` |
| `writer` | 2 probes, one with a reply from elsewhere and one with 2 replies, 1 send loop, batches of 2, 2 replies kept and 1 row deleted at a time, a disk that may fill, cancellation, clock to 2 | `EventOnce`, `RepliesAccounted`, and under fairness `BatchIsStored` |
| `ping_reads` | 2 probes, a gap of up to 2 slots, minutes of 2 and hours of 4 ticks, slots to 3 and a clock to 7, a suspension, 1 row deleted at a time, crashes, a full disk | `RollupsAreExact`, `OverviewIsExact`, `MinuteSeriesIsExact`, and under fairness `EverythingIsSummed` |
| `wide_series` | the same, slots to 7, no suspension, rows up to a tick late | `WideSeriesIsExact` is violated (section 6) |
| `interfaces` | 3 samples, 2 links, counters to 1, a crash or a clock set back, minutes of 2 and hours of 4 ticks, clock to 6 | `GenerationsAreOrdered`, `NoInventedTraffic`, `DifferencesAreOwned`, `SeriesIsExact` |
| `routes` | 4 traces of 1 target with 2 endpoints, 2 hops, 2 routers of which one refuses, Paris with fallback, 1 late answer, 1 DNS change, 1 day | `HopsAreTrue`, `ReferencedTracesAreKept`, `ChangesAreConfirmed`, `RepeatedRouteIsBaseline` |

Each module with state has one type invariant, checked in one of its runs.

Why these bounds are enough to be interesting. A capacity of 2 lets events of
one producer queue up behind each other while another one waits; in the engine a
capacity and queues of 1 make every wait happen. In the scheduler a clock to 3
lets a pass be late by three slots of the short cadence and by one of the long
one, and two changes let a second one arrive while the first is applied. In the
engine one slot can be on the bus or behind a sender while the other waits, fails
or becomes a gap, in either family; the hang needs four. In the obsess runs the
window, the timeout and the intervals are chosen so that a baseline is learnt,
broken and earned back within the clock. In the writer two probes are enough for
a batch that holds a row and another probe's reply, for a reply kept over several
batches, and for a row deleted while an older or a younger one stays. Of two
replies to one probe the second may replace the first while that is kept, come as a
duplicate, or come after the row was deleted, and a limit of two kept replies is
still reached. With one send loop one row at a time is to follow its packet; the
theorems of section 5 are about any number of loops, probes and replies. In
`ping_reads` slots fill an hour of two minutes, and the
clock goes on until they may be deleted: a minute is summed, dirtied by
a late reply, summed again and deleted while its neighbour is at another stage
of that, the hour outlives its minutes, and a gap lies over the end of a minute. In
`interfaces` three samples are enough for a difference over the end of a minute
whose earlier row is deleted, and for a generation reused after a restart. In
`routes` four traces make a baseline, a candidate, a confirmation and one more,
or a failure or a trace of another endpoint in between; the first hop is one of
two routers or the endpoint, so that sets of responders overlap or do not.
`MaxTime`, `MaxEvents`, `MaxSlots`, `MaxSlot`, `MaxChanges`, `MaxReplies`, `MaxStray`, `MaxProbes`,
`MaxGaps`, `MaxMissed`, `MaxUpdates`, `MaxDelay`, `MaxSamples`, `MaxTraffic`,
`MaxLinks`, `MaxFaults`, `MaxTraces`, `MaxLate` and `MaxDays` are bounds of the
models and stand in guards; `MaxLag`, `MaxWait`, `Sleep` and `MaxPause` bound what
the environment does; all other constants are parameters of the code.

All runs switch off the deadlock check: the modelled program really stops
(the daemon has returned, the bounds are used up).

## 4. Fairness

Only goroutines that can go on are assumed to be scheduled (weak fairness per
goroutine), and a timer that is waited for goes off. The bus adds strong
fairness of a sender waiting for a slot, because the Go runtime serves blocked
channel senders in order of arrival. The writer's goroutine and a send loop that
holds its slot run; that the disk has room again is a premise of
`BatchIsStored`, not an assumption. In `Rollups` time passes and the maintenance,
which a ticker starts, goes on. `EverythingIsSummed` has two premises that the code cannot
promise: crashes in the middle of a sweep come to an end, for each of them throws away
what is left of its work, and so do recoveries from a full disk, for a batch that finds no room
is tried again and again (`writer.go:97`) before the maintenance has its turn. Both are
needed: without either, TLC finds a minute that stays dirty for ever. Sweeps that begin and
end as they should, and crashes after the last step of one, are not excluded. Nothing is assumed of the network (a reply may never come),
of sockets failing, of DNS, of a signal, of new cadences, or of the collectors
producing anything.

## 5. Proofs

`StorageProofs` is in two parts, of which the last is about the bus. It proves, for
every capacity, every finite set of producers and
every number of events, with Close and cancellation at any time:

* `BusTypeCorrect`: `BusSpec => []BusTypeOK`
* `SlotsAccounted`: `BusSpec => []SlotAccounting`
* `HolderNeverBlocks`: `BusSpec => []PublishNeverBlocks`
* `BusImplementsStream`: `BusSpec => StreamSafe`, the refinement of `LosslessStream`

The assumptions are those named in `EventBus`: a positive capacity, a finite set
of producers, a natural bound. The invariant is `BusInv == BusTypeOK /\
SlotAccounting /\ RoomToPublish`. `SlotAccounting` alone is not enough for
`PublishNeverBlocks` without an argument about cardinalities: `slots` never
exceeds the capacity (typing), a holder is counted in it, so the queue is
shorter than the capacity. `RoomToPublish` is the part of the bound on events
that the refinement and the types need. The work of the induction is done by
`HoldersChange`, which says for any step of one producer what it does to the
number of slot holders; each action then has a step of its own.

The first part of `StorageProofs` proves every safety property of the `ping_reads`
run, for every length of a minute and an hour, every number of probes and
gaps, every retention, quota and batch, with crashes, a suspension and a full disk:

* `TypeCorrect`: `Spec => []TypeOK`
* `MinutesExact`: `Spec => []MinuteIsExact`
* `HoursExact`: `Spec => HoursAreExact`, which is
  `[](KeepsUp /\ mode # "recovery") => []HourIsExact`
* `RollupsExact`: `Spec => RollupsAreExact`, both of them
* `OverviewExact`: `Spec => []OverviewIsExact`
* `MinuteSeriesExact`: `Spec => []MinuteSeriesIsExact`

The assumptions are those of `Rollups` and `PingReads`: `UnitAssumption` (an hour is a
whole number of minutes, and longer), `BoundAssumption`, `RetentionAssumption` (what the
validation of the configuration guarantees), `LagAssumption` (what is observed is stored
before its rows may be deleted, a suspension included; section 7) and
`OverviewAssumption` (the window lies within the raw floor). The invariant is
`IInv == Types /\ Prompt /\ Apart /\ GoneRows /\ GoneGaps /\ Kept /\ Answered /\ MinuteIsExact`.

* `MinuteIsExact` compares a sum of the rows there *were* with one that was made of the
  rows there are. `GoneRows` and `GoneGaps` close the gap: what was deleted is so old
  that nothing can make its minutes dirty any more (`LagAssumption`, `Prompt`), and
  they are clean. So nothing is gone of a minute that is recomputed, and
  `AggregateIsTruth` shows that the recomputation gives the truth.
* Gaps overlap minutes in part. `CountPeriodic` is the arithmetic of the code; that it is
  the number of missed slots in the minute is a division argued with the lemmas of
  `Sums` on multiples, and `Apart` (no slot was missed by two gaps) lets the counts of
  several gaps add up to the number of slots in their union.
* `Answered` is why a reply in time cannot follow a minute that was summed; the overview
  needs it, which counts a probe that may still be answered otherwise than a minute does.

`HourIsExact` is inductive only with `Settled` (a minute that was observed in, is clean
and is not there leaves a clean hour over clean minutes) and when no minute of an
hour is dirty while its minutes are being deleted. The second is `RepairedInTime`, and
it is a property of the maintenance, not of the tables: a sweep recomputes before it
deletes (`InOrder`), and what it may not recompute yet is less than a month old
(`InOrderIsInTime`). This is where both premises of `HoursAreExact` come from. A full disk
deletes without recomputing, and an hour may be wrong after that (section 6).
`KeepsUp` says that no more minutes are due than one sweep takes (256 keys of a kind
in the code, over all targets): of a longer backlog the sweep leaves some dirty and
deletes all the same. The sum of an hour over its minutes is exact because the truth of
a stretch is the sum of its parts (`TruthCounts`), slot by slot for rows and for gaps.

The answers need no invariant of their own, only `IInv`. A reader counts a clean minute
from its rollup and the rest from the rows. The first is right by `MinuteIsExact`, and
nothing more can change by waiting (`Answered`); the second is right where no row is gone,
which `GoneRows` says of dirty minutes and of the last `RawFloor` ticks; and a
minute with neither has seen nothing (`Kept`), up to the month that is kept. The overview
cuts minutes at the edges of its window, where the rows are of the raw floor.

`SchedulerProofs` proves every property of the `scheduler` run but the one of
liveness, for every finite set of targets, every cadence, flush interval and bound:

* `TypeCorrect`: `Spec => []TypeOK`
* `SlotsAreAccounted`: `Spec => []SlotsAccounted`
* `RunNeverOversleeps`: `Spec => []NeverOversleeps`
* `ChangesKeepDistance`: `Spec => ChangeKeepsDistance`

The assumptions are `TargetsAssumption`, `IntervalAssumption` and
`BoundAssumption` (there is a target; cadences and the flush interval are positive).
The invariant is `IInv == Typed /\ Accounted /\ NotDue /\ Ended /\
NeverOversleeps`. `SlotsAccounted` speaks of a set of instants and is not
inductive: nothing in it says where the next deadline stands. `Accounted` says it
with numbers: of the cadence in force, k slots from its first one are past, the
deadline is slot k, the last c of them wait in the pending gap, and the others were
handed over. Each step then changes k and c (`SkippedSlots` is the division in
`submitDue`, `SlotsUpTo` gets the set back from the numbers). `NotDue` is what a
pass knows of the targets it has been through; `NeverOversleeps` needs it when the
timer is armed, and needs itself only for the steps between arming and sleeping.

`ObsessProofs` proves, for every finite set of targets, every policy, capacity and
delay:

* `TypeCorrect`: `Spec => []TypeOK`
* `CapacityIsKept`: `Spec => []WithinCapacity`
* `CadenceIsFollowed`: `Spec => []CadenceFollowsState`
* `IncidentsTeachNothing`: `Spec => []DegradedNeverLearned`
* `RecoveriesAreEarned`: `Spec => RecoveryIsEarned`

The assumptions are `TargetsAssumption`, `PolicyAssumption` (the fast interval is
below the normal one, sizes are positive: what `config` enforces) and
`BoundAssumption`. The invariant is `IInv == Looping /\ Kept /\ Queued /\ Bounded`.
`Queued` ties `tracked` to the sum of the queues, `Kept` ties `samples` to the
sum of the histories and `requested` to the modes, and gives each target a
`GoodState`: with an incident its threshold is frozen and no sample is above it.
`Bounded` is the limit itself. The counters are decremented by as much as a
removal frees, so every step needs how a sum over the targets changes with one of
them; `makeRoom` needs that the target it evicts from has something to give.

An incident ends in a step, and what the property asks for then lies in the
past: the controller itself has only the first and the last probe of the healthy
run. `RInv` adds the log of good probes to `IInv`. `RunIsLogged` says that the
run is the end of that log, with no step above twice the fast cadence, and that
nothing bad is known to be later than its first probe. Two parts make it
inductive. `InOrder` says that probes are settled in the order of their stamps.
`BadIsKnown` says that a bad probe was noted in `lastBad` when it was found bad:
when it reaches the head of the queue, where `finish` passes it over
(`controller.go:433`), there is no healthy run that it could contradict. Every
helper leads `Onward`: it keeps an incident, and keeps or forgets a healthy run,
also that of the target `makeRoom` evicts from. If two probes had the same stamp
this would fail: a good one and one whose write fails in the same instant leave a
run that begins before the failure was settled.

`EchoEngineProofs` proves every safety property of the engine's runs, for any
addresses of any family, every capacity of the queues and of the bus, every number
of slots, endpoint changes and replies, and with or without each fault:

* `TypeCorrect`: `Spec => []TypeOK`
* `ProbesLeaveByTheirFamily`: `Spec => []RightFamily`
* `SlotsAreInOnePlace`: `Spec => []EverySlotInOnePlace`
* `OrderlyShutdownLosesNothing`: `Spec => []NothingLost`

The assumptions are `EndpointsAssumption`, `CapacityAssumption` and
`FailureAssumption`; the family of an address is all the proof knows of it. The
invariant is `IInv == Typed /\ RightFamily /\ Accounted /\ Closing /\ Orderly`.

`Accounted` extends `EverySlotInOnePlace` to the slots that have not come due: they
are nowhere, which is what the step that makes a slot due needs. `Copies` is
read as five parts (scheduler, loops, gaps, bus, given up: `Placed`), and
`Balance` reduces each step to the two parts it moves a slot between; `CountAppend`
and `CountTail` say what a channel gains and loses, `LoopsChange` what the send loops
do when one of them moves. That a slot is nowhere twice is used by the steps that
add it to a set.

`Closing` and `Orderly` are the argument of the shutdown. Inputs close at their
stage and with nobody inside `TrySubmit` or `RecordGap` (`HoldsInputLock`), so what
a loop found empty after that stays empty. While no wait has run out, each stage of
`app.Run` is reached with what it waited for: past `drain` the scheduler has
returned, past `drained` the input loops have, each with its queue empty, past
`busClosed` the receivers too, so that nobody publishes when the writer is
waited for. Then nothing is ever given up (`dropped = {}`): a loop that fails with a
slot in hand needs a stage that is only reached when the loop has returned. In the
end all other parts of `Copies` are zero and the slot is with the writer.

`Sums` holds what these two, `InterfacesProofs` and `StorageProofs` need of the folds of the community
modules: that a sum over a finite set exists, is a number, how it changes with
one of its terms or grows by one, that the differences of consecutive steps add up
to that of the first and the last (`SumTelescopes`), that the sums of the parts of a set add
up to that of the whole (`SumOfParts`), and that the sizes of the parts of a
set add up to its own. It also holds what the proofs need of multiples: the buckets of a width
lie apart, a smaller width nests in a larger one, and how many multiples lie in a stretch.
A fold is a function defined by recursion on the subsets of a set. The induction
theorems of the library take an operator, which the provers cannot instantiate; each
lemma looks at a smallest counterexample instead (`SmallestSet`, from `WFMin`).

`WriterProofs` proves the invariants of the `writer` run, for every number of probes and of replies to one,
size of a batch, limit of kept replies, retention and timeout:

* `TypeCorrect`: `Spec => []TypeOK`
* `EventsStoredOnce`: `Spec => []EventOnce`
* `NoReplyLost`: `Spec => []RepliesAccounted`

The assumptions are `SizeAssumption` and `RetentionAssumption` (of which only a batch
of at least one event is used). The invariant is `IInv == Typed /\ Kept /\ Summed /\
Running /\ InOnePlace /\ Logged`. `InOnePlace` is about the events in hand, so it
needs `Running`: a batch is begun with none in hand, and a closed bus has no producer
that could still publish a row. `PublishStep` counts an event that is published;
`HeldCollects` and `HeldMoves` say that every other step moves events along without
touching their order.

`Logged` says that the log and the tables agree, and only a commit makes it hard. What a
transaction does is `After`, a recursive function over the batch: `AfterExists`
shows that the recursion has a solution and `AfterUnfolds` that `After` is it, both by
a smallest counterexample. `EventApplies` is one event: the world stays `Sound`
(dirty minutes are stored, a stored row leaves no reply waiting), dirty minutes stay
dirty, rows stay, a row that is not dirty was there before, and a row comes with its
own event and no other. In the middle of `insertProbe` the row and the reply kept
for it are both there, so `AttachFits` has the weaker `Fits`. `BatchApplies` carries
`EventApplies` through the batch; a rolled back attempt leaves the tables and
the map as they were (`Moves`). `RowsRetire` is the deletion: what goes was stored,
becomes retired, and leaves nothing dirty behind; `PruneStep` adds that the
minutes that are recomputed before a deletion have a rollup after it (`Summed`).
`RepliesCounted` turns "each reply once" into the number of replies at the end.

`RepliesAccounted` is an equation of numbers, and its invariant `Balanced` says
it of a world: what the rows, the retired rows, the map and the counters account for
(`Account`, the replaced ones included) against the replies of a set. `EventBalances` adds an
event to the world and to the set: a reply raises both by one, and a row takes its reply out of the map and into itself (`AttachAccounts`,
`InsertAccounts`, `KeepAccounts`). `BatchBalances` carries this through the batch, whose
events are not in the log yet (`BatchIsNew`, from `InOnePlace`). A deletion
moves what a row tells to the retired ones, and an expiry moves a reply from the map to a counter.
A reply kept in the place of another (section 6) leaves the map as large as it was and is
the one that `counts.replaced` counts; nothing is assumed of the number of replies, and
as long as none is replaced the equation says that none is lost.

`InterfacesProofs` proves every invariant that the `interfaces` run checks, for every number of links, generations, samples, crashes and settings of the clock, every
length of a minute and an hour and every retention:

* `TypeCorrect`: `Spec => []TypeOK`
* `OrderedGenerations`: `Spec => []GenerationsAreOrdered`
* `NoTrafficInvented`: `Spec => []NoInventedTraffic`
* `OwnedDifferences`: `Spec => []DifferencesAreOwned`
* `SeriesExact`: `Spec => []SeriesIsExact`

The assumptions are `BoundAssumption`, `UnitAssumption` (hours are whole numbers of
minutes, and longer) and `RetentionAssumption`: raw rows are kept for longer than two
pauses and a minute, and for longer than a pause, a minute and all the clock is ever set
back. The first three theorems rest on `IInv == Clocks /\ Tables /\ Rollups /\ Sweeps /\ Fresh /\ Ordered /\ OneOpen /\ Led /\
Owned /\ Covered`. `Ordered` is about every row there ever was, but
`ensureInterfaceGeneration` compares with the last row that is still *stored*. `Led`
closes the gap: the last row of the open generation is never deleted, because raw
rows outlive the longest pause (the guard of `Tick`). `TypeOK` needs `Ordered` in turn:
an aggregate is a natural number because its rows are in order.

`NoInventedTraffic` is not inductive: a sample adds to the sum what the link counted
since the row before it, and nothing says that this was not counted already.
`Covered` does: what the open generation has not yet taken in from the present link
(`link.counter - LastRow(History(g)).counter`) is still missing from the sum. It needs
that a sample is stored while the link is as it was read (`Fresh`), and that an
older link never comes back (`Owned`). A sample that goes on with a generation
changes one term of the sum (`SumFunctionChanges`), one that begins a generation
adds a term that is zero (`SumFunctionGrows`); `SpansHold` says that the
difference a generation stands for is that of its first and last rows.

`DifferencesAreOwned` says of rollups what outlives their rows: a clean minute, and a
clean hour, holds the true differences of every row there ever was. A minute is
computed from the rows that are stored, and a difference needs the row before it
as well, which may be of an earlier minute and so older. The invariant
is therefore `JInv == Steady /\ Near /\ Past /\ Gone /\ Based /\ SweptMinutes /\ SweptHours /\ Summed /\ MinutesTrue /\ HoursTrue`, on top of `IInv`:

* A row follows the one before it within a pause (`Near`), so a dirty minute begins
  soon after that row. A deletion that would take the row finds
  that the minute was due in this sweep (`SweptMinutes`, `SweptHours`) and is clean:
  what a dirty minute still needs is stored (`Based`).
* A deleted row is old whatever the clock was set back since (`Gone`), so a minute that
  a new row marks has none. Hence `AggregateIsTruth`: what is recomputed is the truth.
* A new row is after every other of its generation and changes no earlier difference
  (`RowOfStays`): what was true stays so, and the new row's own minute and hour are dirty.
* An hour is computed from its minutes (`MinutesNest`): the true differences of
  the minutes add up to that of the hour (`SumTelescopes`), and a minute that was never
  summed has no rows (`Summed`).

`SeriesIsExact` compares two sums over different things: the answer adds up rollups and
differences between raw rows, of any generation, and the truth is one difference for each
generation. Both are shown to be `CountAt(end) - CountAt(begin)`, where `CountAt(t)` adds
the last counter before `t` of every generation. Two things are needed
that `IInv` and `JInv` do not say, and `KInv == Readable /\ Rolled` does:

* A minute that is dirty in *one* generation is read from the rows of *all* of them
  (`Readable`), so no row of such a minute, nor the row before it, may be gone in any
  generation. A deletion asks only whether the row's own generation is clean there. What
  saves the reader is the retention: what is dirty when a sweep ends is of the present,
  or of the open generation, whose minutes begin soon after one of its rows. This is
  where `2 * MaxPause + M - 1 <= RawFloor` is needed.
* An hour that is clean in a generation, and has no rollup there, has no minutes there
  either (`Rolled`): a missing key is a zero, not a gap.

A point of minutes is then one column of the table (`CleanMinuteIsRead`) or one raw
minute (`MinuteIsRead`). A point of hours is one column, or, when its hour is marked, what
the columns of its clean minutes and the raw rows of the dirty ones add up to: the two
sets of minutes are disjoint and together all of the hour up to the present (`SumSplits`),
and their differences add up to that of the hour (`HourAddsUp`). `MarkedHours` says why a
dirty minute never hides in an hour that is taken whole.

`RoutesProofs` proves every property of the `routes` run, for every set of
targets, endpoints and routers, every number of hops, of hops at a time, of
probes per hop, of traces, late answers and days, every method and every
retention:

* `TypeCorrect`: `Spec => []TypeOK`
* `HopsTrue`: `Spec => []HopsAreTrue`
* `ReferencesKept`: `Spec => []ReferencedTracesAreKept`
* `ChangesConfirmed`: `Spec => ChangesAreConfirmed`
* `RepeatedIsBaseline`: `Spec => RepeatedRouteIsBaseline`

The assumptions are `SizeAssumption` and `NameAssumption` of `Traceroute` (sizes
are positive, the network answers within the hops, an endpoint is no router) and
`RetentionAssumption` of `Routes`. The invariant is `IInv == TracerInv /\
TablesTyped /\ RowsInv /\ ReferencedTracesAreKept`.

`TracerInv` is about the trace under way and is kept by every step of the tracer
(the first half of the module). `HopsAreTrue` alone is not inductive: that an answer was to
the same hop follows from the fact that the k-th probe of *any* trace goes to hop
`HopOf(k)`, which has to hold of the trace, of the probes in flight and of those
the next batch sends. `DivBound` and `DivShift` are the arithmetic of it, `BatchInOrder` what a
batch makes of it, `SentIsPosted` that the network gets it. `Nearest` states the
hop reached by its witnesses instead of by `Min`, and `ReadKeepsInv` follows it
through an answer.

`RowsInv` ties the row of a target to the last completed trace that was stored:
without a candidate that trace took the way of the row, with one it is the
candidate and took another way. Both action properties are read off it, given
`UpdateKeepsRowInv`, which goes through the four ways `updateRouteCandidate` may
take. That a route is the same as itself needs that no hop of a signature is
empty (`SignatureTyped`). That ids grow along a change needs that the traces it
refers to are stored (`ReferencedTracesAreKept`) when the next id is made, and
that the highest id exists (`NextIdIsNew`).

Only model-checked: every liveness property (the prover does not do fairness or
ENABLED). Every invariant and every action property of the passing runs is a
theorem.

## 6. What the checks found

`echo_hang`: the shutdown can block for good. The documents say a permanent
write error terminates the daemon (`docs/operations.md:25`,
`docs/implementation-plan.md:161`) and every stage of the shutdown has a timer.
But `DrainInputs` takes `inputMu` with a plain `Lock()` (`echo/engine.go:289`).
After the writer has failed nobody empties the bus; the reporter blocks in
`bus.Publish`, the gaps channel fills up, and the scheduler stands in
`RecordGap` (`engine.go:160`) with the lock held for reading. The application
gives up on the scheduler after five seconds, calls `DrainInputs`, and waits for
the lock; what would free the scheduler, `cancelProducers` (`app/app.go:306`),
comes after it. It takes a bus full at the moment of failure and one more gap
than the channel holds. `echo_drain` shows that with a writer that runs the
shutdown always ends.

`wide_series`: a series with points of an hour or more can be wrong while a
minute is dirty. `docs/implementation-plan.md:415` says that a query overlays any
dirty bucket from the next finer tier, so that live and late-repaired buckets are
consistent. But the raw overlay asks whether a row's minute is dirty *or the
first minute of its hour is* (`query.go:601`): when exactly that one is dirty, raw
rows of its clean siblings are added to their rollups and counted twice. And
missed slots are looked up by the first minute of the point (`query.go:661`): when
another minute of it is dirty, its gap is left out. `ping_reads` shows that the
series of minutes and the overview are always exact.

Six more disagreements were met while modelling and have no run of their own.

* An hour can forget what was observed in it.
  `docs/implementation-plan.md:461` asks of the rollups that "tier totals agree; a late
  reply repairs both tiers; no uncovered bucket is deleted", and `retention.go:8` says that
  only data is removed whose replacement is no longer dirty. A late reply or a gap
  marks its minute alone; the hour is marked when that minute is recomputed. The deletion
  of minutes looks at the mark of the hour (`retention.go:49`, `:136`). The maintenance
  recomputes before it deletes, so the two never meet (`HoursAreExact`). But a batch that
  finds the disk full runs the stages of pressure at once (`writer.go:151`): minutes of
  a clean hour go while another minute of it is dirty, the next sweep recomputes
  that minute, and sums the hour again from the minutes that are left. It takes a minute
  that is still dirty past the 30 days, as after a daemon that was down for so long,
  and a disk that is full before its first sweep. TLC shows it when `HourIsExact` is
  checked on the instance of `ping_reads` without the premise of `HoursAreExact`. Minutes
  stay exact even so.
* The same stages may leave a hole in the minutes older than the 30 days, when a dirty
  minute is kept among deleted ones: a series of minutes that begins before the hole
  shows nothing in it although the hour is there. `MinuteSeriesIsExact` is therefore
  about what lies within that horizon, which is all the documents promise under
  pressure (`docs/operations.md:47`).
* A full disk ends the daemon when a statement of the maintenance meets it, or
  the counter of expired replies, or when a reader blocks the TRUNCATE checkpoint
  for five seconds: the error goes to `failWriter` (`writer.go:47`).
  `docs/operations.md:25` says that on exhaustion admission pauses while HTTP
  stays available; that is so when a batch meets it. In `Writer` these are
  `MaintainFails` and `ExpireFails`.
* A second reply that arrives before the row overwrites the one kept
  (`writer.go:208`) without a trace of the first;
  `docs/implementation-plan.md:349` says that a duplicate never changes the first
  round-trip time. `RepliesAccounted` counts such replies (`counts.replaced`) and says
  that no other is lost; the `writer` run reaches them.
* A trace may record an answer to an earlier trace of the same target that went
  to another endpoint, or another method's turn of it: the quoted destination is
  not compared and the socket is not emptied between traces (`runner.go:204`,
  `raw.go:81`), where `docs/implementation-plan.md:402` says that quotes are
  correlated by destination, ports and checksum. `HopsAreTrue` shows what holds
  all the same: such an answer is of the right hop and target.
* A kept reply may end the daemon after five seconds with nothing inconsistent
  (`writer.go:366`): its age runs on during a commit, and a reply to a deleted row
  is kept for a row that never comes as long as the mark of what is deleted stays
  behind (`retention.go:92`), where `docs/implementation-plan.md:358` says that
  it only increments a diagnostic.

## 7. What is abstracted, and what is not modelled

* EchoEngine: one target; exhausted sequence numbers, payload errors and the
  wait for `runStarted` are left out; a reply is stamped when it is read, and how
  long the reader was blocked before is not modelled (`engine.go:318`); a claim on
  a bus that is already closed is allowed a step longer than the code allows it.
* Obsess: the mean of the history is an exact ratio, not a float; a reply is
  stamped at sent + round trip; the clock tells the stamps of two probes of a
  target apart.
* Replies are taken as authenticated; payloads, sockets and packets are not
  modelled.
* Writer: probes and replies only; the other kinds of events share the
  transaction and are stored in `Rollups`, `Interfaces` and `Routes`. The pressure
  of the storage, a blocked checkpoint and the time a statement takes are free
  choices. `prunedThrough` is not reloaded: there is no restart in that module.
* Rollups: one target; round-trip times and histograms, which are summed beside
  the counts, are left out. A suspension is shorter than the raw retention
  (`Sleep`): a longer one makes rows old before they are written, and a minute
  made dirty by them would be summed from what is left. `LagAssumption` names it. Of
  `recoverFullOnce` the batches that are tried between its stages are left out: one
  that fits ends the recovery.
* PingReads: the target is known from the first tick on and no series begins
  before it, so the start of coverage (`seriesCoverageStart`, `query.go:408`) is the
  start of the range.
* Interfaces: one interface, one counter, rates left out. A link that was
  replaced does not come back. Between two samples of
  a generation no more time passes than half of what raw rows are kept
  (`MaxPause`): over a longer pause the difference is lost with the earlier row.
  Nor is the clock set back by about as long as raw rows are kept. Behind such a clock
  the next sample ends the generation and marks its minute at the earlier time
  (`events_extra.go:135`); when the rows of that minute are deleted, the sum of what is
  left replaces a rollup that was true. `RetentionAssumption` names both limits; the
  second was found while proving, and TLC shows it with two settings of the clock
  and `RawFloor = 3`.
  The rows of `interface_resets` are left out, and interface minutes and hours are
  deleted by the statements that `Rollups` models for pings. A full disk is not modelled
  here.
* Traceroute: one family; no two targets have the same source port; packet
  bytes, checksums and the rate limit are left out.
* Not modelled: the route history that is read back (one query over tables
  modelled here), exact samples and distributions, the histogram, the resolver,
  database files and migrations, the target registry, HTTP, configuration (its
  limits are what the modules assume), event types, CLI, web UI. Of the lifecycle,
  the startup and the pause on storage pressure.

## 8. Plan

In this order, each with its runs and faults:

1. `Lifecycle`: the pause on storage pressure and the cancellation of the writer
   after it, composed with the writer.
2. The route history, read back over `Routes`.
3. `ObsessScheduler`: the controller's cadence requests composed with the
   scheduler.
4. An abstract store that `Writer` implements: each event stored once, a reply
   joins its row.
