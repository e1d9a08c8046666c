----------------------------- MODULE Scheduler ------------------------------
(***************************************************************************)
(* internal/scheduler/scheduler.go: one goroutine (Run) hands every due    *)
(* slot of every target to the sink, or counts it in a coalesced gap;      *)
(* other goroutines change the cadence of a target with UpdateInterval;    *)
(* the clock moves on between any two steps, because the sink may block.   *)
(*                                                                         *)
(* Run reads the clock once per wake (loopNow) and then goes through the   *)
(* stages submitDue, applyUpdates, submitDue, gap flush.  TrySubmit is the *)
(* sink's choice; RecordGap hands the gap to the sink.  Times are ticks.   *)
(*                                                                         *)
(* Definitions marked `Fault' are not part of the model: each is a         *)
(* plausible slip in the definition after it, and PROJECT.json names the   *)
(* property that notices it.                                               *)
(***************************************************************************)
EXTENDS Integers, FiniteSets

CONSTANTS Targets,
          NormalInterval,    \* configured interval of each target
          Cadences,          \* intervals UpdateInterval may be called with
          GapFlushInterval,
          MaxTime,           \* bound: the clock stops here
          MaxUpdates         \* bound: calls of UpdateInterval

ASSUME TargetsAssumption == Targets # {} /\ IsFiniteSet(Targets)
ASSUME IntervalAssumption ==
  /\ NormalInterval \in [Targets -> Nat \ {0}]
  /\ Cadences \subseteq Nat \ {0}
  /\ GapFlushInterval \in Nat \ {0}
ASSUME BoundAssumption == MaxTime \in Nat /\ MaxUpdates \in Nat

None == -1                       \* the zero time
NoGap == [count |-> 0]

VARIABLES clock,
          pc,         \* stage of Run
          loopNow,    \* `now' of Run
          next, interval, last,  \* entry.next, target.Interval, lastSubmitted
          pending,    \* the coalesced gap of each target
          updates,    \* s.updates, 0 for no entry
          taken,      \* the map applyUpdates swapped out, not yet applied
          wake,       \* a token in s.wake
          timerAt,    \* deadline of the timer, None once its tick is consumed
          lastFlush,  \* lastGapFlush
          cancelled,  \* ctx is cancelled
          stopped,    \* s.stopped
          calls,      \* calls of UpdateInterval so far
          requested,  \* history: the cadence last accepted for each target
          handed,     \* history: <<epoch, slot>> submitted or recorded missed
          handedCount,\* history: the same, counted with repetitions
          ended,      \* history: <<epoch, slot>> owed by earlier cadences
          epoch, start,\* history: cadence changes so far, and first slot since
          sent        \* history: submissions accepted in this wake

runVars == <<loopNow, next, interval, last, pending, taken, lastFlush>>
callVars == <<updates, wake, calls, requested>>
history == <<handed, handedCount, ended, epoch, start, sent>>
vars == <<clock, pc, runVars, callVars, timerAt, cancelled, stopped, history>>

Slots(first, step, count) == {first + k * step : k \in 0 .. count - 1}
GapSlots(gap) ==
  IF gap = NoGap THEN {} ELSE Slots(gap.first, gap.interval, gap.count)
Earliest(S) == {t \in S : \A u \in S : next[t] <= next[u]}
Pending == {t \in Targets : pending[t] # NoGap}

Stages == {"select", "submit", "take", "apply", "resubmit", "flush", "arm",
           "stopping", "returned"}

TypeOK ==
  /\ clock \in 0 .. MaxTime /\ loopNow \in 0 .. MaxTime
  /\ pc \in Stages
  /\ next \in [Targets -> Nat]
  /\ interval \in [Targets -> Nat \ {0}]
  /\ last \in [Targets -> 0 .. MaxTime \cup {None}]
  /\ \A t \in Pending : /\ pending[t].first \in Nat
                        /\ pending[t].interval \in Nat \ {0}
                        /\ pending[t].count \in Nat \ {0}
  /\ updates \in [Targets -> Cadences \cup {0}]
  /\ taken \in [Targets -> Cadences \cup {0}]
  /\ timerAt \in Nat \cup {None}
  /\ lastFlush \in 0 .. MaxTime
  /\ {wake, cancelled, stopped} \subseteq BOOLEAN

\* phaseFor: a hash of the stable id modulo the interval, any value below it.
Init ==
  /\ clock = 0 /\ loopNow = 0
  /\ pc = "select"
  /\ interval = NormalInterval
  /\ next \in {f \in [Targets -> UNION {0 .. NormalInterval[t] - 1 : t \in Targets}] :
                 \A t \in Targets : f[t] < NormalInterval[t]}
  /\ last = [t \in Targets |-> None]
  /\ pending = [t \in Targets |-> NoGap]
  /\ updates = [t \in Targets |-> 0]
  /\ taken = [t \in Targets |-> 0]
  /\ wake = FALSE
  /\ timerAt \in {next[t] : t \in Earliest(Targets)}
  /\ lastFlush = 0
  /\ cancelled = FALSE
  /\ stopped = FALSE
  /\ calls = 0
  /\ requested = interval
  /\ handed = [t \in Targets |-> {}]
  /\ handedCount = [t \in Targets |-> 0]
  /\ ended = [t \in Targets |-> {}]
  /\ epoch = [t \in Targets |-> 0]
  /\ start = next
  /\ sent = [t \in Targets |-> 0]
-----------------------------------------------------------------------------
(* Recording and submitting.                                               *)

\* The slots S of t, n in number, are now the sink's: history only.
Hand(t, S, n) ==
  /\ handed' = [handed EXCEPT ![t] = @ \cup {<<epoch[t], s>> : s \in S}]
  /\ handedCount' = [handedCount EXCEPT ![t] = @ + n]

\* addGap: the first rejection fixes where the gap begins and its cadence.
GapAfter(g, first, step, count) ==
  IF count = 0 THEN g
  ELSE IF g = NoGap THEN [first |-> first, interval |-> step, count |-> count]
  ELSE [g EXCEPT !.count = @ + count]

\* Slots before the newest due one, which submitDue skips without a catch-up.
Skipped(t) == (loopNow - next[t]) \div interval[t]

\* The slot submitDue offers for t, and the gap that precedes it.
Slot(t) == next[t] + Skipped(t) * interval[t]
GapBefore(t) == GapAfter(pending[t], next[t], interval[t], Skipped(t))

\* One iteration of submitDue takes the target with the earliest deadline.
Due(t) ==
  /\ pc \in {"submit", "resubmit"}
  /\ t \in Earliest(Targets)
  /\ next[t] <= loopNow
  /\ next' = [next EXCEPT ![t] = Slot(t) + interval[t]]
  /\ UNCHANGED <<clock, pc, loopNow, interval, taken, lastFlush, callVars,
                 timerAt, cancelled, stopped, ended, epoch, start>>

\* TrySubmit returned true: the gap before the slot is complete and recorded.
SubmitAccepted(t) ==
  /\ Due(t)
  /\ last' = [last EXCEPT ![t] = clock]
  /\ sent' = [sent EXCEPT ![t] = @ + 1]
  /\ pending' = [pending EXCEPT ![t] = NoGap]
  /\ Hand(t, {Slot(t)} \cup GapSlots(GapBefore(t)), 1 + GapBefore(t).count)

\* Fault: a rejection forgets the slots skipped before it.
SubmitRejected_ForgetsSkipped(t) ==
  /\ Due(t)
  /\ pending' = [pending EXCEPT ![t] = GapAfter(pending[t], Slot(t), interval[t], 1)]
  /\ UNCHANGED <<last, sent, handed, handedCount>>

\* TrySubmit returned false: the slot joins the gap.
SubmitRejected(t) ==
  /\ Due(t)
  /\ pending' = [pending EXCEPT ![t] = GapAfter(GapBefore(t), Slot(t), interval[t], 1)]
  /\ UNCHANGED <<last, sent, handed, handedCount>>

\* Fault: a recorded gap is emptied, and stays in the map.
RecordPending_KeepsRecord(t) ==
  /\ pc = "flush" /\ loopNow - lastFlush >= GapFlushInterval
  /\ pending[t] # NoGap
  /\ Hand(t, GapSlots(pending[t]), pending[t].count)
  /\ pending' = [pending EXCEPT ![t].count = 0]
  /\ UNCHANGED <<clock, pc, loopNow, next, interval, last, taken, lastFlush,
                 callVars, timerAt, cancelled, stopped, ended, epoch, start, sent>>

\* RecordGap and delete of one pending gap, in the flush and on the way out.
RecordPending(t) ==
  /\ \/ pc = "flush" /\ loopNow - lastFlush >= GapFlushInterval
     \/ pc = "stopping"
  /\ pending[t] # NoGap
  /\ Hand(t, GapSlots(pending[t]), pending[t].count)
  /\ pending' = [pending EXCEPT ![t] = NoGap]
  /\ UNCHANGED <<clock, pc, loopNow, next, interval, last, taken, lastFlush,
                 callVars, timerAt, cancelled, stopped, ended, epoch, start, sent>>
-----------------------------------------------------------------------------
(* The stages of one wake of Run.                                          *)

Stage(from, to) == pc = from /\ pc' = to

\* case <-timer.C and case <-s.wake: now = s.clock.Now()
WakeUp ==
  /\ Stage("select", "submit")
  /\ \/ timerAt # None /\ timerAt <= clock /\ timerAt' = None /\ UNCHANGED wake
     \/ wake /\ wake' = FALSE /\ UNCHANGED timerAt
  /\ loopNow' = clock
  /\ sent' = [t \in Targets |-> 0]
  /\ UNCHANGED <<clock, next, interval, last, pending, taken, lastFlush, updates,
                 calls, requested, cancelled, stopped, handed, handedCount,
                 ended, epoch, start>>

\* Both calls of submitDue end when no deadline is due.
SubmitDone ==
  /\ \/ Stage("submit", "take")
     \/ Stage("resubmit", "flush")
  /\ \A t \in Targets : next[t] > loopNow
  /\ UNCHANGED <<clock, runVars, callVars, timerAt, cancelled, stopped, history>>

\* applyUpdates swaps the map under updateMu.
TakeUpdates ==
  /\ Stage("take", "apply")
  /\ taken' = updates
  /\ updates' = [t \in Targets |-> 0]
  /\ UNCHANGED <<clock, loopNow, next, interval, last, pending, lastFlush, wake,
                 calls, requested, timerAt, cancelled, stopped, history>>

\* The first slot under the new cadence i: one interval after the last accepted
\* submission, never in the past; a target never submitted keeps a deadline
\* that is sooner.
Larger(a, b) == IF a > b THEN a ELSE b
FirstSlot_AtOnce(t, i) == loopNow  \* Fault: the new cadence starts now.
FirstSlot(t, i) ==
  IF last[t] # None THEN Larger(last[t] + i, loopNow)
  ELSE IF i < interval[t] /\ next[t] < loopNow + i THEN Larger(next[t], loopNow)
  ELSE loopNow + i

\* One target of applyUpdates: its gap is recorded at the old cadence first.
ApplyUpdate(t) ==
  /\ pc = "apply"
  /\ taken[t] # 0
  /\ taken' = [taken EXCEPT ![t] = 0]
  /\ \/ taken[t] = interval[t] /\ UNCHANGED <<next, interval, pending, history>>
     \/ /\ taken[t] # interval[t]
        /\ Hand(t, GapSlots(pending[t]), pending[t].count)
        /\ pending' = [pending EXCEPT ![t] = NoGap]
        /\ interval' = [interval EXCEPT ![t] = taken[t]]
        /\ next' = [next EXCEPT ![t] = FirstSlot(t, taken[t])]
        /\ ended' = [ended EXCEPT ![t] = @ \cup
             {<<epoch[t], s>> : s \in {s \in start[t] .. loopNow :
                                         (s - start[t]) % interval[t] = 0}}]
        /\ epoch' = [epoch EXCEPT ![t] = @ + 1]
        /\ start' = [start EXCEPT ![t] = next'[t]]
        /\ UNCHANGED sent
  /\ UNCHANGED <<clock, pc, loopNow, last, lastFlush, callVars, timerAt,
                 cancelled, stopped>>

ApplyDone ==
  /\ Stage("apply", "resubmit")
  /\ \A t \in Targets : taken[t] = 0
  /\ UNCHANGED <<clock, runVars, callVars, timerAt, cancelled, stopped, history>>

\* The flush is over, or not due in this wake.
FlushDone ==
  /\ Stage("flush", "arm")
  /\ \/ loopNow - lastFlush < GapFlushInterval /\ UNCHANGED lastFlush
     \/ /\ loopNow - lastFlush >= GapFlushInterval
        /\ Pending = {}
        /\ lastFlush' = loopNow
  /\ UNCHANGED <<clock, loopNow, next, interval, last, pending, taken, callVars,
                 timerAt, cancelled, stopped, history>>

NextWake_DeadlineOnly(t) == next[t]  \* Fault: no wake-up for the flush.

\* nextWake: the earliest deadline, or the next flush if a gap is pending.
NextWake(t) ==
  IF Pending # {} /\ lastFlush + GapFlushInterval < next[t]
  THEN lastFlush + GapFlushInterval ELSE next[t]

ArmTimer ==
  /\ Stage("arm", "select")
  /\ \E t \in Earliest(Targets) : timerAt' = Larger(NextWake(t), clock)
  /\ UNCHANGED <<clock, runVars, callVars, cancelled, stopped, history>>

\* case <-ctx.Done(): pending gaps are recorded (RecordPending), then Run's
\* deferred function refuses further updates.
Stop ==
  /\ Stage("select", "stopping")
  /\ cancelled
  /\ UNCHANGED <<clock, runVars, callVars, timerAt, cancelled, stopped, history>>

Return ==
  /\ Stage("stopping", "returned")
  /\ Pending = {}
  /\ stopped' = TRUE
  /\ updates' = [t \in Targets |-> 0]
  /\ UNCHANGED <<clock, runVars, wake, calls, requested, timerAt, cancelled, history>>
-----------------------------------------------------------------------------
(* The other goroutines and the clock.                                     *)

\* Fault: the update waits for the next deadline.
UpdateInterval_NoWake(t, i) ==
  /\ calls < MaxUpdates
  /\ ~stopped
  /\ updates' = [updates EXCEPT ![t] = i]
  /\ calls' = calls + 1
  /\ requested' = [requested EXCEPT ![t] = i]
  /\ UNCHANGED <<clock, pc, runVars, wake, timerAt, cancelled, stopped, history>>

UpdateInterval(t, i) ==
  /\ calls < MaxUpdates
  /\ ~stopped
  /\ updates' = [updates EXCEPT ![t] = i]
  /\ wake' = TRUE
  /\ calls' = calls + 1
  /\ requested' = [requested EXCEPT ![t] = i]
  /\ UNCHANGED <<clock, pc, runVars, timerAt, cancelled, stopped, history>>

CancelContext ==
  /\ ~cancelled
  /\ cancelled' = TRUE
  /\ UNCHANGED <<clock, pc, runVars, callVars, timerAt, stopped, history>>

Tick ==
  /\ clock < MaxTime
  /\ clock' = clock + 1
  /\ UNCHANGED <<pc, runVars, callVars, timerAt, cancelled, stopped, history>>

RunStep ==
  \/ WakeUp \/ SubmitDone \/ TakeUpdates \/ ApplyDone \/ FlushDone \/ ArmTimer
  \/ Stop \/ Return
  \/ \E t \in Targets : \/ SubmitAccepted(t) \/ SubmitRejected(t)
                        \/ ApplyUpdate(t) \/ RecordPending(t)

Next ==
  \/ RunStep
  \/ \E t \in Targets, i \in Cadences : UpdateInterval(t, i)
  \/ CancelContext
  \/ Tick

\* Run's goroutine is scheduled whenever it can go on (its sink returns).
\* Nothing is assumed of the clock, of the callers and of the context.
Spec == Init /\ [][Next]_vars /\ WF_vars(RunStep)
-----------------------------------------------------------------------------
(* Properties.                                                             *)

\* Every slot that came due under some cadence of its target, and no other, is
\* handed to the sink (submitted, or in a recorded gap) or waits in the pending
\* gap, exactly once: nothing is dropped or counted twice when slots are
\* skipped, gaps are coalesced and flushed, or the cadence changes.
EverySlotOnce ==
  \A t \in Targets :
    LET now == {<<epoch[t], s>> : s \in {s \in start[t] .. next[t] - 1 :
                                           (s - start[t]) % interval[t] = 0}}
        waiting == {<<epoch[t], s>> : s \in GapSlots(pending[t])}
    IN  /\ handed[t] \cup waiting = ended[t] \cup now
        /\ handed[t] \cap waiting = {}
        /\ handedCount[t] = Cardinality(handed[t])

\* A pending gap is one run of slots at the current cadence that ends just
\* before the next deadline: gaps of different cadences are never coalesced.
GapsAreContiguous ==
  \A t \in Pending :
    /\ pending[t].interval = interval[t]
    /\ pending[t].first + pending[t].count * pending[t].interval = next[t]

\* No catch-up burst: one wake, however late, submits a target at most once,
\* though it looks for due slots twice.
NoCatchUpBurst == \A t \in Targets : sent[t] <= 1

\* A sleeping Run oversleeps neither a deadline nor a flush: unless it has a
\* wake token, its timer goes off at or before both (or is due already).
NeverOversleeps ==
  pc = "select" =>
    /\ timerAt # None
    /\ \A t \in Targets : timerAt <= Larger(next[t], clock)
    /\ Pending # {} => timerAt <= Larger(lastFlush + GapFlushInterval, clock)

\* After Run has returned no missed slot is left in memory, and no later call
\* of UpdateInterval leaves anything behind.
StoppedIsClean ==
  stopped => Pending = {} /\ \A t \in Targets : updates[t] = 0

\* Every slot that comes due is handed over once, in gaps of one cadence, without
\* a burst, and none stays behind when Run returns.
SlotsAccounted ==
  EverySlotOnce /\ GapsAreContiguous /\ NoCatchUpBurst /\ StoppedIsClean

\* A cadence change never brings two accepted submissions nearer than the new
\* interval: the first slot under a new cadence is due one interval or more
\* after the moment of the last accepted submission.
KeepsDistance ==
  \A t \in Targets : epoch[t]' # epoch[t] /\ last[t] # None
                        => next[t]' - last[t] >= interval[t]'
ChangeKeepsDistance == [][KeepsDistance]_vars

\* A requested cadence is never lost between the map, the wake token and the
\* swap: while Run lives it ends up using the cadence last requested.
CadenceConverges ==
  <>[](\A t \in Targets : stopped \/ cancelled \/ interval[t] = requested[t])
=============================================================================
