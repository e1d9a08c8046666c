------------------------------ MODULE Obsess --------------------------------
(***************************************************************************)
(* internal/obsess/controller.go: the controller that raises the rate of a *)
(* target whose probes are lost or slow, and lowers it again once they     *)
(* have been healthy for long enough.  Its hooks are called by the echo    *)
(* engine's loops and the resolver; Run is a goroutine with one timer.     *)
(*                                                                         *)
(* Every hook runs under c.mu.  Where a hook ends in the loop of finish    *)
(* over the target's FIFO, the loop is Settle, one step per probe, with    *)
(* the mutex held (settling).  Only the clock moves meanwhile.             *)
(*                                                                         *)
(* All targets here have obsess enabled and share one policy.  Times are   *)
(* ticks, a baseline is the sum and number of its samples.  A probe is the *)
(* entry of the FIFO of its target: c.probes finds those not done, and the *)
(* deadline heap holds those accepted and not done.                        *)
(*                                                                         *)
(* A definition marked `Fault' is a plausible slip in the one after it.    *)
(***************************************************************************)
EXTENDS Integers, Sequences, FiniteSetsExt

CONSTANTS Targets,
          NormalInterval, FastInterval,
          Timeout,
          Absolute,       \* absolute latency threshold, 0 for none
          Percent,        \* relative latency threshold
          BaselineWindow, MinSamples, RecoverAfter,
          MaxTracked,     \* maxTrackedSamples
          Rtts,           \* round trip times that occur
          MaxTime,        \* bound: the clock stops here
          MaxDelay,       \* bound: from the stamp of a probe to BeginProbe
          MaxProbes,      \* bound: probes per target
          MaxGaps,        \* bound: scheduler gaps
          MaxChanges,     \* bound: endpoint changes
          MayStop         \* whether Run may be cancelled

None == -1           \* the zero time, and no early reply
NoTarget == "none"

ASSUME TargetsAssumption ==
  IsFiniteSet(Targets) /\ Targets # {} /\ NoTarget \notin Targets
ASSUME PolicyAssumption ==
  /\ {NormalInterval, FastInterval, Timeout, BaselineWindow, MinSamples,
      RecoverAfter, MaxTracked} \subseteq Nat \ {0}
  /\ FastInterval < NormalInterval
  /\ Absolute \in Nat /\ Percent \in Nat
  /\ Rtts \subseteq Nat
ASSUME BoundAssumption ==
  {MaxTime, MaxDelay, MaxProbes, MaxGaps, MaxChanges} \subseteq Nat /\ MayStop \in BOOLEAN

VARIABLES clock,
          state,     \* what targetState holds besides the FIFO
          fifo,      \* the probes of each target, oldest first
          tracked,   \* c.tracked
          samples,   \* c.samples
          settling,  \* target whose FIFO the holder of c.mu is settling
          run,       \* the goroutine Run: pc, and the local `now' or `next'
          wake,      \* a token in c.wake
          timerAt,   \* when the timer fires, None when it is stopped
          requested, \* the interval last passed to change
          begun, gapsSeen, changes, \* counters for the bounds
          sent,      \* environment: stamp of the last probe to the endpoint
          settled,   \* history: good probes settled since the last bad one
          broken     \* history: last time collection itself failed

hookVars == <<state, fifo, tracked, samples, settling, requested>>
runVars == <<run, timerAt>>
bounds == <<begun, gapsSeen, changes, sent>>
history == <<settled, broken>>
vars == <<clock, hookVars, runVars, wake, bounds, history>>

Instant == 0 .. MaxTime
Sum(f) == SumFunctionOnSet(f, Targets)
Baseline == [sum : Nat, count : Nat]
Fresh == [active |-> FALSE, base |-> [sum |-> 0, count |-> 0],
          lastBad |-> None, healthySince |-> None, healthyThrough |-> None,
          history |-> <<>>, limited |-> FALSE]

TypeOK ==
  /\ clock \in Instant
  /\ \A t \in Targets :
       LET s == state[t]
       IN  /\ s.active \in BOOLEAN /\ s.limited \in BOOLEAN
           /\ s.base \in Baseline
           /\ s.lastBad \in (0 .. MaxTime + Timeout) \cup {None}
           /\ {s.healthySince, s.healthyThrough} \subseteq Instant \cup {None}
           /\ (s.healthySince = None) <=> (s.healthyThrough = None)
           /\ ~s.active => s.healthySince = None
           /\ s.history \in Seq([at : Instant, rtt : Rtts])
  /\ fifo \in [Targets -> Seq([at : Instant, accepted : BOOLEAN,
                               done : BOOLEAN, good : BOOLEAN,
                               rtt : Rtts \cup {None}, early : Rtts \cup {None},
                               base : Baseline])]
  /\ settling \in Targets \cup {NoTarget}
  /\ run \in [pc : {"scan", "expiring", "arm", "select", "returned"},
              at : Nat \cup {None}]
  /\ wake \in BOOLEAN /\ timerAt \in Nat \cup {None}
  /\ requested \in [Targets -> {NormalInterval, FastInterval}]

Init ==
  /\ clock = 0
  /\ state = [t \in Targets |-> Fresh]
  /\ fifo = [t \in Targets |-> <<>>]
  /\ tracked = 0 /\ samples = 0
  /\ settling = NoTarget
  /\ run = [pc |-> "scan", at |-> None]
  /\ wake = FALSE /\ timerAt = None
  /\ requested = [t \in Targets |-> NormalInterval]
  /\ begun = [t \in Targets |-> 0] /\ gapsSeen = 0 /\ changes = 0
  /\ sent = [t \in Targets |-> None]
  /\ settled = [t \in Targets |-> <<>>]
  /\ broken = [t \in Targets |-> None]

LockFree == settling = NoTarget /\ run.pc # "expiring"
-----------------------------------------------------------------------------
(* The helpers of the controller map a record [state, samples] to another. *)

World == [state |-> state, samples |-> samples]
Store(w) == state' = w.state /\ samples' = w.samples

Deadline(p) == p.at + Timeout

\* average over the retained history
Average(s) ==
  [sum |-> FoldFunction(LAMBDA h, n : h.rtt + n, 0, s.history), count |-> Len(s.history)]

\* Whether limit knows a threshold, and rtt is above it.
Exceeds(rtt, base) ==
  IF Absolute > 0 THEN rtt > Absolute
  ELSE /\ base.count >= MinSamples
       /\ rtt * base.count * 100 > base.sum * (100 + Percent)

DropFirst(w, t, n) ==
  [w EXCEPT !.samples = @ - n,
            !.state[t].history = SubSeq(@, n + 1, Len(@))]
ClearHistory(w, t) == DropFirst(w, t, Len(w.state[t].history))

\* pruneHistory drops from the front what was sent before the window.
Stale(h, now) ==
  {i \in 1 .. Len(h) : \A j \in 1 .. i : h[j].at < now - BaselineWindow}
Prune(w, t, now) == DropFirst(w, t, Cardinality(Stale(w.state[t].history, now)))

\* Fault: the healthy run is cut, but not its end.
Interrupt_KeepsThrough(w, t, at) ==
  LET bad == [w EXCEPT !.state[t].lastBad = IF at > @ THEN at ELSE @]
  IN  IF ~w.state[t].active THEN bad
      ELSE ClearHistory([bad EXCEPT !.state[t].healthySince = None], t)

\* Fault: the samples of the incident are kept.
Interrupt_KeepsHistory(w, t, at) ==
  LET bad == [w EXCEPT !.state[t].lastBad = IF at > @ THEN at ELSE @]
  IN  IF ~w.state[t].active THEN bad
      ELSE [bad EXCEPT !.state[t].healthySince = None,
                       !.state[t].healthyThrough = None]

Interrupt(w, t, at) ==
  LET bad == [w EXCEPT !.state[t].lastBad = IF at > @ THEN at ELSE @]
  IN  IF ~w.state[t].active THEN bad
      ELSE ClearHistory([bad EXCEPT !.state[t].healthySince = None,
                                    !.state[t].healthyThrough = None], t)

\* fault freezes the baseline the probe was begun with.
Fault(w, t, p, at) ==
  LET entered == [w EXCEPT !.state[t].active = TRUE, !.state[t].base = p.base]
  IN  Interrupt(IF w.state[t].active THEN w ELSE entered, t, at)

\* Fault: one too many.
BelowLimit_OffByOne(held) == held <= MaxTracked

BelowLimit(held) == held < MaxTracked

\* makeRoom: the results it may leave, after evicting the oldest sample of any
\* target that has one if need be (the map is walked in any order); none if
\* there is nothing to evict.
Rooms(w, held) ==
  IF BelowLimit(held + w.samples) THEN {w}
  ELSE {Interrupt([DropFirst(w, v, 1) EXCEPT !.state[v].limited = TRUE], v, clock) :
          v \in {u \in Targets : w.state[u].history # <<>>}}

\* addSample: the results it may leave, given c.tracked.
AddSample(w, t, sample, held) ==
  LET pruned == Prune(w, t, clock)
      rooms == Rooms(pruned, held)
  IN  IF sample.at < clock - BaselineWindow \/ rooms = {} THEN {pruned}
      ELSE {[r EXCEPT !.samples = @ + 1,
                      !.state[t].history = Append(@, sample)] : r \in rooms}

\* change is called with the cadence of every target whose mode has changed.
Announce(w) ==
  requested' = [t \in Targets |->
    IF w.state[t].active = state[t].active THEN requested[t]
    ELSE IF w.state[t].active THEN FastInterval ELSE NormalInterval]

\* finish: probe i of t is done, and the loop over the FIFO begins.
Finish(w, t, i, good, rtt) ==
  LET q == [fifo[t] EXCEPT ![i].accepted = TRUE, ![i].done = TRUE,
                           ![i].good = good, ![i].rtt = rtt, ![i].early = None]
  IN  /\ fifo' = [fifo EXCEPT ![t] = q]
      /\ settling' = IF Head(q).done THEN t ELSE NoTarget
      /\ Store(w) /\ Announce(w)
      /\ settled' = IF state[t].active THEN settled ELSE [settled EXCEPT ![t] = <<>>]
      /\ UNCHANGED tracked

\* reply: late, too slow, or good.
Reply(t, i, rtt) ==
  LET p == fifo[t][i]
      base == IF state[t].active THEN state[t].base ELSE p.base
      late == rtt > Timeout
      bad == late \/ Exceeds(rtt, base)
      at == IF late THEN Deadline(p) ELSE p.at + rtt
  IN  Finish(IF bad THEN Fault(World, t, p, at) ELSE World, t, i, ~bad, rtt)
-----------------------------------------------------------------------------
(* The hooks.                                                              *)

\* One send loop writes the probes of an endpoint, one at a time.  It stamps a
\* probe before BeginProbe: a write lies between two stamps, so they differ.
MayBegin(t, at) ==
  /\ LockFree /\ begun[t] < MaxProbes
  /\ at \in clock - MaxDelay .. clock
  /\ at > sent[t]
  /\ fifo[t] # <<>> => fifo[t][Len(fifo[t])].accepted

BeginProbe(t, at) ==
  /\ MayBegin(t, at)
  /\ \E w \in Rooms(Prune(World, t, at), tracked) :
       /\ Store(w)
       /\ fifo' = [fifo EXCEPT ![t] = Append(@,
            [at |-> at, accepted |-> FALSE, done |-> FALSE, good |-> FALSE,
             rtt |-> None, early |-> None,
             base |-> IF w.state[t].active THEN w.state[t].base
                      ELSE Average(w.state[t])])]
  /\ tracked' = tracked + 1
  /\ begun' = [begun EXCEPT ![t] = @ + 1]
  /\ sent' = [sent EXCEPT ![t] = at]
  /\ UNCHANGED <<clock, settling, requested, runVars, wake, gapsSeen, changes,
                 history>>

\* No room: the probe cannot be observed, its whole lifetime is bad.
BeginUntracked(t, at) ==
  /\ MayBegin(t, at)
  /\ LET pruned == Prune(World, t, at)
     IN  /\ Rooms(pruned, tracked) = {}
         /\ Store(Interrupt([pruned EXCEPT !.state[t].limited = TRUE],
                            t, at + Timeout))
  /\ broken' = [broken EXCEPT ![t] = Max({@, at + Timeout})]
  /\ begun' = [begun EXCEPT ![t] = @ + 1]
  /\ sent' = [sent EXCEPT ![t] = at]
  /\ UNCHANGED <<clock, fifo, tracked, settling, requested, runVars, wake,
                 gapsSeen, changes, settled>>

\* The probe of t whose write is in progress: the newest one.
Writing(t) == fifo[t] # <<>> /\ ~fifo[t][Len(fifo[t])].accepted

\* Fault: Run is not told of the new deadline.
CompleteProbe_NoSignal(t) ==
  LET n == Len(fifo[t])
  IN  /\ LockFree /\ Writing(t) /\ fifo[t][n].early = None
      /\ fifo' = [fifo EXCEPT ![t][n].accepted = TRUE]
      /\ UNCHANGED <<clock, state, tracked, samples, settling, requested,
                     runVars, wake, bounds, history>>

\* CompleteProbe of a write that succeeded, before any reply.
CompleteProbe(t) ==
  LET n == Len(fifo[t])
  IN  /\ LockFree /\ Writing(t) /\ fifo[t][n].early = None
      /\ fifo' = [fifo EXCEPT ![t][n].accepted = TRUE]
      /\ wake' = TRUE
      /\ UNCHANGED <<clock, state, tracked, samples, settling, requested,
                     runVars, bounds, history>>

\* CompleteProbe of a write whose reply came first.
CompleteAnswered(t) ==
  LET n == Len(fifo[t])
  IN  /\ LockFree /\ Writing(t) /\ fifo[t][n].early # None
      /\ Reply(t, n, fifo[t][n].early)
      /\ UNCHANGED <<clock, runVars, wake, bounds, broken>>

\* CompleteProbe of a write that failed.
CompleteFailed(t) ==
  /\ LockFree /\ Writing(t)
  /\ Finish(Interrupt(World, t, clock), t, Len(fifo[t]), FALSE, None)
  /\ broken' = [broken EXCEPT ![t] = Max({@, clock})]
  /\ UNCHANGED <<clock, runVars, wake, bounds>>

\* ObserveReply before CompleteProbe: the first reply is kept.
ObserveEarly(t, rtt) ==
  LET n == Len(fifo[t])
  IN  /\ LockFree /\ Writing(t)
      /\ fifo[t][n].early = None /\ fifo[t][n].at + rtt <= clock
      /\ fifo' = [fifo EXCEPT ![t][n].early = rtt]
      /\ UNCHANGED <<clock, state, tracked, samples, settling, requested,
                     runVars, wake, bounds, history>>

\* ObserveReply of a probe with a deadline.  The round trip time was measured
\* by the receive loop, any time before the hook gets the mutex.
ObserveReply(t, i, rtt) ==
  /\ LockFree
  /\ i \in 1 .. Len(fifo[t])
  /\ fifo[t][i].accepted /\ ~fifo[t][i].done
  /\ fifo[t][i].at + rtt <= clock
  /\ Reply(t, i, rtt)
  /\ wake' = TRUE
  /\ UNCHANGED <<clock, runVars, bounds, broken>>

ObserveGap(t) ==
  /\ LockFree /\ gapsSeen < MaxGaps
  /\ Store(Interrupt(World, t, clock))
  /\ broken' = [broken EXCEPT ![t] = Max({@, clock})]
  /\ gapsSeen' = gapsSeen + 1
  /\ UNCHANGED <<clock, fifo, tracked, settling, requested, runVars, wake,
                 begun, changes, sent, settled>>

\* What UpdateEndpoint does besides the counter and the announcement.
Replace(t) ==
  /\ LockFree /\ changes < MaxChanges
  /\ fifo' = [fifo EXCEPT ![t] = <<>>]
  /\ Store([ClearHistory(World, t) EXCEPT !.state[t] = Fresh])
  /\ wake' = TRUE
  /\ changes' = changes + 1
  /\ settled' = [settled EXCEPT ![t] = <<>>]
  /\ broken' = [broken EXCEPT ![t] = None]
  /\ sent' = [sent EXCEPT ![t] = None]
  /\ UNCHANGED <<clock, settling, runVars, begun, gapsSeen>>

\* Fault: the scheduler is not told.
UpdateEndpoint_Silent(t) ==
  /\ Replace(t)
  /\ tracked' = tracked - Len(fifo[t])
  /\ UNCHANGED requested

\* UpdateEndpoint with another address: a new start for the target.
UpdateEndpoint(t) ==
  /\ Replace(t)
  /\ tracked' = tracked - Len(fifo[t])
  /\ requested' = [requested EXCEPT ![t] = IF state[t].active THEN NormalInterval ELSE @]

\* Snapshot reads the status, and prunes.
Snapshot(t) ==
  /\ LockFree
  /\ Stale(state[t].history, clock) # {}
  /\ Store(Prune(World, t, clock))
  /\ UNCHANGED <<clock, fifo, tracked, settling, requested, runVars, wake,
                 bounds, history>>
-----------------------------------------------------------------------------
(* The loop of finish, with the mutex held.                                *)

\* Fault: silence between two probes counts as health.
Discontinuous_Never(s, at) == FALSE

\* More than twice the fast cadence has passed since the last healthy probe.
Discontinuous(s, at) ==
  s.healthyThrough # None /\ at - s.healthyThrough > 2 * FastInterval

\* The oldest probe extends or begins the healthy run of an incident.
Extend(w, t, at) ==
  LET cut == IF Discontinuous(w.state[t], at) THEN Interrupt(w, t, at) ELSE w
  IN  [cut EXCEPT !.state[t].healthySince = IF @ = None THEN at ELSE @,
                  !.state[t].healthyThrough = at]

Recovered(s) ==
  s.active /\ s.healthyThrough - s.healthySince >= RecoverAfter
Recover(w, t) ==
  IF ~Recovered(w.state[t]) THEN w
  ELSE [w EXCEPT !.state[t].active = FALSE, !.state[t].limited = FALSE,
                 !.state[t].healthySince = None, !.state[t].healthyThrough = None]

\* A result can have settled before an earlier timeout froze the threshold.
TooSlow(s, p) == s.active /\ Exceeds(p.rtt, s.base)

\* What the loop may make of the oldest probe.
Outcomes(t, p) ==
  LET s == state[t]
      sample == [at |-> p.at, rtt |-> p.rtt]
  IN  IF ~p.good THEN {World}
      ELSE IF TooSlow(s, p) THEN {Fault(World, t, p, p.at + p.rtt)}
      ELSE IF ~s.active THEN AddSample(World, t, sample, tracked - 1)
      ELSE IF p.at < s.lastBad THEN {World}
      ELSE {Recover(w, t) : w \in AddSample(Extend(World, t, p.at), t, sample, tracked - 1)}

Settle(t) ==
  /\ settling = t
  /\ LET p == Head(fifo[t])
         rest == Tail(fifo[t])
         good == p.good /\ ~Exceeds(p.rtt, state[t].base)
     IN  /\ \E w \in Outcomes(t, p) : Store(w) /\ Announce(w)
         /\ fifo' = [fifo EXCEPT ![t] = rest]
         /\ settling' = IF rest # <<>> /\ Head(rest).done THEN t ELSE NoTarget
         /\ settled' = [settled EXCEPT ![t] =
              IF good /\ state[t].active THEN Append(@, p.at) ELSE <<>>]
  /\ tracked' = tracked - 1
  /\ UNCHANGED <<clock, runVars, wake, bounds, broken>>
-----------------------------------------------------------------------------
(* Run.                                                                    *)

ProbeAt(x) == fifo[x[1]][x[2]]
Open == {x \in Targets \X (1 .. MaxProbes) :
           x[2] <= Len(fifo[x[1]]) /\ ProbeAt(x).accepted /\ ~ProbeAt(x).done}
DeadlineOf(x) == Deadline(ProbeAt(x))
NextDeadline == IF Open = {} THEN None ELSE Min({DeadlineOf(x) : x \in Open})

Scan ==
  /\ run.pc = "scan" /\ settling = NoTarget
  /\ run' = [pc |-> "expiring", at |-> clock]
  /\ UNCHANGED <<clock, hookVars, timerAt, wake, bounds, history>>

\* One iteration of expire: a loss at the deadline, whatever the time is now.
Expire(x) ==
  /\ run.pc = "expiring" /\ settling = NoTarget
  /\ x \in Open /\ DeadlineOf(x) = NextDeadline /\ NextDeadline <= run.at
  /\ LET p == ProbeAt(x)
     IN  Finish(Fault(World, x[1], p, Deadline(p)), x[1], x[2], FALSE, None)
  /\ wake' = TRUE
  /\ UNCHANGED <<clock, runVars, bounds, broken>>

\* expire is done, and the mutex is released.
ScanDone ==
  /\ run.pc = "expiring" /\ settling = NoTarget
  /\ NextDeadline = None \/ NextDeadline > run.at
  /\ run' = [pc |-> "arm", at |-> NextDeadline]
  /\ UNCHANGED <<clock, hookVars, timerAt, wake, bounds, history>>

Arm ==
  /\ run.pc = "arm"
  /\ timerAt' = IF run.at = None THEN None ELSE Max({run.at, clock})
  /\ run' = [pc |-> "select", at |-> None]
  /\ UNCHANGED <<clock, hookVars, wake, bounds, history>>

\* select on the wake channel and the timer; the timer is then stopped.
WakeUp ==
  /\ run.pc = "select"
  /\ \/ wake /\ wake' = FALSE
     \/ timerAt # None /\ timerAt <= clock /\ UNCHANGED wake
  /\ run' = [run EXCEPT !.pc = "scan"]
  /\ timerAt' = None
  /\ UNCHANGED <<clock, hookVars, bounds, history>>

\* ctx is cancelled.
Return ==
  /\ MayStop /\ run.pc = "select"
  /\ run' = [run EXCEPT !.pc = "returned"]
  /\ timerAt' = None
  /\ UNCHANGED <<clock, hookVars, wake, bounds, history>>

Tick ==
  /\ clock < MaxTime
  /\ clock' = clock + 1
  /\ UNCHANGED <<hookVars, runVars, wake, bounds, history>>
-----------------------------------------------------------------------------
RunStep == Scan \/ (\E x \in Open : Expire(x)) \/ ScanDone \/ Arm \/ WakeUp
SettleStep == \E t \in Targets : Settle(t)
Hook(t) ==
  \/ \E at \in Instant : BeginProbe(t, at) \/ BeginUntracked(t, at)
  \/ CompleteProbe(t) \/ CompleteAnswered(t) \/ CompleteFailed(t)
  \/ \E rtt \in Rtts : \/ ObserveEarly(t, rtt)
                       \/ \E i \in 1 .. MaxProbes : ObserveReply(t, i, rtt)
  \/ ObserveGap(t) \/ UpdateEndpoint(t) \/ Snapshot(t)

Next == RunStep \/ SettleStep \/ Return \/ Tick \/ \E t \in Targets : Hook(t)

\* Run is scheduled, a hook that holds the mutex finishes, and time passes;
\* nothing is assumed of probes and replies.
Spec ==
  Init /\ [][Next]_vars /\ WF_vars(RunStep) /\ WF_vars(SettleStep) /\ WF_vars(Tick)
-----------------------------------------------------------------------------
(* Properties.                                                             *)

\* The two counters that makeRoom trusts are what is really held: hooks that
\* drop probes or samples in bulk (endpoint changes, interruptions, pruning,
\* evictions from another target) must each correct them.
Bookkeeping ==
  /\ tracked = Sum([t \in Targets |-> Len(fifo[t])])
  /\ samples = Sum([t \in Targets |-> Len(state[t].history)])

\* What all targets hold together stays within the memory bound the
\* configuration is validated against, by counters that are exact.
WithinCapacity == Bookkeeping /\ tracked + samples <= MaxTracked

\* The cadence last requested from the scheduler is that of the mode the
\* target is in, through faults, recoveries and endpoint changes.
CadenceFollowsState ==
  \A t \in Targets :
    requested[t] = IF state[t].active THEN FastInterval ELSE NormalInterval

\* Slow answers never become the next normal: while an incident lasts, no
\* sample above its frozen threshold is in the history that seeds the next
\* baseline, also when it was accepted before the threshold was frozen.
DegradedNeverLearned ==
  \A t \in Targets : state[t].active =>
    \A i \in 1 .. Len(state[t].history) :
      ~Exceeds(state[t].history[i].rtt, state[t].base)

\* The last n good probes of t, by when they were sent, and what they show.
Evidence(t, n) ==
  LET log == settled'[t] IN SubSeq(log, Len(log) - n + 1, Len(log))
Healthy(e, t) ==
  /\ e[Len(e)] - e[1] >= RecoverAfter
  /\ \A i \in 2 .. Len(e) : e[i] - e[i - 1] <= 2 * FastInterval
  /\ broken[t] <= e[1]

\* An incident ends only with the evidence the design asks for: the probes
\* settled last, in the order in which they were sent and without exception,
\* were good by the frozen threshold, span recover_after, were never further
\* apart than twice the fast cadence, and followed the last send error,
\* scheduler gap or unobserved probe.
RecoveryIsEarned ==
  [][\A t \in Targets :
       state[t].active /\ ~state'[t].active /\ changes' = changes =>
         \E n \in 1 .. Len(settled'[t]) : Healthy(Evidence(t, n), t)]_vars

\* A deadline that has passed is acted on.
DeadlinesAreEnforced ==
  []<>(\A x \in Open : DeadlineOf(x) > clock)
=============================================================================
