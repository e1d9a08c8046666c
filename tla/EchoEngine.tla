---------------------------- MODULE EchoEngine ------------------------------
(***************************************************************************)
(* internal/echo/engine.go between the scheduler and the event bus, with   *)
(* the shutdown of internal/app/app.go: admission (TrySubmit, RecordGap),  *)
(* one send loop and one receive loop per address family, the gap loop,    *)
(* DNS changes of the endpoint, and DrainInputs.  The bus is used through  *)
(* LosslessStream, which EventBus implements.                              *)
(*                                                                         *)
(* One target is modelled.  Slots are numbered in the order in which they  *)
(* come due; an event is <<kind, slots>>: a probe that was sent or failed, *)
(* a scheduler gap, or a reply.  The scheduler is reduced to what the      *)
(* engine sees of it: it offers slots one by one, keeps those refused in   *)
(* one pending gap, and hands that gap over now and then.                  *)
(***************************************************************************)
EXTENDS Naturals, Sequences, FiniteSets, Functions

CONSTANTS Endpoints, Family,  \* addresses and the family of each
          None,               \* an endpoint that does not resolve
          SendQueue,          \* capacity of v4jobs, v6jobs and gaps
          Capacity,           \* capacity of the event bus
          MaxSlots,           \* bound: slots that come due
          MaxChanges,         \* bound: endpoint changes
          MaxReplies,         \* bound: replies received, duplicates included
          SocketsMayFail,     \* a receive loop may lose its socket
          WriterMayFail,      \* the storage writer may stop for good
          MayTimeOut          \* the waits of the shutdown may run out

\* The families app.Run opens a socket for.
Families == {Family[e] : e \in Endpoints}
ASSUME EndpointsAssumption ==
  None \notin Endpoints /\ Family \in [Endpoints -> {"v4", "v6"}]
ASSUME CapacityAssumption ==
  /\ SendQueue \in Nat \ {0} /\ Capacity \in Nat \ {0}
  /\ {MaxSlots, MaxChanges, MaxReplies} \subseteq Nat
ASSUME FailureAssumption ==
  {SocketsMayFail, WriterMayFail, MayTimeOut} \subseteq BOOLEAN

VARIABLES current,      \* e.current of the target
          changes,      \* endpoint changes so far
          jobs, gaps,   \* channels: <<slot, endpoint>> by family; sets of slots
          inputsClosed, \* e.inputsClosed
          failed,       \* families whose v4Failed/v6Failed flag is set
          closed,       \* families whose socket is closed
          sched,        \* the scheduler's goroutine: pc, offer, missed, record
          offered,      \* slots offered so far
          sender,       \* send loop of each family: pc, slot, endpoint, outcome
          reporter,     \* the gap loop: pc, slots
          receiver,     \* receive loop of each family: pc, slot
          network,      \* slots whose echo request is answered, by family
          replies,      \* replies received so far
          claims, pending, delivered, \* the event bus
          writer,       \* "running", "cancelled" or "stopped"
          app,          \* stage of app.Run
          timedOut,     \* a wait of the shutdown ran out
          dropped       \* history: slots given up without any event

busVars == <<claims, pending, delivered>>
schedVars == <<sched, offered>>
inputVars == <<jobs, gaps, inputsClosed>>
endpointVars == <<current, changes>>
socketVars == <<failed, closed, network, replies>>
appVars == <<writer, app, timedOut>>
env == <<endpointVars, socketVars, appVars>>
vars == <<endpointVars, inputVars, socketVars, schedVars, sender, reporter,
          receiver, busVars, appVars, dropped>>

Slot == 1 .. MaxSlots
Kinds == {"sent", "send_error", "gap", "reply"}
Events == Kinds \X SUBSET Slot
Bus == INSTANCE LosslessStream

\* What has been put on the bus, received by the writer or not.
Published == {delivered[i] : i \in 1 .. Len(delivered)}
             \cup {pending[i] : i \in 1 .. Len(pending)}
SlotsOf(kinds) == UNION {e[2] : e \in {x \in Published : x[1] \in kinds}}

SenderStates == {"receive", "reserve", "resolve", "write", "publish", "gap",
                 "returned"}
TypeOK ==
  /\ current \in Endpoints \cup {None}
  /\ jobs \in [Families -> Seq(Slot \X Endpoints)]
  /\ gaps \in Seq(SUBSET Slot)
  /\ \A f \in Families : Len(jobs[f]) <= SendQueue
  /\ Len(gaps) <= SendQueue
  /\ inputsClosed \in BOOLEAN
  /\ failed \subseteq Families /\ closed \subseteq Families
  /\ sched \in [pc : {"idle", "offering", "recording", "sending", "returned"},
                offer : Endpoints \cup {None}, missed : SUBSET Slot,
                record : SUBSET Slot]
  /\ sender \in [Families -> [pc : SenderStates, slot : Slot \cup {0},
                              endpoint : Endpoints \cup {None},
                              outcome : {"sent", "send_error"}]]
  /\ reporter \in [pc : {"receive", "publish", "returned"},
                   slots : SUBSET Slot]
  /\ receiver \in [Families -> [pc : {"read", "publish", "failing", "returned"},
                                slot : Slot \cup {0}]]
  /\ network \in [Families -> SUBSET Slot]
  /\ claims \in 0 .. Capacity
  /\ Len(pending) <= Capacity /\ Published \subseteq Events
  /\ dropped \subseteq Slot

Init ==
  /\ current \in Endpoints \cup {None} /\ changes = 0
  /\ jobs = [f \in Families |-> <<>>] /\ gaps = <<>>
  /\ inputsClosed = FALSE
  /\ failed = {} /\ closed = {}
  /\ network = [f \in Families |-> {}] /\ replies = 0
  /\ sched = [pc |-> "idle", offer |-> None, missed |-> {}, record |-> {}]
  /\ offered = 0
  /\ sender = [f \in Families |-> [pc |-> "receive", slot |-> 0,
                                   endpoint |-> None, outcome |-> "sent"]]
  /\ reporter = [pc |-> "receive", slots |-> {}]
  /\ receiver = [f \in Families |-> [pc |-> "read", slot |-> 0]]
  /\ Bus!Init
  /\ writer = "running" /\ app = "running" /\ timedOut = FALSE
  /\ dropped = {}

\* Stages of app.Run, in order.
Stages == <<"running", "stopScheduler", "drain", "draining", "drained",
            "cancelled", "busClosed", "returned">>
Reached(stage) ==
  \E i, j \in 1 .. Len(Stages) : i <= j /\ Stages[i] = stage /\ Stages[j] = app
SchedulerCancelled == Reached("stopScheduler")
ProducersCancelled == Reached("cancelled")

\* group.Wait has returned, and Run has closed e.done.
EngineDone ==
  /\ reporter.pc = "returned"
  /\ \A f \in Families : sender[f].pc = "returned" /\ receiver[f].pc = "returned"

\* inputWG.Wait has returned.
InputsDone ==
  reporter.pc = "returned" /\ \A f \in Families : sender[f].pc = "returned"
-----------------------------------------------------------------------------
(* Admission: TrySubmit and RecordGap, called by the scheduler.            *)

Refused(slot) == sched.missed \cup {slot}

\* TrySubmit returns false before it looks at a queue.
RefuseOffer ==
  /\ sched.pc = "idle" /\ offered < MaxSlots
  /\ inputsClosed \/ EngineDone \/ current = None
  /\ offered' = offered + 1
  /\ sched' = [sched EXCEPT !.missed = Refused(offered + 1)]
  /\ UNCHANGED <<inputVars, sender, reporter, receiver, busVars, dropped, env>>

\* TrySubmit takes the endpoint in force, under inputMu for reading.
ResolveOffer ==
  /\ sched.pc = "idle" /\ offered < MaxSlots
  /\ ~inputsClosed /\ ~EngineDone /\ current # None
  /\ offered' = offered + 1
  /\ sched' = [sched EXCEPT !.pc = "offering", !.offer = current]
  /\ UNCHANGED <<inputVars, sender, reporter, receiver, busVars, dropped, env>>

\* Fault: a full send queue is not noticed.
HasRoom_NoLimit(f) == f \notin failed

HasRoom(f) == f \notin failed /\ Len(jobs[f]) < SendQueue

\* The job is queued; the scheduler then records the gap before it, if any.
AcceptOffer ==
  /\ sched.pc = "offering"
  /\ LET f == Family[sched.offer]
     IN  /\ HasRoom(f)
         /\ jobs' = [jobs EXCEPT ![f] = Append(@, <<offered, sched.offer>>)]
  /\ sched' = [pc |-> IF sched.missed = {} THEN "idle" ELSE "recording",
               offer |-> None, missed |-> {}, record |-> sched.missed]
  /\ UNCHANGED <<offered, gaps, inputsClosed, sender, reporter, receiver,
                 busVars, dropped, env>>

RejectOffer ==
  /\ sched.pc = "offering"
  /\ ~HasRoom(Family[sched.offer])
  /\ sched' = [sched EXCEPT !.pc = "idle", !.offer = None, !.missed = Refused(offered)]
  /\ UNCHANGED <<offered, inputVars, sender, reporter, receiver, busVars,
                 dropped, env>>

\* The scheduler's periodic flush, or the flush on its way out.
FlushGap ==
  /\ sched.pc = "idle" /\ sched.missed # {}
  /\ sched' = [sched EXCEPT !.pc = "recording", !.missed = {}, !.record = sched.missed]
  /\ UNCHANGED <<offered, inputVars, sender, reporter, receiver, busVars,
                 dropped, env>>

\* RecordGap returns without effect once inputs are closed or the engine ended.
RecordGapRefused ==
  /\ \/ sched.pc = "recording" /\ (inputsClosed \/ EngineDone)
     \/ sched.pc = "sending" /\ EngineDone
  /\ sched' = [sched EXCEPT !.pc = "idle", !.record = {}]
  /\ dropped' = dropped \cup sched.record
  /\ UNCHANGED <<offered, inputVars, sender, reporter, receiver, busVars, env>>

\* From here until the send succeeds RecordGap holds inputMu for reading.
EnterRecordGap ==
  /\ sched.pc = "recording" /\ ~inputsClosed /\ ~EngineDone
  /\ sched' = [sched EXCEPT !.pc = "sending"]
  /\ UNCHANGED <<offered, inputVars, sender, reporter, receiver, busVars,
                 dropped, env>>

\* case e.gaps <- gap
SendGap ==
  /\ sched.pc = "sending" /\ Len(gaps) < SendQueue
  /\ gaps' = Append(gaps, sched.record)
  /\ sched' = [sched EXCEPT !.pc = "idle", !.record = {}]
  /\ UNCHANGED <<offered, jobs, inputsClosed, sender, reporter, receiver,
                 busVars, dropped, env>>

SchedulerReturns ==
  /\ SchedulerCancelled /\ sched.pc = "idle" /\ sched.missed = {}
  /\ sched' = [sched EXCEPT !.pc = "returned"]
  /\ UNCHANGED <<offered, inputVars, sender, reporter, receiver, busVars,
                 dropped, env>>

HoldsInputLock == sched.pc \in {"offering", "sending"}
-----------------------------------------------------------------------------
(* sendLoop of family f.                                                   *)

SenderGoto(f, from, to) ==
  sender[f].pc = from /\ sender' = [sender EXCEPT ![f].pc = to]

\* Fault: a job found after the socket has failed is thrown away.
TakeJob_Discards(f) ==
  /\ sender[f].pc = "receive" /\ jobs[f] # <<>>
  /\ sender' = [sender EXCEPT ![f] =
       [pc |-> IF f \in failed THEN "receive" ELSE "reserve",
        slot |-> Head(jobs[f])[1], endpoint |-> Head(jobs[f])[2],
        outcome |-> "sent"]]
  /\ jobs' = [jobs EXCEPT ![f] = Tail(@)]
  /\ UNCHANGED <<schedVars, gaps, inputsClosed, reporter, receiver, busVars,
                 dropped, env>>

TakeJob(f) ==
  /\ sender[f].pc = "receive" /\ jobs[f] # <<>>
  /\ sender' = [sender EXCEPT ![f] =
       [pc |-> IF f \in failed THEN "gap" ELSE "reserve",
        slot |-> Head(jobs[f])[1], endpoint |-> Head(jobs[f])[2],
        outcome |-> "sent"]]
  /\ jobs' = [jobs EXCEPT ![f] = Tail(@)]
  /\ UNCHANGED <<schedVars, gaps, inputsClosed, reporter, receiver, busVars,
                 dropped, env>>

\* The channel is closed and empty, or the context is cancelled.
SenderReturns(f) ==
  /\ SenderGoto(f, "receive", "returned")
  /\ (inputsClosed /\ jobs[f] = <<>>) \/ ProducersCancelled
  /\ UNCHANGED <<schedVars, inputVars, reporter, receiver, busVars, dropped,
                 env>>

\* bus.Reserve
SenderReserves(f) ==
  /\ SenderGoto(f, "reserve", "resolve")
  /\ Bus!Claim
  /\ UNCHANGED <<schedVars, inputVars, reporter, receiver, dropped, env>>

\* Fault: the new endpoint is taken whatever its family.
BeginProbe_AnyFamily(f) ==
  /\ sender[f].pc = "resolve"
  /\ current # None
  /\ sender' = [sender EXCEPT ![f].pc = "write", ![f].endpoint = current]
  /\ UNCHANGED <<schedVars, inputVars, reporter, receiver, busVars, dropped,
                 env>>

\* Under e.mu, with capacity in hand: the queued job goes to the endpoint of
\* the moment (BeginProbe) if that still has this family.
BeginProbe(f) ==
  /\ sender[f].pc = "resolve"
  /\ current # None /\ Family[current] = f
  /\ sender' = [sender EXCEPT ![f].pc = "write", ![f].endpoint = current]
  /\ UNCHANGED <<schedVars, inputVars, reporter, receiver, busVars, dropped,
                 env>>

\* Fault: the reservation is not cancelled.
AbandonProbe_KeepsReservation(f) ==
  /\ SenderGoto(f, "resolve", "gap")
  /\ current = None \/ Family[current] # f
  /\ UNCHANGED <<schedVars, inputVars, reporter, receiver, busVars, dropped,
                 env>>

\* Otherwise the reservation is given back and the slot becomes a gap.
AbandonProbe(f) ==
  /\ SenderGoto(f, "resolve", "gap")
  /\ current = None \/ Family[current] # f
  /\ Bus!GiveBack
  /\ UNCHANGED <<schedVars, inputVars, reporter, receiver, dropped, env>>

\* WriteEcho fails on a closed socket, and may fail on an open one.
WriteEcho(f, outcome) ==
  /\ sender[f].pc = "write"
  /\ outcome = "sent" => f \notin closed
  /\ sender' = [sender EXCEPT ![f].pc = "publish", ![f].outcome = outcome]
  /\ network' = IF outcome = "sent"
                THEN [network EXCEPT ![f] = @ \cup {sender[f].slot}] ELSE network
  /\ UNCHANGED <<schedVars, endpointVars, inputVars, failed, closed,
                 replies, reporter, receiver, busVars, appVars, dropped>>

\* reservation.Publish
SenderPublishes(f) ==
  /\ SenderGoto(f, "publish", "receive")
  /\ Bus!Accept(<<sender[f].outcome, {sender[f].slot}>>)
  /\ UNCHANGED <<schedVars, inputVars, reporter, receiver, dropped, env>>

\* publishUnsentGap
SenderPublishesGap(f) ==
  /\ SenderGoto(f, "gap", "receive")
  /\ Bus!Publish(<<"gap", {sender[f].slot}>>)
  /\ UNCHANGED <<schedVars, inputVars, reporter, receiver, dropped, env>>

\* Reserve returns an error on the cancelled context or the closed bus, and
\* Publish on the closed bus: the loop ends with the slot in hand.
SenderFails(f) ==
  /\ \/ sender[f].pc \in {"reserve", "gap"} /\ ProducersCancelled /\ UNCHANGED busVars
     \/ sender[f].pc = "publish" /\ Reached("busClosed") /\ Bus!GiveBack
  /\ sender' = [sender EXCEPT ![f].pc = "returned"]
  /\ dropped' = dropped \cup {sender[f].slot}
  /\ UNCHANGED <<schedVars, inputVars, reporter, receiver, env>>
-----------------------------------------------------------------------------
(* The gap loop.                                                           *)

TakeGap ==
  /\ reporter.pc = "receive" /\ gaps # <<>>
  /\ reporter' = [pc |-> "publish", slots |-> Head(gaps)]
  /\ gaps' = Tail(gaps)
  /\ UNCHANGED <<schedVars, jobs, inputsClosed, sender, receiver, busVars,
                 dropped, env>>

ReporterPublishes ==
  /\ reporter.pc = "publish"
  /\ reporter' = [pc |-> "receive", slots |-> {}]
  /\ Bus!Publish(<<"gap", reporter.slots>>)
  /\ UNCHANGED <<schedVars, inputVars, sender, receiver, dropped, env>>

ReporterReturns ==
  /\ \/ reporter.pc = "receive" /\ inputsClosed /\ gaps = <<>>
     \/ reporter.pc # "returned" /\ ProducersCancelled
  /\ reporter' = [pc |-> "returned", slots |-> {}]
  /\ dropped' = dropped \cup reporter.slots
  /\ UNCHANGED <<schedVars, inputVars, sender, receiver, busVars, env>>
-----------------------------------------------------------------------------
(* receiveLoop and runReceiver of family f.                                *)

\* An authenticated reply of this run; it may be one of several to a probe.
ReadEcho(f, slot) ==
  /\ receiver[f].pc = "read" /\ f \notin closed
  /\ slot \in network[f] /\ replies < MaxReplies
  /\ receiver' = [receiver EXCEPT ![f] = [pc |-> "publish", slot |-> slot]]
  /\ replies' = replies + 1
  /\ UNCHANGED <<schedVars, endpointVars, inputVars, failed, closed,
                 network, sender, reporter, busVars, appVars, dropped>>

ReceiverPublishes(f) ==
  /\ receiver[f].pc = "publish"
  /\ receiver' = [receiver EXCEPT ![f] = [pc |-> "read", slot |-> 0]]
  /\ Bus!Publish(<<"reply", {receiver[f].slot}>>)
  /\ UNCHANGED <<schedVars, inputVars, sender, reporter, dropped, env>>

\* Cancelled or closing: runReceiver returns nil.
ReceiverReturns(f) ==
  /\ \/ receiver[f].pc = "read" /\ Reached("drained")
     \/ receiver[f].pc = "publish" /\ ProducersCancelled
  /\ receiver' = [receiver EXCEPT ![f] = [pc |-> "returned", slot |-> 0]]
  /\ UNCHANGED <<schedVars, inputVars, sender, reporter, busVars, dropped, env>>

\* The socket fails: the flag is set first, then the socket is closed.
SocketFails(f) ==
  /\ SocketsMayFail /\ ~Reached("drained")
  /\ receiver[f].pc = "read"
  /\ receiver' = [receiver EXCEPT ![f].pc = "failing"]
  /\ failed' = failed \cup {f}
  /\ UNCHANGED <<schedVars, endpointVars, inputVars, closed, network,
                 replies, sender, reporter, busVars, appVars, dropped>>

CloseFamily(f) ==
  /\ receiver[f].pc = "failing"
  /\ receiver' = [receiver EXCEPT ![f].pc = "returned"]
  /\ closed' = closed \cup {f}
  /\ UNCHANGED <<schedVars, endpointVars, inputVars, failed, network,
                 replies, sender, reporter, busVars, appVars, dropped>>
-----------------------------------------------------------------------------
(* DNS refresh, the writer, and the shutdown in app.Run.                   *)

UpdateEndpoint(e) ==
  /\ ~ProducersCancelled /\ changes < MaxChanges
  /\ e # current
  /\ current' = e
  /\ changes' = changes + 1
  /\ UNCHANGED <<schedVars, inputVars, socketVars, sender, reporter,
                 receiver, busVars, appVars, dropped>>

WriterReceives ==
  /\ writer # "stopped"
  /\ Bus!Deliver
  /\ UNCHANGED <<schedVars, inputVars, sender, reporter, receiver, dropped, env>>

\* A permanent write error, or the cancelled context is noticed.
WriterStops ==
  /\ writer = "cancelled" \/ (WriterMayFail /\ writer = "running")
  /\ writer' = "stopped"
  /\ UNCHANGED <<schedVars, endpointVars, inputVars, socketVars, sender,
                 reporter, receiver, busVars, app, timedOut, dropped>>

\* A wait of the shutdown ends because what it waits for has happened, or,
\* where the code has a timer, because that ran out.
Waited(done) ==
  \/ done /\ UNCHANGED timedOut
  \/ ~done /\ MayTimeOut /\ timedOut' = TRUE

AppGoto(from, to) == app = from /\ app' = to

\* A signal, a failed collector, or the writer's end.
StartShutdown ==
  /\ AppGoto("running", "stopScheduler")
  /\ UNCHANGED <<schedVars, endpointVars, inputVars, socketVars, sender,
                 reporter, receiver, busVars, writer, timedOut, dropped>>

AwaitScheduler ==
  /\ AppGoto("stopScheduler", "drain")
  /\ Waited(sched.pc = "returned")
  /\ UNCHANGED <<schedVars, endpointVars, inputVars, socketVars, sender,
                 reporter, receiver, busVars, writer, dropped>>

\* DrainInputs takes inputMu for writing: no timer bounds this wait.
CloseInputs ==
  /\ AppGoto("drain", "draining")
  /\ ~HoldsInputLock
  /\ inputsClosed' = TRUE
  /\ UNCHANGED <<schedVars, endpointVars, jobs, gaps, socketVars, sender,
                 reporter, receiver, busVars, writer, timedOut, dropped>>

\* DrainInputs returns and engine.Close closes both sockets.
AwaitInputs ==
  /\ AppGoto("draining", "drained")
  /\ Waited(InputsDone)
  /\ closed' = Families
  /\ UNCHANGED <<schedVars, endpointVars, inputVars, failed, network,
                 replies, sender, reporter, receiver, busVars, writer, dropped>>

CancelProducers ==
  /\ AppGoto("drained", "cancelled")
  /\ UNCHANGED <<schedVars, endpointVars, inputVars, socketVars, sender,
                 reporter, receiver, busVars, writer, timedOut, dropped>>

\* The bus is closed after the producers, or without them: then the writer is
\* cancelled too.
AwaitProducers ==
  /\ AppGoto("cancelled", "busClosed")
  /\ LET ended == sched.pc = "returned" /\ EngineDone
     IN  /\ Waited(ended)
         /\ writer' = IF ~ended /\ writer = "running" THEN "cancelled" ELSE writer
  /\ UNCHANGED <<schedVars, endpointVars, inputVars, socketVars, sender,
                 reporter, receiver, busVars, dropped>>

\* Fault: the process exits without waiting for the writer.
AwaitWriter_NoWait ==
  /\ AppGoto("busClosed", "returned")
  /\ Waited(TRUE)
  /\ UNCHANGED <<schedVars, endpointVars, inputVars, socketVars, sender,
                 reporter, receiver, busVars, writer, dropped>>

AwaitWriter ==
  /\ AppGoto("busClosed", "returned")
  /\ Waited(writer = "stopped" \/ pending = <<>>)
  /\ UNCHANGED <<schedVars, endpointVars, inputVars, socketVars, sender,
                 reporter, receiver, busVars, writer, dropped>>
-----------------------------------------------------------------------------
SchedulerStep ==
  \/ AcceptOffer \/ RejectOffer \/ FlushGap \/ RecordGapRefused
  \/ EnterRecordGap \/ SendGap \/ SchedulerReturns
OfferStep == RefuseOffer \/ ResolveOffer
SenderStep(f) ==
  \/ TakeJob(f) \/ SenderReturns(f) \/ SenderReserves(f) \/ BeginProbe(f)
  \/ AbandonProbe(f) \/ SenderPublishes(f) \/ SenderPublishesGap(f)
  \/ SenderFails(f)
  \/ \E outcome \in {"sent", "send_error"} : WriteEcho(f, outcome)
ReporterStep ==
  TakeGap \/ ReporterPublishes \/ ReporterReturns
ReceiverStep(f) ==
  ReceiverPublishes(f) \/ ReceiverReturns(f) \/ CloseFamily(f)
AppStep ==
  \/ AwaitScheduler \/ CloseInputs \/ AwaitInputs \/ CancelProducers
  \/ AwaitProducers \/ AwaitWriter

Next ==
  \/ SchedulerStep \/ OfferStep \/ ReporterStep \/ AppStep
  \/ \E f \in Families : \/ SenderStep(f) \/ ReceiverStep(f) \/ SocketFails(f)
                         \/ \E slot \in Slot : ReadEcho(f, slot)
  \/ \E e \in Endpoints : UpdateEndpoint(e)
  \/ WriterReceives \/ WriterStops \/ StartShutdown

\* Every goroutine that can go on is scheduled, and a timer that is waited for
\* goes off.  Nothing is assumed of the network, of DNS, of sockets failing,
\* or of when a slot comes due or a shutdown begins.
Fairness ==
  /\ WF_vars(SchedulerStep) /\ WF_vars(ReporterStep) /\ WF_vars(AppStep)
  /\ WF_vars(WriterReceives)
  /\ \A f \in Families : WF_vars(SenderStep(f)) /\ WF_vars(ReceiverStep(f))

Spec == Init /\ [][Next]_vars /\ Fairness
-----------------------------------------------------------------------------
(* Properties.                                                             *)

Once(b) == IF b THEN 1 ELSE 0
Count(q, kind) == Cardinality({i \in 1 .. Len(q) : q[i] \in kind})
JobsWith(s) == {s} \X Endpoints
GapsWith(s) == {g \in SUBSET Slot : s \in g}
EventsWith(s) == {e \in Events : s \in e[2] /\ e[1] # "reply"}

\* How often slot s is found in the queue and the hand of a send loop, and how
\* often on its way through the engine or at its end.
AtSender(s) ==
  [f \in Families |->
     Count(jobs[f], JobsWith(s))
     + Once(sender[f].slot = s /\ sender[f].pc \notin {"receive", "returned"})]
Copies(s) ==
  SumFunctionOnSet(AtSender(s), Families)
  + Count(gaps, GapsWith(s)) + Once(s \in reporter.slots)
  + Count(pending, EventsWith(s)) + Count(delivered, EventsWith(s))
  + Once(s \in sched.missed) + Once(s \in sched.record)
  + Once(sched.pc = "offering" /\ s = offered) + Once(s \in dropped)

\* Every slot that came due is in exactly one place: none is lost between the
\* goroutines, and none becomes both a probe and a gap, or two of either,
\* through endpoint changes, socket failures and every order of the shutdown.
EverySlotInOnePlace == \A s \in 1 .. offered : Copies(s) = 1

\* A probe leaves through the socket of its endpoint's family, although the
\* endpoint can change family while the job waits for capacity.
RightFamily ==
  \A f \in Families : sender[f].pc = "write" => Family[sender[f].endpoint] = f

\* End to end: after a shutdown in which no wait ran out, every slot that ever
\* came due is with the writer, once, as a probe, a send error or a gap.
NothingLost ==
  app = "returned" /\ ~timedOut /\ writer = "running" =>
    \A s \in 1 .. offered : Count(delivered, EventsWith(s)) = 1

\* The daemon terminates: a shutdown that has begun comes to its end.
ShutdownCompletes == app # "running" ~> app = "returned"

=============================================================================
