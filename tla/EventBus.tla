------------------------------ MODULE EventBus ------------------------------
(***************************************************************************)
(* internal/eventbus/eventbus.go: the bounded, lossless event bus between  *)
(* the collectors (Producers) and the one storage writer.  Every channel   *)
(* operation and every atomic addition is a step of its own, so that a     *)
(* Close or the other side may come between any two of them.               *)
(*                                                                         *)
(* An event is <<p, n>>: the n-th event producer p put on the queue.       *)
(* Close may come at any time, as on the path of app.Run where producers   *)
(* overstay their ten seconds; on its normal path they have returned.      *)
(***************************************************************************)
EXTENDS Integers, Sequences, FiniteSets

CONSTANTS Producers,      \* goroutines that reserve and publish
          Capacity,       \* capacity of slots and of queue
          MaxEvents       \* bound: events each producer publishes

ASSUME CapacityAssumption == Capacity \in Nat \ {0}
ASSUME ProducersAssumption == IsFiniteSet(Producers)
ASSUME EventsAssumption == MaxEvents \in Nat

VARIABLES slots,     \* tokens in b.slots
          queue,     \* events in b.queue
          closed,    \* b.closed is closed
          depth,     \* b.depth
          cancelled, \* contexts already cancelled: "producer", "writer"
          pc,        \* where each producer is
          wpc,       \* where the writer's Next is
          hand,      \* the event Next holds, once received
          published, \* events each producer has put on the queue
          delivered  \* history: events received by the writer, in order

busVars == <<slots, queue, closed, depth, cancelled, pc, wpc, hand, published,
          delivered>>

Events == Producers \X (1 .. MaxEvents)

\* A producer outside the bus (idle), blocked in Reserve (waiting), holding a
\* slot it has not re-checked (granted), with a Reservation (reserved), with
\* the event queued and the depth not yet counted (queued), giving its slot
\* back after it saw the bus closed or cancelled the reservation (releasing),
\* or returned for good (exited).
ProducerStates == {"idle", "waiting", "granted", "reserved", "queued",
                   "releasing", "exited"}

\* The writer in its loop (ready), holding an event whose depth is still
\* counted (received), or whose slot is still taken (counted), gone after
\* ErrClosed (closed) or after its context was cancelled (cancelled).
WriterStates == {"ready", "received", "counted", "closed", "cancelled"}

SlotHolders == {p \in Producers : pc[p] \in {"granted", "reserved", "releasing"}}
WriterHolds == IF wpc \in {"received", "counted"} THEN 1 ELSE 0

BusTypeOK ==
  /\ slots \in 0 .. Capacity
  /\ queue \in Seq(Events)
  /\ closed \in BOOLEAN
  /\ depth \in Int
  /\ cancelled \subseteq {"producer", "writer"}
  /\ pc \in [Producers -> ProducerStates]
  /\ wpc \in WriterStates
  /\ hand \in Events \cup {<<>>}
  /\ published \in [Producers -> 0 .. MaxEvents]
  /\ delivered \in Seq(Events)

BusInit ==
  /\ slots = 0
  /\ queue = <<>>
  /\ closed = FALSE
  /\ depth = 0
  /\ cancelled = {}
  /\ pc = [p \in Producers |-> "idle"]
  /\ wpc = "ready"
  /\ hand = <<>>
  /\ published = [p \in Producers |-> 0]
  /\ delivered = <<>>
-----------------------------------------------------------------------------
(* Producers: Reserve, then Publish or Cancel.                             *)

Goto(p, from, to) == /\ pc[p] = from
                     /\ pc' = [pc EXCEPT ![p] = to]

\* Deliberate faults, each a plausible slip in the code; a run of the project
\* puts one in the place of the action it is named after.
AcquireSlot_OffByOne(p) ==
  /\ Goto(p, "waiting", "granted")
  /\ slots <= Capacity
  /\ slots' = slots + 1
  /\ UNCHANGED <<queue, closed, depth, cancelled, wpc, hand, published, delivered>>

Enqueue_AtFront(p) ==
  /\ Goto(p, "reserved", "queued")
  /\ Len(queue) < Capacity
  /\ queue' = <<<<p, published[p] + 1>>>> \o queue
  /\ published' = [published EXCEPT ![p] = @ + 1]
  /\ UNCHANGED <<slots, closed, depth, cancelled, wpc, hand, delivered>>

PublishRefused_SlotLeak(p) ==
  /\ Goto(p, "reserved", "idle")
  /\ closed
  /\ UNCHANGED <<slots, queue, closed, depth, cancelled, wpc, hand, published, delivered>>

ReturnClosed_Undrained ==
  /\ wpc = "ready"
  /\ closed
  /\ wpc' = "closed"
  /\ UNCHANGED <<slots, queue, closed, depth, cancelled, pc, hand, published, delivered>>

CallReserve(p) ==
  /\ Goto(p, "idle", "waiting")
  /\ published[p] < MaxEvents
  /\ UNCHANGED <<slots, queue, closed, depth, cancelled, wpc, hand, published, delivered>>

\* case b.slots <- struct{}{}
AcquireSlot(p) ==
  /\ Goto(p, "waiting", "granted")
  /\ slots < Capacity
  /\ slots' = slots + 1
  /\ UNCHANGED <<queue, closed, depth, cancelled, wpc, hand, published, delivered>>

\* case <-ctx.Done() and case <-b.closed
ReserveRefused(p) ==
  /\ Goto(p, "waiting", "idle")
  /\ closed \/ "producer" \in cancelled
  /\ UNCHANGED <<slots, queue, closed, depth, cancelled, wpc, hand, published, delivered>>

\* The second look at b.closed, with the slot already taken.
Recheck(p) ==
  /\ Goto(p, "granted", IF closed THEN "releasing" ELSE "reserved")
  /\ UNCHANGED <<slots, queue, closed, depth, cancelled, wpc, hand, published, delivered>>

\* case r.bus.queue <- event: a channel send, possible only with room left.
Enqueue(p) ==
  /\ Goto(p, "reserved", "queued")
  /\ Len(queue) < Capacity
  /\ queue' = Append(queue, <<p, published[p] + 1>>)
  /\ published' = [published EXCEPT ![p] = @ + 1]
  /\ UNCHANGED <<slots, closed, depth, cancelled, wpc, hand, delivered>>

\* r.bus.depth.Add(1), after the event can already be received
CountIn(p) ==
  /\ Goto(p, "queued", "idle")
  /\ depth' = depth + 1
  /\ UNCHANGED <<slots, queue, closed, cancelled, wpc, hand, published, delivered>>

\* case <-r.bus.closed of Publish
PublishRefused(p) ==
  /\ Goto(p, "reserved", "releasing")
  /\ closed
  /\ UNCHANGED <<slots, queue, closed, depth, cancelled, wpc, hand, published, delivered>>

\* Reservation.Cancel
Cancel(p) ==
  /\ Goto(p, "reserved", "releasing")
  /\ UNCHANGED <<slots, queue, closed, depth, cancelled, wpc, hand, published, delivered>>

\* <-b.slots on a producer's side
ReleaseSlot(p) ==
  /\ Goto(p, "releasing", "idle")
  /\ slots > 0
  /\ slots' = slots - 1
  /\ UNCHANGED <<queue, closed, depth, cancelled, wpc, hand, published, delivered>>

\* The producer's goroutine returns.
Exit(p) ==
  /\ Goto(p, "idle", "exited")
  /\ UNCHANGED <<slots, queue, closed, depth, cancelled, wpc, hand, published, delivered>>
-----------------------------------------------------------------------------
(* The writer: Next.                                                       *)

\* case event := <-b.queue, in either select
Receive ==
  /\ wpc = "ready"
  /\ queue # <<>>
  /\ wpc' = "received"
  /\ hand' = Head(queue)
  /\ delivered' = Append(delivered, Head(queue))
  /\ queue' = Tail(queue)
  /\ UNCHANGED <<slots, closed, depth, cancelled, pc, published>>

CountOut ==
  /\ wpc = "received"
  /\ wpc' = "counted"
  /\ depth' = depth - 1
  /\ UNCHANGED <<slots, queue, closed, cancelled, pc, hand, published, delivered>>

ReturnEvent ==
  /\ wpc = "counted"
  /\ wpc' = "ready"
  /\ slots > 0
  /\ slots' = slots - 1
  /\ hand' = <<>>
  /\ UNCHANGED <<queue, closed, depth, cancelled, pc, published, delivered>>

\* <-b.closed, and the queue found empty: ErrClosed
ReturnClosed ==
  /\ wpc = "ready"
  /\ closed
  /\ queue = <<>>
  /\ wpc' = "closed"
  /\ UNCHANGED <<slots, queue, closed, depth, cancelled, pc, hand, published, delivered>>

ReturnCancelled ==
  /\ wpc = "ready"
  /\ "writer" \in cancelled
  /\ wpc' = "cancelled"
  /\ UNCHANGED <<slots, queue, closed, depth, cancelled, pc, hand, published, delivered>>
-----------------------------------------------------------------------------
(* The owner of the bus.                                                   *)

Close ==
  /\ ~closed
  /\ closed' = TRUE
  /\ UNCHANGED <<slots, queue, depth, cancelled, pc, wpc, hand, published, delivered>>

CancelContext(c) ==
  /\ c \notin cancelled
  /\ cancelled' = cancelled \cup {c}
  /\ UNCHANGED <<slots, queue, closed, depth, pc, wpc, hand, published, delivered>>

ProducerStep(p) ==
  \/ CallReserve(p) \/ AcquireSlot(p) \/ ReserveRefused(p) \/ Recheck(p)
  \/ Enqueue(p) \/ CountIn(p) \/ PublishRefused(p) \/ Cancel(p)
  \/ ReleaseSlot(p) \/ Exit(p)

WriterStep == Receive \/ CountOut \/ ReturnEvent \/ ReturnClosed \/ ReturnCancelled

BusNext ==
  \/ \E p \in Producers : ProducerStep(p)
  \/ WriterStep
  \/ Close
  \/ \E c \in {"producer", "writer"} : CancelContext(c)

\* A goroutine inside the bus is scheduled; a blocked channel sender is served
\* in the order of arrival, so it gets a slot that frees again and again.
Fairness ==
  /\ WF_busVars(WriterStep)
  /\ \A p \in Producers :
       /\ SF_busVars(AcquireSlot(p))
       /\ WF_busVars(Recheck(p)) /\ WF_busVars(CountIn(p)) /\ WF_busVars(ReleaseSlot(p))
       /\ WF_busVars(Enqueue(p) \/ PublishRefused(p) \/ Cancel(p))
       /\ WF_busVars(ReserveRefused(p))

BusSpec == BusInit /\ [][BusNext]_busVars /\ Fairness
-----------------------------------------------------------------------------
(* Properties.                                                             *)

\* No slot is leaked or returned twice: the tokens in b.slots are those of the
\* producers between Reserve and the end of Publish or Cancel, of the queued
\* events, and of the event Next has not finished returning.
SlotAccounting ==
  slots = Cardinality(SlotHolders) + Len(queue) + WriterHolds

\* The holder of a Reservation never blocks in Publish: the queue has room for
\* it whatever the others do (the echo sender writes to the network between
\* Reserve and Publish and must then be able to record it).
PublishNeverBlocks ==
  \A p \in Producers : pc[p] = "reserved" => Len(queue) < Capacity

\* The writer's context is not cancelled, and Close comes after the producers.
Orderly ==
  "writer" \notin cancelled /\ (closed => \A p \in Producers : pc[p] = "exited")

\* Backpressure ends, and nothing is stranded: while the writer is not cancelled
\* a producer blocked in Reserve gets its slot or an answer, and in an orderly
\* life every event whose Publish returned nil is received
\* ("never silently drops a persistent event",
\* docs/implementation-plan.md:157).
Progress ==
  \A p \in Producers :
    /\ []("writer" \notin cancelled) => (pc[p] = "waiting" ~> pc[p] # "waiting")
    /\ []Orderly => \A n \in 1 .. MaxEvents :
         published[p] >= n ~> \E i \in 1 .. Len(delivered) : delivered[i] = <<p, n>>

\* Seen from outside, the bus is the abstract lossless stream.
Stream == INSTANCE LosslessStream WITH
            claims <- Cardinality(SlotHolders), pending <- queue
StreamSafe == Stream!SafeSpec
=============================================================================
