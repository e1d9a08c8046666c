-------------------------- MODULE EchoEngineProofs --------------------------
(***************************************************************************)
(* Proofs about EchoEngine, for any addresses, capacities and bounds: the  *)
(* types, that a probe leaves by its family's socket, that every slot is   *)
(* in exactly one place, and that an orderly shutdown loses none.          *)
(***************************************************************************)
EXTENDS EchoEngine, Sums, SequenceTheorems
-----------------------------------------------------------------------------
(* Counting.                                                               *)

\* What a sequence holds of a kind is a number.
LEMMA CountIsNat ==
  ASSUME NEW S, NEW q \in Seq(S), NEW K
  PROVE  /\ Count(q, K) \in Nat /\ IsFiniteSet({i \in 1 .. Len(q) : q[i] \in K})
<1>1. Len(q) \in Nat
  BY LenProperties
<1>2. IsFiniteSet(1 .. Len(q))
  BY <1>1, FS_Interval
<1>3. {i \in 1 .. Len(q) : q[i] \in K} \in SUBSET (1 .. Len(q))
  OBVIOUS
<1>4. IsFiniteSet({i \in 1 .. Len(q) : q[i] \in K})
  BY <1>2, <1>3, FS_Subset
<1> QED BY <1>4, FS_CardinalityType DEF Count

\* An empty sequence holds nothing.
LEMMA CountEmpty == ASSUME NEW K PROVE Count(<<>>, K) = 0
<1>1. {i \in 1 .. Len(<<>>) : (<<>>)[i] \in K} = {}
  OBVIOUS
<1> QED BY <1>1, FS_EmptySet DEF Count

\* An element is appended.
LEMMA CountAppend ==
  ASSUME NEW S, NEW q \in Seq(S), NEW e \in S, NEW K
  PROVE  Count(Append(q, e), K) = Count(q, K) + Once(e \in K)
<1> DEFINE r == Append(q, e)
           I == {i \in 1 .. Len(q) : q[i] \in K}
           J == {i \in 1 .. Len(r) : r[i] \in K}
           n == Len(q) + 1
<1>1. /\ Len(q) \in Nat /\ Len(r) = n
      /\ \A i \in 1 .. Len(q) : r[i] = q[i]
      /\ r[n] = e
  BY AppendProperties, LenProperties
<1>2. /\ Count(q, K) = Cardinality(I) /\ Count(r, K) = Cardinality(J)
      /\ IsFiniteSet(I) /\ Cardinality(I) \in Nat
  BY CountIsNat DEF Count
<1>3. n \notin I
  BY <1>1
<1> HIDE DEF r
<1>4. CASE e \in K
  <2>1. J = I \cup {n}
    BY <1>1, <1>4
  <2> HIDE DEF I, J, n
  <2>2. Cardinality(J) = Cardinality(I) + 1
    BY <1>2, <1>3, <2>1, FS_AddElement
  <2> QED BY <1>2, <1>4, <2>2 DEF Once, r
<1>5. CASE e \notin K
  <2>1. J = I
    BY <1>1, <1>5
  <2> HIDE DEF I, J
  <2> QED BY <1>2, <1>5, <2>1 DEF Once, r
<1> QED BY <1>4, <1>5

\* The first element leaves.
LEMMA CountTail ==
  ASSUME NEW S, NEW q \in Seq(S), q # <<>>, NEW K
  PROVE  Count(q, K) = Count(Tail(q), K) + Once(Head(q) \in K)
<1> DEFINE r == Tail(q)
           I == {i \in 1 .. Len(q) : q[i] \in K}
           J == {i \in 1 .. Len(r) : r[i] \in K}
           M == I \ {1}
<1>1. /\ Len(q) \in Nat \ {0} /\ Len(r) = Len(q) - 1 /\ r \in Seq(S)
      /\ \A i \in 1 .. Len(r) : r[i] = q[i + 1]
      /\ Head(q) = q[1]
  BY HeadTailProperties, LenProperties, EmptySeq
<1>2. IsFiniteSet(I) /\ IsFiniteSet(J)
  BY <1>1, CountIsNat
<1>3. IsFiniteSet(M)
  BY <1>2, FS_RemoveElement
<1>4. Cardinality(M) = Cardinality(J)
  <2> HIDE DEF r
  <2> DEFINE f == [j \in J |-> j + 1]
  <2>1. f \in [J -> M]
    BY <1>1
  <2>2. \A i, j \in J : f[i] = f[j] => i = j
    OBVIOUS
  <2>3. \A m \in M : m - 1 \in J /\ f[m - 1] = m
    BY <1>1
  <2> HIDE DEF f, J, M
  <2>4. \A m \in M : \E j \in J : f[j] = m
    BY <2>3
  <2>5. f \in Injection(J, M)
    BY <2>1, <2>2 DEF Injection, IsInjective
  <2>7. f \in Surjection(J, M)
    BY <2>1, <2>4 DEF Surjection
  <2>6. ExistsBijection(J, M)
    BY <2>5, <2>7 DEF ExistsBijection, Bijection
  <2> QED BY <1>2, <2>6, FS_Bijection
<1>5. Cardinality(I) = Cardinality(M) + Once(1 \in I)
  <2> HIDE DEF I
  <2>1. Cardinality(I) \in Nat /\ Cardinality(M) = IF 1 \in I THEN Cardinality(I) - 1 ELSE Cardinality(I)
    BY <1>2, FS_RemoveElement, FS_CardinalityType
  <2> QED BY <2>1 DEF Once
<1>6. 1 \in I <=> Head(q) \in K
  BY <1>1
<1>7. Count(q, K) = Cardinality(I) /\ Count(r, K) = Cardinality(J)
  BY DEF Count
<1> HIDE DEF I, J, M, r
<1> QED BY <1>4, <1>5, <1>6, <1>7 DEF Once, r
-----------------------------------------------------------------------------
(* The invariant, by whose state it is about.                              *)

SchedOK ==
  /\ sched \in [pc : {"idle", "offering", "recording", "sending", "returned"},
                offer : Endpoints \cup {None}, missed : SUBSET Slot,
                record : SUBSET Slot]
  /\ offered \in 0 .. MaxSlots
  /\ sched.pc = "offering" => sched.offer \in Endpoints /\ offered \in Slot
  /\ sched.pc \in {"idle", "offering", "returned"} => sched.record = {}
  /\ sched.pc = "returned" => sched.missed = {}
QueuesOK ==
  /\ jobs \in [Families -> Seq(Slot \X Endpoints)] /\ gaps \in Seq(SUBSET Slot)
  /\ \A f \in Families : Len(jobs[f]) <= SendQueue
  /\ Len(gaps) <= SendQueue
SendersOK ==
  /\ sender \in [Families -> [pc : SenderStates, slot : Slot \cup {0},
                              endpoint : Endpoints \cup {None},
                              outcome : {"sent", "send_error"}]]
  /\ \A f \in Families : sender[f].pc \notin {"receive", "returned"} => sender[f].slot \in Slot
ReporterOK ==
  /\ reporter \in [pc : {"receive", "publish", "returned"}, slots : SUBSET Slot]
  /\ reporter.pc # "publish" => reporter.slots = {}
ReceiversOK ==
  /\ receiver \in [Families -> [pc : {"read", "publish", "failing", "returned"},
                                slot : Slot \cup {0}]]
  /\ \A f \in Families : receiver[f].pc = "publish" => receiver[f].slot \in Slot
  /\ network \in [Families -> SUBSET Slot]
  /\ failed \subseteq Families /\ closed \subseteq Families
BusOK ==
  /\ claims \in Nat /\ pending \in Seq(Events) /\ delivered \in Seq(Events)
  /\ claims + Len(pending) <= Capacity
AppOK ==
  /\ current \in Endpoints \cup {None}
  /\ writer \in {"running", "cancelled", "stopped"} /\ timedOut \in BOOLEAN
  /\ app \in {"running", "stopScheduler", "drain", "draining", "drained",
              "cancelled", "busClosed", "returned"}
  /\ inputsClosed \in BOOLEAN
DroppedOK == dropped \subseteq Slot
Typed ==
  /\ SchedOK /\ QueuesOK /\ SendersOK /\ ReporterOK /\ ReceiversOK
  /\ BusOK /\ AppOK /\ DroppedOK

\* The steps of each goroutine; those of a family are its loops'.
SchedulerSteps == SchedulerStep \/ OfferStep
ReceiverSteps(f) == ReceiverStep(f) \/ SocketFails(f) \/ \E slot \in Slot : ReadEcho(f, slot)
AppSteps ==
  \/ AppStep \/ (\E e \in Endpoints : UpdateEndpoint(e))
  \/ WriterReceives \/ WriterStops \/ StartShutdown
-----------------------------------------------------------------------------
(* Who changes what.                                                       *)

\* There are no other steps.
LEMMA Steps ==
  Next => \/ SchedulerSteps \/ ReporterStep \/ AppSteps
          \/ \E f \in Families : SenderStep(f) \/ ReceiverSteps(f)
BY DEF Next, SchedulerSteps, AppSteps, ReceiverSteps

\* The scheduler's goroutine leaves the others alone.
LEMMA SchedulerOnly ==
  SchedulerSteps =>
    UNCHANGED <<inputsClosed, sender, reporter, receiver, network, failed, closed, claims,
                pending, delivered, current, writer, app, timedOut>>
BY DEF SchedulerSteps, SchedulerStep, OfferStep, AcceptOffer, RejectOffer, FlushGap,
     RecordGapRefused, EnterRecordGap, SendGap, SchedulerReturns, RefuseOffer, ResolveOffer,
     inputVars, busVars, env, endpointVars, socketVars, appVars

\* So does a send loop.
LEMMA SenderOnly ==
  ASSUME NEW f \in Families, SenderStep(f)
  PROVE  UNCHANGED <<sched, offered, gaps, inputsClosed, reporter, receiver, failed, closed,
                     current, writer, app, timedOut>>
BY DEF SenderStep, TakeJob, SenderReturns, SenderReserves, BeginProbe, AbandonProbe,
     SenderPublishes, SenderPublishesGap, SenderFails, WriteEcho,
     inputVars, schedVars, env, endpointVars, socketVars, appVars

\* So does the gap loop.
LEMMA ReporterOnly ==
  ReporterStep =>
    UNCHANGED <<sched, offered, jobs, inputsClosed, sender, receiver, network, failed, closed,
                current, writer, app, timedOut>>
BY DEF ReporterStep, TakeGap, ReporterPublishes, ReporterReturns,
     inputVars, schedVars, env, endpointVars, socketVars, appVars

\* So does a receive loop.
LEMMA ReceiverOnly ==
  ASSUME NEW f \in Families, ReceiverSteps(f)
  PROVE  UNCHANGED <<sched, offered, jobs, gaps, inputsClosed, sender, reporter, network,
                     current, writer, app, timedOut, dropped>>
BY DEF ReceiverSteps, ReceiverStep, ReceiverPublishes, ReceiverReturns, CloseFamily,
     SocketFails, ReadEcho, inputVars, schedVars, env, endpointVars, socketVars, appVars

\* So do the application, DNS and the writer, but for closing and delivering.
LEMMA AppOnly ==
  AppSteps =>
    UNCHANGED <<sched, offered, jobs, gaps, sender, reporter, receiver, network, failed,
                claims, dropped>>
BY DEF AppSteps, AppStep, AwaitScheduler, CloseInputs, AwaitInputs, CancelProducers,
     AwaitProducers, AwaitWriter, UpdateEndpoint, WriterReceives, WriterStops, StartShutdown,
     Bus!Deliver, inputVars, schedVars, env, endpointVars, socketVars, appVars, busVars
-----------------------------------------------------------------------------
(* Types.                                                                  *)

\* What a loop may append to the bus keeps it within its capacity.
LEMMA BusSteps ==
  ASSUME BusOK, NEW e \in Events,
         \/ Bus!Claim \/ Bus!GiveBack \/ Bus!Accept(e) \/ Bus!Publish(e) \/ Bus!Deliver
         \/ UNCHANGED busVars
  PROVE  BusOK'
<1>1. /\ claims \in Nat /\ pending \in Seq(Events) /\ delivered \in Seq(Events)
      /\ claims + Len(pending) <= Capacity /\ Len(pending) \in Nat /\ Capacity \in Nat
  BY LenProperties, CapacityAssumption DEF BusOK
<1>2. CASE Bus!Claim
  BY <1>1, <1>2 DEF Bus!Claim, BusOK
<1>3. CASE Bus!GiveBack
  BY <1>1, <1>3 DEF Bus!GiveBack, BusOK
<1>4. Append(pending, e) \in Seq(Events) /\ Len(Append(pending, e)) = Len(pending) + 1
  BY <1>1, AppendProperties
<1>5. CASE Bus!Accept(e)
  BY <1>1, <1>4, <1>5 DEF Bus!Accept, BusOK
<1>6. CASE Bus!Publish(e)
  BY <1>1, <1>4, <1>6 DEF Bus!Publish, BusOK
<1>7. CASE Bus!Deliver
  <2>1. pending # <<>>
    BY <1>7 DEF Bus!Deliver
  <2>2. /\ Head(pending) \in Events /\ Tail(pending) \in Seq(Events)
        /\ Len(Tail(pending)) = Len(pending) - 1
    BY <1>1, <2>1, HeadTailProperties
  <2>3. Append(delivered, Head(pending)) \in Seq(Events)
    BY <1>1, <2>2, AppendProperties
  <2> QED BY <1>1, <1>7, <2>2, <2>3 DEF Bus!Deliver, BusOK
<1>8. CASE UNCHANGED busVars
  BY <1>8 DEF BusOK, busVars
<1> QED BY <1>2, <1>3, <1>5, <1>6, <1>7, <1>8

\* The scheduler's goroutine keeps the types.
LEMMA SchedulerTyped == ASSUME Typed, SchedulerSteps PROVE Typed'
<1>0. UNCHANGED <<inputsClosed, sender, reporter, receiver, network, failed, closed, claims,
                  pending, delivered, current, writer, app, timedOut>>
  BY SchedulerOnly
<1>1. SchedOK /\ QueuesOK /\ DroppedOK /\ current \in Endpoints \cup {None} /\ MaxSlots \in Nat
  BY CapacityAssumption DEF Typed, AppOK
<1>2. SendersOK' /\ ReporterOK' /\ ReceiversOK' /\ BusOK' /\ AppOK'
  BY <1>0 DEF Typed, SendersOK, ReporterOK, ReceiversOK, BusOK, AppOK
<1>3. SchedOK'
  <2>1. CASE RefuseOffer
    <3>1. offered + 1 \in Slot
      BY <1>1, <2>1 DEF RefuseOffer, SchedOK, Slot
    <3> QED BY <1>1, <2>1, <3>1 DEF RefuseOffer, SchedOK, Slot, Refused
  <2>2. CASE ResolveOffer
    <3>1. offered + 1 \in Slot
      BY <1>1, <2>2 DEF ResolveOffer, SchedOK, Slot
    <3>2. /\ sched.pc = "idle" /\ offered' = offered + 1 /\ current \in Endpoints
          /\ sched' = [sched EXCEPT !.pc = "offering", !.offer = current]
      BY <1>1, <2>2 DEF ResolveOffer
    <3>3. /\ sched'.pc = "offering" /\ sched'.offer = current /\ sched'.missed = sched.missed
          /\ sched'.record = {}
          /\ sched' \in [pc : {"idle", "offering", "recording", "sending", "returned"},
                         offer : Endpoints \cup {None}, missed : SUBSET Slot,
                         record : SUBSET Slot]
      BY <1>1, <3>2 DEF SchedOK
    <3>4. offered' \in 0 .. MaxSlots
      BY <3>1, <3>2 DEF Slot
    <3> QED BY <3>1, <3>2, <3>3, <3>4 DEF SchedOK
  <2>3. CASE AcceptOffer
    BY <1>1, <2>3 DEF AcceptOffer, SchedOK
  <2>4. CASE RejectOffer
    BY <1>1, <2>4 DEF RejectOffer, SchedOK, Refused, schedVars
  <2>5. CASE FlushGap
    BY <1>1, <2>5 DEF FlushGap, SchedOK
  <2>6. CASE RecordGapRefused
    BY <1>1, <2>6 DEF RecordGapRefused, SchedOK
  <2>7. CASE EnterRecordGap
    BY <1>1, <2>7 DEF EnterRecordGap, SchedOK
  <2>8. CASE SendGap
    BY <1>1, <2>8 DEF SendGap, SchedOK
  <2>9. CASE SchedulerReturns
    BY <1>1, <2>9 DEF SchedulerReturns, SchedOK
  <2> QED BY <2>1, <2>2, <2>3, <2>4, <2>5, <2>6, <2>7, <2>8, <2>9
          DEF SchedulerSteps, SchedulerStep, OfferStep
<1>4. QueuesOK'
  <2>1. CASE AcceptOffer
    <3> DEFINE f == Family[sched.offer]
               j == <<offered, sched.offer>>
    <3>1. f \in Families /\ j \in Slot \X Endpoints
      BY <1>1, <2>1 DEF AcceptOffer, SchedOK, Families
    <3>2. Len(jobs[f]) < SendQueue /\ jobs' = [jobs EXCEPT ![f] = Append(@, j)] /\ gaps' = gaps
      BY <2>1 DEF AcceptOffer, HasRoom
    <3>3. jobs[f] \in Seq(Slot \X Endpoints) /\ Len(jobs[f]) \in Nat
      BY <1>1, <3>1, LenProperties DEF QueuesOK
    <3> HIDE DEF f, j
    <3>4. /\ Append(jobs[f], j) \in Seq(Slot \X Endpoints)
          /\ Len(Append(jobs[f], j)) = Len(jobs[f]) + 1
      BY <3>1, <3>3, AppendProperties
    <3>5. Len(Append(jobs[f], j)) <= SendQueue
      BY <3>2, <3>3, <3>4, CapacityAssumption
    <3> QED BY <1>1, <3>1, <3>2, <3>4, <3>5 DEF QueuesOK
  <2>2. CASE SendGap
    <3>1. sched.record \in SUBSET Slot /\ gaps \in Seq(SUBSET Slot) /\ Len(gaps) \in Nat
      BY <1>1, LenProperties DEF SchedOK, QueuesOK
    <3>2. /\ Append(gaps, sched.record) \in Seq(SUBSET Slot)
          /\ Len(Append(gaps, sched.record)) = Len(gaps) + 1
      BY <3>1, AppendProperties
    <3>3. Len(gaps) < SendQueue /\ gaps' = Append(gaps, sched.record) /\ jobs' = jobs
      BY <2>2 DEF SendGap
    <3>4. Len(gaps') <= SendQueue
      BY <3>1, <3>2, <3>3, CapacityAssumption
    <3> QED BY <1>1, <3>2, <3>3, <3>4 DEF QueuesOK
  <2>3. CASE UNCHANGED <<jobs, gaps>>
    BY <1>1, <2>3 DEF QueuesOK
  <2> QED BY <2>1, <2>2, <2>3
          DEF SchedulerSteps, SchedulerStep, OfferStep, AcceptOffer, RejectOffer, FlushGap,
              RecordGapRefused, EnterRecordGap, SendGap, SchedulerReturns, RefuseOffer,
              ResolveOffer, inputVars
<1>5. DroppedOK'
  <2>1. dropped' = dropped \/ dropped' = dropped \cup sched.record
    BY DEF SchedulerSteps, SchedulerStep, OfferStep, AcceptOffer, RejectOffer, FlushGap,
           RecordGapRefused, EnterRecordGap, SendGap, SchedulerReturns, RefuseOffer, ResolveOffer
  <2> QED BY <1>1, <2>1, SMTT(30) DEF DroppedOK, SchedOK
<1> QED BY <1>2, <1>3, <1>4, <1>5 DEF Typed

\* A slot makes an event of each kind.
LEMMA SlotEvents ==
  ASSUME NEW s \in SUBSET Slot, NEW k \in Kinds PROVE <<k, s>> \in Events
BY DEF Events

\* A send loop keeps the types.
LEMMA SenderTyped == ASSUME Typed, NEW f \in Families, SenderStep(f) PROVE Typed'
<1>0. UNCHANGED <<sched, offered, gaps, inputsClosed, reporter, receiver, failed, closed,
                  current, writer, app, timedOut>>
  BY SenderOnly
<1>1. SendersOK /\ QueuesOK /\ ReceiversOK /\ DroppedOK /\ BusOK /\ current \in Endpoints \cup {None}
  BY DEF Typed, AppOK
<1>2. SchedOK' /\ ReporterOK' /\ AppOK'
  BY <1>0 DEF Typed, SchedOK, ReporterOK, AppOK
<1>3. SendersOK' /\ QueuesOK'
  <2>1. CASE TakeJob(f)
    <3>1. /\ jobs[f] \in Seq(Slot \X Endpoints) /\ jobs[f] # <<>>
          /\ jobs' = [jobs EXCEPT ![f] = Tail(@)]
          /\ sender' = [sender EXCEPT ![f] =
               [pc |-> IF f \in failed THEN "gap" ELSE "reserve",
                slot |-> Head(jobs[f])[1], endpoint |-> Head(jobs[f])[2],
                outcome |-> "sent"]]
      BY <1>1, <2>1 DEF QueuesOK, TakeJob
    <3>2. /\ Head(jobs[f]) \in Slot \X Endpoints /\ Tail(jobs[f]) \in Seq(Slot \X Endpoints)
          /\ Len(Tail(jobs[f])) = Len(jobs[f]) - 1 /\ Len(jobs[f]) \in Nat
      BY <3>1, HeadTailProperties, LenProperties
    <3>3. Len(Tail(jobs[f])) <= SendQueue
      BY <1>1, <3>2, CapacityAssumption DEF QueuesOK
    <3>4. QueuesOK'
      BY <1>0, <1>1, <3>1, <3>2, <3>3 DEF QueuesOK
    <3>5. Head(jobs[f])[1] \in Slot /\ Head(jobs[f])[2] \in Endpoints
      BY <3>2
    <3>6. SendersOK'
      BY <1>1, <3>1, <3>5 DEF SendersOK, SenderStates
    <3> QED BY <3>4, <3>6
  <2>2. ASSUME UNCHANGED jobs PROVE QueuesOK'
    BY <1>0, <1>1, <2>2 DEF QueuesOK
  <2>3. CASE SenderReturns(f)
    BY <1>1, <2>2, <2>3 DEF SenderReturns, SenderGoto, SendersOK, SenderStates, inputVars
  <2>4. CASE SenderReserves(f)
    BY <1>1, <2>2, <2>4 DEF SenderReserves, SenderGoto, SendersOK, SenderStates, inputVars
  <2> DEFINE Loop == [pc : SenderStates, slot : Slot \cup {0},
                      endpoint : Endpoints \cup {None}, outcome : {"sent", "send_error"}]
  <2>11. ASSUME NEW r \in Loop, r.slot = sender[f].slot,
                sender[f].pc \notin {"receive", "returned"},
                sender' = [sender EXCEPT ![f] = r]
         PROVE  SendersOK'
    BY <1>1, <2>11 DEF SendersOK
  <2>12. sender[f] \in Loop
    BY <1>1 DEF SendersOK
  <2>5. CASE BeginProbe(f)
    <3> DEFINE r == [sender[f] EXCEPT !.pc = "write", !.endpoint = current]
    <3>1. r \in Loop /\ r.slot = sender[f].slot
      BY <1>1, <2>12 DEF SenderStates
    <3>2. sender' = [sender EXCEPT ![f] = r] /\ jobs' = jobs /\ sender[f].pc = "resolve"
      BY <1>1, <2>5 DEF BeginProbe, inputVars, SendersOK
    <3> HIDE DEF r, Loop
    <3> QED BY <2>2, <2>11, <3>1, <3>2
  <2>6. CASE AbandonProbe(f)
    BY <1>1, <2>2, <2>6 DEF AbandonProbe, SenderGoto, SendersOK, SenderStates, inputVars
  <2>7. CASE \E outcome \in {"sent", "send_error"} : WriteEcho(f, outcome)
    <3> PICK outcome \in {"sent", "send_error"} : WriteEcho(f, outcome)
      BY <2>7
    <3> DEFINE r == [sender[f] EXCEPT !.pc = "publish", !.outcome = outcome]
    <3>1. r \in Loop /\ r.slot = sender[f].slot
      BY <2>12 DEF SenderStates
    <3>2. sender' = [sender EXCEPT ![f] = r] /\ jobs' = jobs /\ sender[f].pc = "write"
      BY <1>1 DEF WriteEcho, inputVars, SendersOK
    <3> HIDE DEF r, Loop
    <3> QED BY <2>2, <2>11, <3>1, <3>2
  <2>8. CASE SenderPublishes(f)
    BY <1>1, <2>2, <2>8 DEF SenderPublishes, SenderGoto, SendersOK, SenderStates, inputVars
  <2>9. CASE SenderPublishesGap(f)
    BY <1>1, <2>2, <2>9 DEF SenderPublishesGap, SenderGoto, SendersOK, SenderStates, inputVars
  <2>10. CASE SenderFails(f)
    BY <1>1, <2>2, <2>10 DEF SenderFails, SendersOK, SenderStates, inputVars
  <2> QED BY <2>1, <2>3, <2>4, <2>5, <2>6, <2>7, <2>8, <2>9, <2>10 DEF SenderStep
<1>4. ReceiversOK'
  <2>1. network' = network \/ (sender[f].pc = "write" /\
                               network' = [network EXCEPT ![f] = @ \cup {sender[f].slot}])
    BY DEF SenderStep, TakeJob, SenderReturns, SenderReserves, BeginProbe, AbandonProbe,
           SenderPublishes, SenderPublishesGap, SenderFails, WriteEcho, env, socketVars
  <2>2. network' \in [Families -> SUBSET Slot]
    BY <1>1, <2>1 DEF ReceiversOK, SendersOK
  <2> QED BY <1>0, <1>1, <2>2 DEF ReceiversOK
<1>5. BusOK'
  <2> DEFINE s == {sender[f].slot}
  <2>1. \/ Bus!Claim \/ Bus!GiveBack \/ UNCHANGED busVars
        \/ sender[f].pc = "publish" /\ Bus!Accept(<<sender[f].outcome, s>>)
        \/ sender[f].pc = "gap" /\ Bus!Publish(<<"gap", s>>)
    BY DEF SenderStep, TakeJob, SenderReturns, SenderReserves, BeginProbe, AbandonProbe,
           SenderPublishes, SenderPublishesGap, SenderFails, WriteEcho, SenderGoto
  <2>2. sender[f].outcome \in Kinds /\ "gap" \in Kinds
    BY <1>1 DEF SendersOK, Kinds
  <2>3. sender[f].pc \in {"publish", "gap"} => s \in SUBSET Slot
    BY <1>1 DEF SendersOK
  <2> HIDE DEF s
  <2>4. CASE Bus!Claim \/ Bus!GiveBack \/ UNCHANGED busVars
    <3>1. <<"gap", {}>> \in Events
      BY <2>2, SlotEvents
    <3> QED BY <1>1, <2>4, <3>1, BusSteps
  <2>5. CASE sender[f].pc = "publish" /\ Bus!Accept(<<sender[f].outcome, s>>)
    BY <1>1, <2>2, <2>3, <2>5, SlotEvents, BusSteps
  <2>6. CASE sender[f].pc = "gap" /\ Bus!Publish(<<"gap", s>>)
    BY <1>1, <2>2, <2>3, <2>6, SlotEvents, BusSteps
  <2> QED BY <2>1, <2>4, <2>5, <2>6
<1>6. DroppedOK'
  <2>1. \/ dropped' = dropped
        \/ sender[f].pc \in {"reserve", "gap", "publish"} /\ dropped' = dropped \cup {sender[f].slot}
    BY DEF SenderStep, TakeJob, SenderReturns, SenderReserves, BeginProbe, AbandonProbe,
           SenderPublishes, SenderPublishesGap, SenderFails, WriteEcho
  <2> QED BY <1>1, <2>1 DEF DroppedOK, SendersOK
<1> QED BY <1>2, <1>3, <1>4, <1>5, <1>6 DEF Typed

\* The gap loop keeps the types.
LEMMA ReporterTyped == ASSUME Typed, ReporterStep PROVE Typed'
<1>0. UNCHANGED <<sched, offered, jobs, inputsClosed, sender, receiver, network, failed, closed,
                  current, writer, app, timedOut>>
  BY ReporterOnly
<1>1. ReporterOK /\ QueuesOK /\ DroppedOK /\ BusOK
  BY DEF Typed
<1>2. SchedOK' /\ SendersOK' /\ ReceiversOK' /\ AppOK'
  BY <1>0 DEF Typed, SchedOK, SendersOK, ReceiversOK, AppOK
<1>3. CASE TakeGap
  <2>1. /\ gaps \in Seq(SUBSET Slot) /\ gaps # <<>> /\ UNCHANGED <<busVars, dropped>>
        /\ reporter' = [pc |-> "publish", slots |-> Head(gaps)] /\ gaps' = Tail(gaps)
    BY <1>1, <1>3 DEF TakeGap, QueuesOK
  <2>2. /\ Head(gaps) \in SUBSET Slot /\ Tail(gaps) \in Seq(SUBSET Slot)
        /\ Len(Tail(gaps)) = Len(gaps) - 1 /\ Len(gaps) \in Nat
    BY <2>1, HeadTailProperties, LenProperties
  <2>3. Len(Tail(gaps)) <= SendQueue
    BY <1>1, <2>2, CapacityAssumption DEF QueuesOK
  <2>4. QueuesOK' /\ ReporterOK'
    BY <1>0, <1>1, <2>1, <2>2, <2>3 DEF QueuesOK, ReporterOK
  <2> QED BY <1>1, <1>2, <2>1, <2>4 DEF Typed, BusOK, busVars, DroppedOK
<1>4. CASE ReporterPublishes
  <2>1. /\ Bus!Publish(<<"gap", reporter.slots>>) /\ UNCHANGED <<gaps, dropped>>
        /\ reporter' = [pc |-> "receive", slots |-> {}]
    BY <1>4 DEF ReporterPublishes, inputVars
  <2>2. <<"gap", reporter.slots>> \in Events
    BY <1>1, SlotEvents DEF ReporterOK, Kinds
  <2>3. BusOK'
    BY <1>1, <2>1, <2>2, BusSteps
  <2>4. QueuesOK' /\ ReporterOK' /\ DroppedOK'
    BY <1>0, <1>1, <2>1 DEF QueuesOK, ReporterOK, DroppedOK
  <2> QED BY <1>2, <2>3, <2>4 DEF Typed
<1>5. CASE ReporterReturns
  <2>1. /\ UNCHANGED <<gaps, busVars>> /\ dropped' = dropped \cup reporter.slots
        /\ reporter' = [pc |-> "returned", slots |-> {}]
    BY <1>5 DEF ReporterReturns, inputVars
  <2>2. QueuesOK' /\ ReporterOK' /\ DroppedOK' /\ BusOK'
    BY <1>0, <1>1, <2>1 DEF QueuesOK, ReporterOK, DroppedOK, BusOK, busVars
  <2> QED BY <1>2, <2>2 DEF Typed
<1> QED BY <1>3, <1>4, <1>5 DEF ReporterStep

\* A receive loop keeps the types.
LEMMA ReceiverTyped == ASSUME Typed, NEW f \in Families, ReceiverSteps(f) PROVE Typed'
<1>0. UNCHANGED <<sched, offered, jobs, gaps, inputsClosed, sender, reporter, network,
                  current, writer, app, timedOut, dropped>>
  BY ReceiverOnly
<1>1. ReceiversOK /\ BusOK
  BY DEF Typed
<1>2. SchedOK' /\ QueuesOK' /\ SendersOK' /\ ReporterOK' /\ AppOK' /\ DroppedOK'
  BY <1>0 DEF Typed, SchedOK, QueuesOK, SendersOK, ReporterOK, AppOK, DroppedOK
<1>3. CASE ReceiverPublishes(f)
  <2>1. /\ receiver[f].pc = "publish" /\ Bus!Publish(<<"reply", {receiver[f].slot}>>)
        /\ receiver' = [receiver EXCEPT ![f] = [pc |-> "read", slot |-> 0]]
        /\ UNCHANGED <<failed, closed>>
    BY <1>3 DEF ReceiverPublishes, env, socketVars
  <2>2. <<"reply", {receiver[f].slot}>> \in Events
    BY <1>1, <2>1, SlotEvents DEF ReceiversOK, Kinds
  <2>3. BusOK'
    BY <1>1, <2>1, <2>2, BusSteps
  <2>4. ReceiversOK'
    BY <1>0, <1>1, <2>1 DEF ReceiversOK
  <2> QED BY <1>2, <2>3, <2>4 DEF Typed
<1>4. CASE ~ReceiverPublishes(f)
  <2>1. UNCHANGED busVars
    BY <1>4 DEF ReceiverSteps, ReceiverStep, ReceiverReturns, CloseFamily, SocketFails, ReadEcho
  <2>2. BusOK'
    BY <1>1, <2>1 DEF BusOK, busVars
  <2>3. CASE ReceiverReturns(f)
    BY <1>0, <1>1, <1>2, <2>2, <2>3 DEF Typed, ReceiversOK, ReceiverReturns, env, socketVars
  <2>4. CASE CloseFamily(f)
    BY <1>0, <1>1, <1>2, <2>2, <2>4 DEF Typed, ReceiversOK, CloseFamily
  <2>5. CASE SocketFails(f)
    BY <1>0, <1>1, <1>2, <2>2, <2>5 DEF Typed, ReceiversOK, SocketFails
  <2>6. CASE \E slot \in Slot : ReadEcho(f, slot)
    BY <1>0, <1>1, <1>2, <2>2, <2>6 DEF Typed, ReceiversOK, ReadEcho
  <2> QED BY <1>4, <2>3, <2>4, <2>5, <2>6 DEF ReceiverSteps, ReceiverStep
<1> QED BY <1>3, <1>4

\* The application, DNS and the writer keep the types.
LEMMA AppTyped == ASSUME Typed, AppSteps PROVE Typed'
<1>0. UNCHANGED <<sched, offered, jobs, gaps, sender, reporter, receiver, network, failed,
                  claims, dropped>>
  BY AppOnly
<1>1. ReceiversOK /\ BusOK /\ AppOK
  BY DEF Typed
<1>2. SchedOK' /\ QueuesOK' /\ SendersOK' /\ ReporterOK' /\ DroppedOK'
  BY <1>0 DEF Typed, SchedOK, QueuesOK, SendersOK, ReporterOK, DroppedOK
<1>3. ReceiversOK'
  <2>1. closed' = closed \/ closed' = Families
    BY DEF AppSteps, AppStep, AwaitScheduler, CloseInputs, AwaitInputs, CancelProducers,
           AwaitProducers, AwaitWriter, UpdateEndpoint, WriterReceives, WriterStops,
           StartShutdown, env, socketVars
  <2> QED BY <1>0, <1>1, <2>1 DEF ReceiversOK
<1>4. BusOK'
  <2>1. Bus!Deliver \/ UNCHANGED busVars
    BY DEF AppSteps, AppStep, AwaitScheduler, CloseInputs, AwaitInputs, CancelProducers,
           AwaitProducers, AwaitWriter, UpdateEndpoint, WriterReceives, WriterStops, StartShutdown
  <2>2. <<"gap", {}>> \in Events
    BY SlotEvents DEF Kinds
  <2> QED BY <1>1, <2>1, <2>2, BusSteps
<1>5. AppOK'
  <2>1. CASE AppStep
    BY <1>1, <2>1 DEF AppStep, AppOK, AppGoto, Waited, AwaitScheduler, CloseInputs, AwaitInputs,
         CancelProducers, AwaitProducers, AwaitWriter, inputVars, endpointVars
  <2>2. CASE \E e \in Endpoints : UpdateEndpoint(e)
    BY <1>1, <2>2 DEF AppOK, UpdateEndpoint, inputVars, appVars
  <2>3. CASE WriterReceives \/ WriterStops \/ StartShutdown
    BY <1>1, <2>3 DEF AppOK, AppGoto, WriterReceives, WriterStops, StartShutdown, inputVars,
         endpointVars, appVars, env
  <2> QED BY <2>1, <2>2, <2>3 DEF AppSteps
<1> QED BY <1>2, <1>3, <1>4, <1>5 DEF Typed

\* The types hold at first.
LEMMA InitTyped == Init => Typed
<1> SUFFICES ASSUME Init PROVE Typed
  OBVIOUS
<1>1. SchedOK /\ ReporterOK /\ AppOK /\ DroppedOK
  <2>1. SchedOK
    BY CapacityAssumption DEF Init, SchedOK
  <2>2. ReporterOK
    BY DEF Init, ReporterOK
  <2>3. AppOK
    <3>1. /\ current \in Endpoints \cup {None} /\ writer = "running" /\ app = "running"
          /\ timedOut = FALSE /\ inputsClosed = FALSE
      BY DEF Init
    <3>2. timedOut \in BOOLEAN /\ inputsClosed \in BOOLEAN
      BY <3>1
    <3> QED BY <3>1, <3>2 DEF AppOK
  <2> QED BY <2>1, <2>2, <2>3 DEF Init, DroppedOK
<1>2. QueuesOK
  BY EmptySeq, CapacityAssumption DEF Init, QueuesOK
<1>3. SendersOK /\ ReceiversOK
  BY DEF Init, SendersOK, ReceiversOK, SenderStates
<1>4. BusOK
  BY EmptySeq, CapacityAssumption DEF Init, Bus!Init, BusOK
<1> QED BY <1>1, <1>2, <1>3, <1>4 DEF Typed

\* Every step keeps them.
LEMMA NextTyped == Typed /\ [Next]_vars => Typed'
<1>1. ASSUME Typed, UNCHANGED vars PROVE Typed'
  BY <1>1 DEF vars, endpointVars, inputVars, socketVars, schedVars, busVars, appVars, Typed,
     SchedOK, QueuesOK, SendersOK, ReporterOK, ReceiversOK, BusOK, AppOK, DroppedOK
<1> QED BY <1>1, Steps, SchedulerTyped, SenderTyped, ReporterTyped, ReceiverTyped, AppTyped

\* They are those the runs check.
LEMMA TypedIsEnough == Typed => TypeOK
<1> SUFFICES ASSUME Typed PROVE TypeOK
  OBVIOUS
<1>1. claims \in 0 .. Capacity /\ Len(pending) <= Capacity
  BY LenProperties, CapacityAssumption DEF Typed, BusOK
<1>2. Published \subseteq Events
  <2>1. \A i \in 1 .. Len(pending) : pending[i] \in Events
    BY ElementOfSeq DEF Typed, BusOK
  <2>2. \A i \in 1 .. Len(delivered) : delivered[i] \in Events
    BY ElementOfSeq DEF Typed, BusOK
  <2> QED BY <2>1, <2>2 DEF Published
<1> QED BY <1>1, <1>2
        DEF Typed, TypeOK, SchedOK, QueuesOK, SendersOK, ReporterOK, ReceiversOK, AppOK, DroppedOK

\* A probe leaves by the socket of its family: the endpoint is looked at again
\* with the capacity in hand, and kept for the write.
LEMMA FamilyStep ==
  ASSUME Typed, RightFamily, [Next]_vars
  PROVE  RightFamily'
<1>1. CASE \E f \in Families : SenderStep(f)
  <2> PICK f \in Families : SenderStep(f)
    BY <1>1
  <2>1. sender \in [Families -> [pc : SenderStates, slot : Slot \cup {0},
                                 endpoint : Endpoints \cup {None},
                                 outcome : {"sent", "send_error"}]]
    BY DEF Typed, SendersOK
  <2>2. \A u \in Families : u # f => sender'[u] = sender[u]
    BY <2>1 DEF SenderStep, TakeJob, SenderReturns, SenderReserves, BeginProbe, AbandonProbe,
       SenderPublishes, SenderPublishesGap, SenderFails, WriteEcho, SenderGoto
  <2>3. CASE BeginProbe(f)
    <3>1. /\ Family[current] = f
          /\ sender' = [sender EXCEPT ![f].pc = "write", ![f].endpoint = current]
      BY <2>3 DEF BeginProbe
    <3>2. sender'[f].endpoint = current
      BY <2>1, <3>1
    <3>3. Family[sender'[f].endpoint] = f
      BY <3>1, <3>2
    <3> QED BY <2>2, <3>3 DEF RightFamily
  <2>4. CASE ~BeginProbe(f)
    <3>1. sender'[f].pc # "write"
      BY <2>1, <2>4 DEF SenderStep, TakeJob, SenderReturns, SenderReserves, AbandonProbe,
         SenderPublishes, SenderPublishesGap, SenderFails, WriteEcho, SenderGoto
    <3> QED BY <2>2, <3>1 DEF RightFamily
  <2> QED BY <2>3, <2>4
<1>2. CASE UNCHANGED sender
  BY <1>2 DEF RightFamily
<1> QED BY <1>1, <1>2, Steps, SchedulerOnly, ReporterOnly, ReceiverOnly, AppOnly DEF vars
-----------------------------------------------------------------------------
(* Every slot in one place.                                                *)

\* The slot is in the hand of the send loop of f.
InHand(f, s) == sender[f].slot = s /\ sender[f].pc \notin {"receive", "returned"}
\* Where a slot may be: with the scheduler, in the send loops, on the way to a
\* gap, on the bus or behind it, or given up.
AtScheduler(s) ==
  Once(s \in sched.missed) + Once(s \in sched.record)
  + Once(sched.pc = "offering" /\ s = offered)
InLoops(s) == SumFunctionOnSet(AtSender(s), Families)
InGaps(s) == Count(gaps, GapsWith(s)) + Once(s \in reporter.slots)
OnBus(s) == Count(pending, EventsWith(s)) + Count(delivered, EventsWith(s))
GivenUp(s) == Once(s \in dropped)

\* A slot that is yet to come due is nowhere.
Accounted == \A s \in Slot : Copies(s) = Once(s <= offered)

\* There are at most two families.
LEMMA FamiliesAreFinite == IsFiniteSet(Families)
<1>1. Families \in SUBSET {"v4", "v6"}
  BY EndpointsAssumption DEF Families
<1>2. IsFiniteSet({"v4", "v6"})
  <2> DEFINE one == {"v4"}
  <2>1. IsFiniteSet(one)
    BY FS_Singleton
  <2>2. {"v4", "v6"} = one \cup {"v6"}
    OBVIOUS
  <2> HIDE DEF one
  <2>3. IsFiniteSet(one \cup {"v6"})
    BY <2>1, FS_AddElement
  <2> QED BY <2>2, <2>3
<1> QED BY <1>1, <1>2, FS_Subset

\* A slot is counted in these places, with numbers.
Placed ==
  \A s \in Slot :
    /\ AtSender(s) \in [Families -> Nat] /\ offered \in Nat /\ s \in Nat
    /\ {AtScheduler(s), InLoops(s), InGaps(s), OnBus(s), GivenUp(s)} \subseteq Nat
    /\ Copies(s) = InLoops(s) + InGaps(s) + OnBus(s) + AtScheduler(s) + GivenUp(s)

\* Well typed, a slot is counted so.
LEMMA Places == Typed => Placed
<1> SUFFICES ASSUME Typed, NEW s \in Slot
             PROVE  /\ AtSender(s) \in [Families -> Nat] /\ offered \in Nat /\ s \in Nat
                    /\ {AtScheduler(s), InLoops(s), InGaps(s), OnBus(s), GivenUp(s)} \subseteq Nat
                    /\ Copies(s) = InLoops(s) + InGaps(s) + OnBus(s) + AtScheduler(s) + GivenUp(s)
  BY DEF Placed
<1>1. ASSUME NEW f \in Families PROVE AtSender(s)[f] \in Nat
  <2>1. Count(jobs[f], JobsWith(s)) \in Nat
    BY CountIsNat DEF Typed, QueuesOK
  <2>2. Once(InHand(f, s)) \in Nat
    BY DEF Once
  <2> QED BY <2>1, <2>2 DEF AtSender, InHand
<1>2. AtSender(s) \in [Families -> Nat]
  BY <1>1 DEF AtSender
<1>3. InLoops(s) \in Nat
  BY <1>2, FamiliesAreFinite, SumFunctionIsNat DEF InLoops
<1>4. /\ Count(gaps, GapsWith(s)) \in Nat
      /\ Count(pending, EventsWith(s)) \in Nat /\ Count(delivered, EventsWith(s)) \in Nat
  BY CountIsNat DEF Typed, QueuesOK, BusOK
<1>5. {Once(s \in sched.missed), Once(s \in sched.record), Once(s \in reporter.slots),
       Once(sched.pc = "offering" /\ s = offered), Once(s \in dropped)} \subseteq Nat
  BY DEF Once
<1>6. AtScheduler(s) \in Nat /\ InGaps(s) \in Nat /\ OnBus(s) \in Nat /\ GivenUp(s) \in Nat
  BY <1>4, <1>5 DEF AtScheduler, InGaps, OnBus, GivenUp
<1>7. Copies(s) = InLoops(s) + InGaps(s) + OnBus(s) + AtScheduler(s) + GivenUp(s)
  BY <1>3, <1>4, <1>5 DEF Copies, InLoops, AtScheduler, InGaps, OnBus, GivenUp
<1> QED BY <1>2, <1>3, <1>6, <1>7 DEF Typed, SchedOK, Slot

\* The same after a step.
LEMMA PlacesNext == Typed' => Placed'
BY Places, PTL

\* One send loop changes.
LEMMA LoopsChange ==
  ASSUME Typed, Typed', NEW s \in Slot, NEW f \in Families,
         \A u \in Families : u # f => jobs'[u] = jobs[u] /\ sender'[u] = sender[u]
  PROVE  InLoops(s)' = InLoops(s) + (AtSender(s)'[f] - AtSender(s)[f])
<1>1. AtSender(s) \in [Families -> Nat] /\ AtSender(s)' \in [Families -> Nat]
  BY Places, PlacesNext DEF Placed
<1>2. \A u \in Families : u # f => AtSender(s)'[u] = AtSender(s)[u]
  BY DEF AtSender
<1> QED BY <1>1, <1>2, FamiliesAreFinite, SumFunctionChanges DEF InLoops

\* A loop that keeps its queue and its hand keeps its slots.
LEMMA LoopsUnchanged ==
  ASSUME UNCHANGED <<jobs, sender>> PROVE \A s : InLoops(s)' = InLoops(s)
BY DEF InLoops, AtSender

\* A step keeps the account of a slot if what the slot gains in one place it
\* loses in another.
LEMMA Balance ==
  ASSUME Typed, Typed', Accounted, NEW s \in Slot,
         (AtScheduler(s)' + InLoops(s)' + InGaps(s)' + OnBus(s)' + GivenUp(s)')
         + Once(s <= offered)
         = (AtScheduler(s) + InLoops(s) + InGaps(s) + OnBus(s) + GivenUp(s))
           + Once(s <= offered')
  PROVE  Copies(s)' = Once(s <= offered')
<1>1. Placed /\ Placed'
  BY Places, PlacesNext
<1>2. Copies(s) = Once(s <= offered)
  BY DEF Accounted
<1>3. Once(s <= offered) \in Nat /\ Once(s <= offered') \in Nat
  BY DEF Once
<1>4. /\ {AtScheduler(s), InLoops(s), InGaps(s), OnBus(s), GivenUp(s)} \subseteq Nat
      /\ Copies(s) = InLoops(s) + InGaps(s) + OnBus(s) + AtScheduler(s) + GivenUp(s)
  BY <1>1 DEF Placed
<1>5. /\ {AtScheduler(s)', InLoops(s)', InGaps(s)', OnBus(s)', GivenUp(s)'} \subseteq Nat
      /\ Copies(s)' = InLoops(s)' + InGaps(s)' + OnBus(s)' + AtScheduler(s)' + GivenUp(s)'
  BY <1>1 DEF Placed
<1> QED BY <1>2, <1>3, <1>4, <1>5

\* No slot is in two places, and none before it comes due.
LEMMA OnePlace ==
  ASSUME Typed, Accounted, NEW s \in Slot
  PROVE  /\ {AtScheduler(s), InLoops(s), InGaps(s), OnBus(s), GivenUp(s)} \subseteq Nat
         /\ InLoops(s) + InGaps(s) + OnBus(s) + AtScheduler(s) + GivenUp(s) = Once(s <= offered)
BY Places DEF Accounted, Placed

\* The scheduler's goroutine keeps the account.
LEMMA SchedulerAccounted ==
  ASSUME Typed, Typed', Accounted, SchedulerSteps, NEW s \in Slot
  PROVE  Copies(s)' = Once(s <= offered')
<1>1. UNCHANGED <<sender, reporter, pending, delivered>>
  BY SchedulerOnly
<1>2. OnBus(s)' = OnBus(s) /\ Once(s \in reporter.slots)' = Once(s \in reporter.slots)
  BY <1>1 DEF OnBus
<1>3. SchedOK /\ QueuesOK /\ s \in Nat /\ offered \in Nat
  BY CapacityAssumption DEF Typed, SchedOK, Slot
<1>4. /\ {AtScheduler(s), InLoops(s), InGaps(s), OnBus(s), GivenUp(s)} \subseteq Nat
      /\ InLoops(s) + InGaps(s) + OnBus(s) + AtScheduler(s) + GivenUp(s) = Once(s <= offered)
  BY OnePlace
<1>5. ASSUME UNCHANGED gaps PROVE InGaps(s)' = InGaps(s)
  BY <1>2, <1>5 DEF InGaps
<1>6. ASSUME UNCHANGED dropped PROVE GivenUp(s)' = GivenUp(s)
  BY <1>6 DEF GivenUp
<1>7. ASSUME UNCHANGED jobs PROVE InLoops(s)' = InLoops(s)
  BY <1>1, <1>7, LoopsUnchanged
<1>8. ASSUME UNCHANGED <<jobs, gaps, dropped>>,
             AtScheduler(s)' + Once(s <= offered) = AtScheduler(s) + Once(s <= offered')
      PROVE  Copies(s)' = Once(s <= offered')
  <2>1. Once(s <= offered) \in Nat /\ Once(s <= offered') \in Nat
    BY DEF Once
  <2>2. AtScheduler(s)' \in Nat
    BY PlacesNext DEF Placed
  <2>3. InLoops(s)' = InLoops(s) /\ InGaps(s)' = InGaps(s) /\ GivenUp(s)' = GivenUp(s)
    BY <1>5, <1>6, <1>7, <1>8
  <2>4. (AtScheduler(s)' + InLoops(s)' + InGaps(s)' + OnBus(s)' + GivenUp(s)')
        + Once(s <= offered)
        = (AtScheduler(s) + InLoops(s) + InGaps(s) + OnBus(s) + GivenUp(s))
          + Once(s <= offered')
    BY <1>2, <1>4, <1>8, <2>1, <2>2, <2>3
  <2> QED BY <2>4, Balance
<1>9. CASE RefuseOffer
  <2>1. /\ sched.pc = "idle" /\ offered' = offered + 1 /\ sched'.pc = "idle"
        /\ sched'.missed = sched.missed \cup {offered'} /\ sched'.record = sched.record
    BY <1>3, <1>9 DEF RefuseOffer, Refused, SchedOK
  <2>2. s = offered' => s \notin sched.missed
    BY <1>3, <1>4, <2>1 DEF AtScheduler, Once
  <2>3. AtScheduler(s)' + Once(s <= offered) = AtScheduler(s) + Once(s <= offered')
    BY <1>3, <2>1, <2>2 DEF AtScheduler, Once
  <2> QED BY <1>8, <1>9, <2>3 DEF RefuseOffer, inputVars
<1>10. CASE ResolveOffer
  <2>1. /\ sched.pc = "idle" /\ offered' = offered + 1 /\ sched'.pc = "offering"
        /\ sched'.missed = sched.missed /\ sched'.record = sched.record
    BY <1>3, <1>10 DEF ResolveOffer, SchedOK
  <2>3. AtScheduler(s)' + Once(s <= offered) = AtScheduler(s) + Once(s <= offered')
    BY <1>3, <2>1 DEF AtScheduler, Once
  <2> QED BY <1>8, <1>10, <2>3 DEF ResolveOffer, inputVars
<1>11. CASE RejectOffer
  <2>1. /\ sched.pc = "offering" /\ offered' = offered /\ sched'.pc = "idle"
        /\ sched'.missed = sched.missed \cup {offered} /\ sched'.record = sched.record
    BY <1>3, <1>11 DEF RejectOffer, Refused, SchedOK
  <2>2. s = offered => s \notin sched.missed
    BY <1>3, <1>4, <2>1 DEF AtScheduler, Once
  <2>3. AtScheduler(s)' + Once(s <= offered) = AtScheduler(s) + Once(s <= offered')
    BY <1>3, <2>1, <2>2 DEF AtScheduler, Once
  <2> QED BY <1>8, <1>11, <2>3 DEF RejectOffer, inputVars
<1>12. CASE FlushGap
  <2>1. /\ sched.pc = "idle" /\ offered' = offered /\ sched'.pc = "recording"
        /\ sched.record = {} /\ sched'.missed = {} /\ sched'.record = sched.missed
    BY <1>3, <1>12 DEF FlushGap, SchedOK
  <2>3. AtScheduler(s)' + Once(s <= offered) = AtScheduler(s) + Once(s <= offered')
    BY <1>3, <2>1 DEF AtScheduler, Once
  <2> QED BY <1>8, <1>12, <2>3 DEF FlushGap, inputVars
<1>13. CASE EnterRecordGap \/ SchedulerReturns
  <2>1. /\ sched.pc # "offering" /\ offered' = offered /\ sched'.pc # "offering"
        /\ sched'.missed = sched.missed /\ sched'.record = sched.record
    BY <1>3, <1>13 DEF EnterRecordGap, SchedulerReturns, SchedOK
  <2>3. AtScheduler(s)' + Once(s <= offered) = AtScheduler(s) + Once(s <= offered')
    BY <1>3, <2>1 DEF AtScheduler, Once
  <2> QED BY <1>8, <1>13, <2>3 DEF EnterRecordGap, SchedulerReturns, inputVars
<1>14. CASE AcceptOffer
  <2> DEFINE f == Family[sched.offer]
             j == <<offered, sched.offer>>
  <2>1. f \in Families /\ j \in Slot \X Endpoints /\ (j \in JobsWith(s) <=> s = offered)
    BY <1>3, <1>14 DEF AcceptOffer, SchedOK, Families, JobsWith
  <2>2. /\ sched.pc = "offering" /\ sched.record = {} /\ offered' = offered
        /\ sched'.pc # "offering" /\ sched'.missed = {} /\ sched'.record = sched.missed
        /\ jobs' = [jobs EXCEPT ![f] = Append(@, j)] /\ UNCHANGED <<gaps, dropped>>
    BY <1>3, <1>14 DEF AcceptOffer, SchedOK
  <2>3. jobs[f] \in Seq(Slot \X Endpoints) /\ DOMAIN jobs = Families
    BY <1>3, <2>1 DEF QueuesOK
  <2> HIDE DEF f, j
  <2>4. jobs'[f] = Append(jobs[f], j) /\ \A u \in Families : u # f => jobs'[u] = jobs[u]
    BY <2>1, <2>2, <2>3
  <2>5. Count(Append(jobs[f], j), JobsWith(s)) = Count(jobs[f], JobsWith(s)) + Once(j \in JobsWith(s))
    BY <2>1, <2>3, CountAppend
  <2>6. /\ AtSender(s)[f] = Count(jobs[f], JobsWith(s)) + Once(InHand(f, s))
        /\ AtSender(s)'[f] = Count(jobs'[f], JobsWith(s)) + Once(InHand(f, s))
    BY <1>1, <2>1 DEF AtSender, InHand
  <2>7. Count(jobs[f], JobsWith(s)) \in Nat /\ Once(InHand(f, s)) \in Nat
    BY <2>3, CountIsNat DEF Once
  <2>8. AtSender(s)'[f] - AtSender(s)[f] = Once(s = offered)
    BY <2>1, <2>4, <2>5, <2>6, <2>7 DEF Once
  <2>9. InLoops(s)' = InLoops(s) + (AtSender(s)'[f] - AtSender(s)[f])
    BY <1>1, <2>1, <2>4, LoopsChange
  <2>10. AtScheduler(s)' = Once(s \in sched.missed)
         /\ AtScheduler(s) = Once(s \in sched.missed) + Once(s = offered)
    BY <2>2 DEF AtScheduler, Once
  <2>11. Once(s \in sched.missed) \in Nat /\ Once(s = offered) \in Nat
         /\ Once(s <= offered) \in Nat /\ Once(s <= offered') = Once(s <= offered)
    BY <2>2 DEF Once
  <2>12. InGaps(s)' = InGaps(s) /\ GivenUp(s)' = GivenUp(s)
    BY <1>5, <1>6, <2>2
  <2>13. (AtScheduler(s)' + InLoops(s)' + InGaps(s)' + OnBus(s)' + GivenUp(s)')
         + Once(s <= offered)
         = (AtScheduler(s) + InLoops(s) + InGaps(s) + OnBus(s) + GivenUp(s))
           + Once(s <= offered')
    BY <1>2, <1>4, <2>8, <2>9, <2>10, <2>11, <2>12
  <2> QED BY <2>13, Balance
<1>15. CASE RecordGapRefused
  <2>1. /\ sched.pc # "offering" /\ offered' = offered /\ sched'.pc = "idle"
        /\ sched'.missed = sched.missed /\ sched'.record = {}
        /\ dropped' = dropped \cup sched.record /\ UNCHANGED <<jobs, gaps>>
    BY <1>3, <1>15 DEF RecordGapRefused, SchedOK, inputVars
  <2>2. AtScheduler(s) = Once(s \in sched.missed) + Once(s \in sched.record)
        /\ AtScheduler(s)' = Once(s \in sched.missed)
    BY <2>1 DEF AtScheduler, Once
  <2>3. s \in sched.record => s \notin dropped
    BY <1>4, <2>2 DEF GivenUp, Once
  <2>4. GivenUp(s)' = GivenUp(s) + Once(s \in sched.record)
    BY <2>1, <2>3 DEF GivenUp, Once
  <2>5. InLoops(s)' = InLoops(s) /\ InGaps(s)' = InGaps(s)
    BY <1>5, <1>7, <2>1
  <2>6. Once(s \in sched.missed) \in Nat /\ Once(s \in sched.record) \in Nat
        /\ Once(s <= offered) \in Nat /\ Once(s <= offered') = Once(s <= offered)
    BY <2>1 DEF Once
  <2>7. (AtScheduler(s)' + InLoops(s)' + InGaps(s)' + OnBus(s)' + GivenUp(s)')
        + Once(s <= offered)
        = (AtScheduler(s) + InLoops(s) + InGaps(s) + OnBus(s) + GivenUp(s))
          + Once(s <= offered')
    BY <1>2, <1>4, <2>2, <2>4, <2>5, <2>6
  <2> QED BY <2>7, Balance
<1>16. CASE SendGap
  <2>1. /\ sched.pc # "offering" /\ offered' = offered /\ sched'.pc = "idle"
        /\ sched'.missed = sched.missed /\ sched'.record = {}
        /\ gaps' = Append(gaps, sched.record) /\ UNCHANGED <<jobs, dropped>>
    BY <1>3, <1>16 DEF SendGap, SchedOK, inputVars
  <2>2. gaps \in Seq(SUBSET Slot) /\ sched.record \in SUBSET Slot
    BY <1>3 DEF QueuesOK, SchedOK
  <2>3. Count(gaps', GapsWith(s)) = Count(gaps, GapsWith(s)) + Once(sched.record \in GapsWith(s))
    BY <2>1, <2>2, CountAppend
  <2>4. Once(sched.record \in GapsWith(s)) = Once(s \in sched.record)
    BY <2>2 DEF GapsWith, Once
  <2>5. /\ Count(gaps, GapsWith(s)) \in Nat /\ Once(s \in reporter.slots) \in Nat
        /\ Once(s \in sched.record) \in Nat /\ Once(s \in sched.missed) \in Nat
        /\ Once(s <= offered) \in Nat /\ Once(s <= offered') = Once(s <= offered)
    BY <2>1, <2>2, CountIsNat DEF Once
  <2>6. InGaps(s)' = InGaps(s) + Once(s \in sched.record)
    BY <1>2, <2>3, <2>4, <2>5 DEF InGaps
  <2>7. AtScheduler(s) = Once(s \in sched.missed) + Once(s \in sched.record)
        /\ AtScheduler(s)' = Once(s \in sched.missed)
    BY <2>1 DEF AtScheduler, Once
  <2>8. InLoops(s)' = InLoops(s) /\ GivenUp(s)' = GivenUp(s)
    BY <1>6, <1>7, <2>1
  <2>9. (AtScheduler(s)' + InLoops(s)' + InGaps(s)' + OnBus(s)' + GivenUp(s)')
        + Once(s <= offered)
        = (AtScheduler(s) + InLoops(s) + InGaps(s) + OnBus(s) + GivenUp(s))
          + Once(s <= offered')
    BY <1>2, <1>4, <2>5, <2>6, <2>7, <2>8
  <2> QED BY <2>9, Balance
<1> QED BY <1>9, <1>10, <1>11, <1>12, <1>13, <1>14, <1>15, <1>16
        DEF SchedulerSteps, SchedulerStep, OfferStep

\* The bus takes an event of a slot, or one that is not.
LEMMA Appended ==
  ASSUME Typed, NEW e \in Events, pending' = Append(pending, e), delivered' = delivered,
         NEW s \in Slot
  PROVE  OnBus(s)' = OnBus(s) + Once(e \in EventsWith(s))
<1>1. pending \in Seq(Events) /\ delivered \in Seq(Events)
  BY DEF Typed, BusOK
<1>2. Count(pending', EventsWith(s)) = Count(pending, EventsWith(s)) + Once(e \in EventsWith(s))
  BY <1>1, CountAppend
<1>3. Count(pending, EventsWith(s)) \in Nat /\ Count(delivered, EventsWith(s)) \in Nat
  BY <1>1, CountIsNat
<1>4. Once(e \in EventsWith(s)) \in Nat
  BY DEF Once
<1> QED BY <1>2, <1>3, <1>4 DEF OnBus

\* A send loop keeps the account.
LEMMA SenderAccounted ==
  ASSUME Typed, Typed', Accounted, NEW f \in Families, SenderStep(f), NEW s \in Slot
  PROVE  Copies(s)' = Once(s <= offered')
<1>1. UNCHANGED <<sched, offered, gaps, reporter>>
  BY SenderOnly
<1>2. AtScheduler(s)' = AtScheduler(s) /\ InGaps(s)' = InGaps(s)
      /\ Once(s <= offered') = Once(s <= offered) /\ Once(s <= offered) \in Nat
  BY <1>1 DEF AtScheduler, InGaps, Once
<1>3. SendersOK /\ QueuesOK /\ BusOK
  BY DEF Typed
<1>4. /\ {AtScheduler(s), InLoops(s), InGaps(s), OnBus(s), GivenUp(s)} \subseteq Nat
      /\ InLoops(s) + InGaps(s) + OnBus(s) + AtScheduler(s) + GivenUp(s) = Once(s <= offered)
  BY OnePlace
<1> DEFINE Queued == Count(jobs[f], JobsWith(s))
           Held == Once(InHand(f, s))
<1>5. /\ AtSender(s)[f] = Queued + Held /\ AtSender(s)'[f] = Queued' + Held'
      /\ {Queued, Held, Queued', Held'} \subseteq Nat
  <2>1. jobs[f] \in Seq(Slot \X Endpoints) /\ jobs'[f] \in Seq(Slot \X Endpoints)
    BY DEF Typed, QueuesOK
  <2>2. Queued \in Nat
    BY <2>1, CountIsNat
  <2>3. Count(jobs'[f], JobsWith(s)) \in Nat
    BY <2>1, CountIsNat
  <2>4. Held \in Nat /\ Held' \in Nat
    BY DEF Once
  <2>5. AtSender(s)[f] = Queued + Held /\ AtSender(s)'[f] = Queued' + Held'
    BY DEF AtSender, InHand
  <2> QED BY <2>2, <2>3, <2>4, <2>5 DEF JobsWith
<1>6. \A u \in Families : u # f => jobs'[u] = jobs[u] /\ sender'[u] = sender[u]
  BY <1>3 DEF SendersOK, QueuesOK, SenderStep, TakeJob, SenderReturns, SenderReserves, BeginProbe,
     AbandonProbe, SenderPublishes, SenderPublishesGap, SenderFails, WriteEcho, SenderGoto,
     inputVars
<1>7. InLoops(s)' = InLoops(s) + ((Queued' + Held') - (Queued + Held))
  BY <1>5, <1>6, LoopsChange
<1> HIDE DEF Queued, Held
<1>8. ASSUME OnBus(s)' + GivenUp(s)' + Queued' + Held' = OnBus(s) + GivenUp(s) + Queued + Held,
             OnBus(s)' \in Nat, GivenUp(s)' \in Nat
      PROVE  Copies(s)' = Once(s <= offered')
  <2>1. (AtScheduler(s)' + InLoops(s)' + InGaps(s)' + OnBus(s)' + GivenUp(s)')
        + Once(s <= offered)
        = (AtScheduler(s) + InLoops(s) + InGaps(s) + OnBus(s) + GivenUp(s))
          + Once(s <= offered')
    BY <1>2, <1>4, <1>5, <1>7, <1>8
  <2> QED BY <2>1, Balance
<1>9. OnBus(s)' \in Nat /\ GivenUp(s)' \in Nat
  BY PlacesNext DEF Placed
<1>10. ASSUME UNCHANGED <<pending, delivered>> PROVE OnBus(s)' = OnBus(s)
  BY <1>10 DEF OnBus
<1>11. ASSUME UNCHANGED dropped PROVE GivenUp(s)' = GivenUp(s)
  BY <1>11 DEF GivenUp
<1>12. ASSUME UNCHANGED jobs PROVE Queued' = Queued
  BY <1>12 DEF Queued
<1>13. CASE TakeJob(f)
  <2>1. /\ sender[f].pc = "receive" /\ jobs[f] \in Seq(Slot \X Endpoints) /\ jobs[f] # <<>>
        /\ jobs'[f] = Tail(jobs[f]) /\ UNCHANGED <<pending, delivered, dropped>>
        /\ sender'[f].slot = Head(jobs[f])[1] /\ sender'[f].pc \in {"gap", "reserve"}
    BY <1>3, <1>13 DEF TakeJob, SendersOK, QueuesOK, busVars
  <2>2. Queued = Count(Tail(jobs[f]), JobsWith(s)) + Once(Head(jobs[f]) \in JobsWith(s))
    BY <2>1, CountTail DEF Queued
  <2>3. Head(jobs[f]) \in Slot \X Endpoints
    BY <2>1, HeadTailProperties
  <2>4. Held' = Once(Head(jobs[f]) \in JobsWith(s)) /\ Held = 0
    BY <2>1, <2>3 DEF Held, InHand, JobsWith, Once
  <2>5. Queued' = Count(Tail(jobs[f]), JobsWith(s))
    BY <2>1 DEF Queued, JobsWith
  <2> QED BY <1>4, <1>5, <1>8, <1>9, <1>10, <1>11, <2>1, <2>2, <2>4, <2>5
<1>14. CASE \/ SenderReturns(f) \/ SenderReserves(f) \/ BeginProbe(f) \/ AbandonProbe(f)
            \/ \E outcome \in {"sent", "send_error"} : WriteEcho(f, outcome)
  <2>1. /\ UNCHANGED <<jobs, pending, delivered, dropped>>
        /\ sender'[f].slot = sender[f].slot
        /\ sender'[f].pc \in {"receive", "returned"} <=> sender[f].pc \in {"receive", "returned"}
    BY <1>3, <1>14 DEF SendersOK, SenderReturns, SenderReserves, BeginProbe, AbandonProbe,
       WriteEcho, SenderGoto, inputVars, busVars, Bus!Claim, Bus!GiveBack
  <2>2. Held' = Held
    BY <2>1 DEF Held, InHand
  <2> QED BY <1>4, <1>5, <1>8, <1>9, <1>10, <1>11, <1>12, <2>1, <2>2
<1>15. CASE SenderPublishes(f) \/ SenderPublishesGap(f)
  <2> DEFINE kind == IF sender[f].pc = "publish" THEN sender[f].outcome ELSE "gap"
             slots == {sender[f].slot}
             e == <<kind, slots>>
  <2>1. /\ pending' = Append(pending, e) /\ UNCHANGED <<jobs, delivered, dropped>>
        /\ sender[f].pc \in {"publish", "gap"} /\ sender'[f].pc = "receive"
    BY <1>3, <1>15 DEF SenderPublishes, SenderPublishesGap, SenderGoto, SendersOK, inputVars,
       Bus!Accept, Bus!Publish
  <2>2. sender[f].slot \in Slot /\ sender[f].outcome \in {"sent", "send_error"}
    BY <1>3, <2>1 DEF SendersOK
  <2>3. kind \in Kinds /\ kind # "reply" /\ slots \in SUBSET Slot
    BY <2>2 DEF Kinds
  <2>4. e \in Events
    BY <2>3, SlotEvents
  <2>5. Once(e \in EventsWith(s)) = Held /\ Held' = 0
    BY <2>1, <2>2, <2>3, <2>4 DEF EventsWith, Held, InHand, Once
  <2> HIDE DEF e
  <2>6. OnBus(s)' = OnBus(s) + Held
    BY <2>1, <2>4, <2>5, Appended
  <2> QED BY <1>4, <1>5, <1>8, <1>9, <1>11, <1>12, <2>1, <2>5, <2>6, SMTT(30)
<1>16. CASE SenderFails(f)
  <2>1. /\ UNCHANGED <<jobs, pending, delivered>> /\ dropped' = dropped \cup {sender[f].slot}
        /\ sender[f].pc \notin {"receive", "returned"} /\ sender'[f].pc = "returned"
    BY <1>3, <1>16 DEF SenderFails, SendersOK, inputVars, busVars, Bus!GiveBack
  <2>2. Held = Once(s = sender[f].slot) /\ Held' = 0
    BY <2>1 DEF Held, InHand, Once
  <2>3. InLoops(s) >= Held
    BY <1>4, <1>5, <1>7, PlacesNext, <2>1, <2>2, <1>12 DEF Placed
  <2>4. s = sender[f].slot => s \notin dropped
    BY <1>4, <2>2, <2>3 DEF GivenUp, Once
  <2>5. GivenUp(s)' = GivenUp(s) + Held
    BY <2>1, <2>2, <2>4 DEF GivenUp, Once
  <2> QED BY <1>4, <1>5, <1>8, <1>9, <1>10, <1>12, <2>1, <2>2, <2>5
<1> QED BY <1>13, <1>14, <1>15, <1>16 DEF SenderStep

\* The gap loop keeps the account.
LEMMA ReporterAccounted ==
  ASSUME Typed, Typed', Accounted, ReporterStep, NEW s \in Slot
  PROVE  Copies(s)' = Once(s <= offered')
<1>1. UNCHANGED <<sched, offered, jobs, sender>>
  BY ReporterOnly
<1>2. AtScheduler(s)' = AtScheduler(s) /\ InLoops(s)' = InLoops(s)
      /\ Once(s <= offered') = Once(s <= offered) /\ Once(s <= offered) \in Nat
  BY <1>1, LoopsUnchanged DEF AtScheduler, Once
<1>3. ReporterOK /\ QueuesOK /\ BusOK
  BY DEF Typed
<1>4. /\ {AtScheduler(s), InLoops(s), InGaps(s), OnBus(s), GivenUp(s)} \subseteq Nat
      /\ InLoops(s) + InGaps(s) + OnBus(s) + AtScheduler(s) + GivenUp(s) = Once(s <= offered)
  BY OnePlace
<1>5. InGaps(s)' \in Nat /\ OnBus(s)' \in Nat /\ GivenUp(s)' \in Nat
  BY PlacesNext DEF Placed
<1>6. ASSUME InGaps(s)' + OnBus(s)' + GivenUp(s)' = InGaps(s) + OnBus(s) + GivenUp(s)
      PROVE  Copies(s)' = Once(s <= offered')
  <2>1. (AtScheduler(s)' + InLoops(s)' + InGaps(s)' + OnBus(s)' + GivenUp(s)')
        + Once(s <= offered)
        = (AtScheduler(s) + InLoops(s) + InGaps(s) + OnBus(s) + GivenUp(s))
          + Once(s <= offered')
    BY <1>2, <1>4, <1>5, <1>6
  <2> QED BY <2>1, Balance
<1>7. gaps \in Seq(SUBSET Slot) /\ reporter.slots \in SUBSET Slot
  BY <1>3 DEF QueuesOK, ReporterOK
<1>8. Count(gaps, GapsWith(s)) \in Nat
  BY <1>7, CountIsNat
<1>9. Once(s \in reporter.slots) \in Nat
  BY DEF Once
<1>10. ASSUME UNCHANGED <<pending, delivered>> PROVE OnBus(s)' = OnBus(s)
  BY <1>10 DEF OnBus
<1>11. ASSUME UNCHANGED dropped PROVE GivenUp(s)' = GivenUp(s)
  BY <1>11 DEF GivenUp
<1>12. CASE TakeGap
  <2>1. /\ gaps # <<>> /\ gaps' = Tail(gaps) /\ UNCHANGED <<pending, delivered, dropped>>
        /\ reporter.slots = {} /\ reporter'.slots = Head(gaps)
    BY <1>3, <1>12 DEF TakeGap, ReporterOK, busVars
  <2>2. Count(gaps, GapsWith(s)) = Count(Tail(gaps), GapsWith(s)) + Once(Head(gaps) \in GapsWith(s))
    BY <1>7, <2>1, CountTail
  <2>3. Head(gaps) \in SUBSET Slot /\ Tail(gaps) \in Seq(SUBSET Slot)
    BY <1>7, <2>1, HeadTailProperties
  <2>4. Once(Head(gaps) \in GapsWith(s)) = Once(s \in reporter'.slots)
    BY <2>1, <2>3 DEF GapsWith, Once
  <2>5. Once(s \in reporter.slots) = 0
    BY <2>1 DEF Once
  <2>6. Count(Tail(gaps), GapsWith(s)) \in Nat
    BY <2>3, CountIsNat
  <2>7. Once(s \in reporter'.slots) \in Nat
    BY DEF Once
  <2>8. InGaps(s)' = InGaps(s)
    BY <2>1, <2>2, <2>4, <2>5, <2>6, <2>7 DEF InGaps, GapsWith
  <2> QED BY <1>4, <1>6, <1>10, <1>11, <2>1, <2>8
<1>13. CASE ReporterPublishes
  <2> DEFINE e == <<"gap", reporter.slots>>
  <2>1. /\ pending' = Append(pending, e) /\ UNCHANGED <<gaps, delivered, dropped>>
        /\ reporter'.slots = {}
    BY <1>13 DEF ReporterPublishes, Bus!Publish, inputVars
  <2>2. e \in Events
    BY <1>7, SlotEvents DEF Kinds
  <2>3. Once(e \in EventsWith(s)) = Once(s \in reporter.slots)
    BY <2>2 DEF EventsWith, Once
  <2> HIDE DEF e
  <2>4. OnBus(s)' = OnBus(s) + Once(s \in reporter.slots)
    BY <2>1, <2>2, <2>3, Appended
  <2>5. Once(s \in reporter'.slots) = 0
    BY <2>1 DEF Once
  <2>6. InGaps(s) = InGaps(s)' + Once(s \in reporter.slots)
    BY <1>8, <1>9, <2>1, <2>5 DEF InGaps
  <2> QED BY <1>4, <1>5, <1>6, <1>9, <1>11, <2>1, <2>4, <2>6
<1>14. CASE ReporterReturns
  <2>1. /\ dropped' = dropped \cup reporter.slots /\ UNCHANGED <<gaps, pending, delivered>>
        /\ reporter'.slots = {}
    BY <1>14 DEF ReporterReturns, inputVars, busVars
  <2>2. Once(s \in reporter'.slots) = 0
    BY <2>1 DEF Once
  <2>3. InGaps(s) = InGaps(s)' + Once(s \in reporter.slots)
    BY <1>8, <1>9, <2>1, <2>2 DEF InGaps
  <2>4. s \in reporter.slots => s \notin dropped
    BY <1>4, <1>5, <2>3 DEF GivenUp, Once
  <2>5. GivenUp(s)' = GivenUp(s) + Once(s \in reporter.slots)
    BY <2>1, <2>4 DEF GivenUp, Once
  <2> QED BY <1>4, <1>5, <1>6, <1>9, <1>10, <2>1, <2>3, <2>5
<1> QED BY <1>12, <1>13, <1>14 DEF ReporterStep

\* A receive loop keeps the account: a reply is no end of a slot.
LEMMA ReceiverAccounted ==
  ASSUME Typed, Typed', Accounted, NEW f \in Families, ReceiverSteps(f), NEW s \in Slot
  PROVE  Copies(s)' = Once(s <= offered')
<1>1. UNCHANGED <<sched, offered, jobs, gaps, sender, reporter, dropped>>
  BY ReceiverOnly
<1>2. /\ AtScheduler(s)' = AtScheduler(s) /\ InLoops(s)' = InLoops(s)
      /\ InGaps(s)' = InGaps(s) /\ GivenUp(s)' = GivenUp(s)
  BY <1>1, LoopsUnchanged DEF AtScheduler, InGaps, GivenUp
<1>3. OnBus(s)' = OnBus(s)
  <2>1. CASE ReceiverPublishes(f)
    <3> DEFINE slots == {receiver[f].slot}
               e == <<"reply", slots>>
    <3>1. pending' = Append(pending, e) /\ UNCHANGED delivered /\ receiver[f].pc = "publish"
      BY <2>1 DEF ReceiverPublishes, Bus!Publish
    <3>2. slots \in SUBSET Slot
      BY <3>1 DEF Typed, ReceiversOK
    <3>3. e \in Events
      BY <3>2, SlotEvents DEF Kinds
    <3>4. Once(e \in EventsWith(s)) = 0
      BY DEF EventsWith, Once
    <3> HIDE DEF e
    <3>5. OnBus(s)' = OnBus(s) + 0
      BY <3>1, <3>3, <3>4, Appended
    <3> QED BY <3>5, OnePlace
  <2>2. CASE UNCHANGED busVars
    BY <2>2 DEF OnBus, busVars
  <2> QED BY <2>1, <2>2 DEF ReceiverSteps, ReceiverStep, ReceiverReturns, CloseFamily,
             SocketFails, ReadEcho, busVars
<1>4. (AtScheduler(s)' + InLoops(s)' + InGaps(s)' + OnBus(s)' + GivenUp(s)')
      + Once(s <= offered)
      = (AtScheduler(s) + InLoops(s) + InGaps(s) + OnBus(s) + GivenUp(s))
        + Once(s <= offered')
  BY <1>1, <1>2, <1>3
<1> QED BY <1>4, Balance

\* So do the application, DNS and the writer: what the writer receives was
\* pending before.
LEMMA AppAccounted ==
  ASSUME Typed, Typed', Accounted, AppSteps, NEW s \in Slot
  PROVE  Copies(s)' = Once(s <= offered')
<1>1. UNCHANGED <<sched, offered, jobs, gaps, sender, reporter, dropped>>
  BY AppOnly
<1>2. /\ AtScheduler(s)' = AtScheduler(s) /\ InLoops(s)' = InLoops(s)
      /\ InGaps(s)' = InGaps(s) /\ GivenUp(s)' = GivenUp(s)
  BY <1>1, LoopsUnchanged DEF AtScheduler, InGaps, GivenUp
<1>3. OnBus(s)' = OnBus(s)
  <2>1. CASE WriterReceives
    <3>1. /\ pending # <<>> /\ delivered' = Append(delivered, Head(pending))
          /\ pending' = Tail(pending) /\ pending \in Seq(Events) /\ delivered \in Seq(Events)
      BY <2>1 DEF WriterReceives, Bus!Deliver, Typed, BusOK
    <3>2. Head(pending) \in Events /\ Tail(pending) \in Seq(Events)
      BY <3>1, HeadTailProperties
    <3>3. Count(pending, EventsWith(s))
          = Count(Tail(pending), EventsWith(s)) + Once(Head(pending) \in EventsWith(s))
      BY <3>1, CountTail
    <3>4. Count(delivered', EventsWith(s))
          = Count(delivered, EventsWith(s)) + Once(Head(pending) \in EventsWith(s))
      BY <3>1, <3>2, CountAppend
    <3>5. Count(Tail(pending), EventsWith(s)) \in Nat /\ Count(delivered, EventsWith(s)) \in Nat
      BY <3>1, <3>2, CountIsNat
    <3>6. Once(Head(pending) \in EventsWith(s)) \in Nat
      BY DEF Once
    <3> QED BY <3>1, <3>3, <3>4, <3>5, <3>6 DEF OnBus
  <2>2. CASE UNCHANGED busVars
    BY <2>2 DEF OnBus, busVars
  <2> QED BY <2>1, <2>2 DEF AppSteps, AppStep, AwaitScheduler, CloseInputs, AwaitInputs,
             CancelProducers, AwaitProducers, AwaitWriter, UpdateEndpoint, WriterStops,
             StartShutdown, busVars
<1>4. (AtScheduler(s)' + InLoops(s)' + InGaps(s)' + OnBus(s)' + GivenUp(s)')
      + Once(s <= offered)
      = (AtScheduler(s) + InLoops(s) + InGaps(s) + OnBus(s) + GivenUp(s))
        + Once(s <= offered')
  BY <1>1, <1>2, <1>3
<1> QED BY <1>4, Balance

\* Before the first slot comes due, no slot is anywhere.
LEMMA InitAccounted == Init => Accounted
<1> SUFFICES ASSUME Init, NEW s \in Slot PROVE Copies(s) = Once(s <= offered)
  BY DEF Accounted
<1>1. Placed
  BY InitTyped, Places
<1>2. AtScheduler(s) = 0
  BY DEF Init, AtScheduler, Once
<1>3. Count(gaps, GapsWith(s)) = 0 /\ gaps = <<>>
  BY CountEmpty DEF Init
<1>4. InGaps(s) = 0
  BY <1>3 DEF Init, InGaps, Once
<1>5. OnBus(s) = 0
  <2>1. pending = <<>> /\ delivered = <<>>
    BY DEF Init, Bus!Init
  <2>2. Count(pending, EventsWith(s)) = 0 /\ Count(delivered, EventsWith(s)) = 0
    BY <2>1, CountEmpty
  <2> QED BY <2>2 DEF OnBus
<1>6. GivenUp(s) = 0
  BY DEF Init, GivenUp, Once
<1>7. InLoops(s) = 0
  <2>1. ASSUME NEW f \in Families PROVE AtSender(s)[f] = 0
    <3>1. jobs[f] = <<>> /\ sender[f].pc = "receive"
      BY DEF Init
    <3>2. Count(jobs[f], JobsWith(s)) = 0
      BY <3>1, CountEmpty
    <3>3. Once(InHand(f, s)) = 0
      BY <3>1 DEF InHand, Once
    <3> QED BY <3>2, <3>3 DEF AtSender, InHand
  <2> QED BY <2>1, FamiliesAreFinite, SumFunctionZero DEF InLoops
<1>8. Once(s <= offered) = 0
  BY CapacityAssumption DEF Init, Slot, Once
<1> QED BY <1>1, <1>2, <1>4, <1>5, <1>6, <1>7, <1>8 DEF Placed

\* Every step keeps the account.
LEMMA NextAccounted == Typed /\ Typed' /\ Accounted /\ [Next]_vars => Accounted'
<1> SUFFICES ASSUME Typed, Typed', Accounted, [Next]_vars, NEW s \in Slot
             PROVE  Copies(s)' = Once(s <= offered')
  BY DEF Accounted, Once
<1>1. CASE UNCHANGED vars
  <2>1. UNCHANGED <<sched, offered, jobs, gaps, sender, reporter, pending, delivered, dropped>>
    BY <1>1 DEF vars, inputVars, schedVars, busVars
  <2>2. Copies(s)' = Copies(s)
    BY <2>1 DEF Copies, AtSender
  <2> QED BY <2>1, <2>2 DEF Accounted
<1>2. CASE Next
  BY <1>2, Steps, SchedulerAccounted, SenderAccounted, ReporterAccounted, ReceiverAccounted,
     AppAccounted
<1> QED BY <1>1, <1>2
-----------------------------------------------------------------------------
(* An orderly shutdown.                                                    *)

\* Inputs close at their stage of the shutdown, and with nobody inside TrySubmit
\* or RecordGap.
Closing ==
  /\ inputsClosed <=> Reached("draining")
  /\ inputsClosed => ~HoldsInputLock
\* While no wait has run out, each stage is reached with what it waited for: a
\* loop ends with its queue empty and nothing to come, and nothing is given up.
Orderly ==
  ~timedOut =>
    /\ dropped = {}
    /\ Reached("drain") => sched.pc = "returned"
    /\ Reached("drained") => InputsDone
    /\ Reached("busClosed") => EngineDone
    /\ reporter.pc = "returned" => inputsClosed /\ gaps = <<>>
    /\ \A f \in Families : sender[f].pc = "returned" => inputsClosed /\ jobs[f] = <<>>
    /\ app = "returned" /\ writer = "running" => pending = <<>>

\* Which stages are past which.
Past ==
  /\ Reached("drain") <=>
       app \in {"drain", "draining", "drained", "cancelled", "busClosed", "returned"}
  /\ Reached("draining") <=> app \in {"draining", "drained", "cancelled", "busClosed", "returned"}
  /\ Reached("drained") <=> app \in {"drained", "cancelled", "busClosed", "returned"}
  /\ Reached("cancelled") <=> app \in {"cancelled", "busClosed", "returned"}
  /\ Reached("busClosed") <=> app \in {"busClosed", "returned"}

\* The stages follow one another.
LEMMA StagesFollow == Typed => Past
<1> SUFFICES ASSUME Typed PROVE Past
  OBVIOUS
<1>1. /\ Len(Stages) = 8 /\ Stages[1] = "running" /\ Stages[2] = "stopScheduler"
      /\ Stages[3] = "drain" /\ Stages[4] = "draining" /\ Stages[5] = "drained"
      /\ Stages[6] = "cancelled" /\ Stages[7] = "busClosed" /\ Stages[8] = "returned"
  BY DEF Stages
<1>2. \A i \in 1 .. 8 : i = 1 \/ i = 2 \/ i = 3 \/ i = 4 \/ i = 5 \/ i = 6 \/ i = 7 \/ i = 8
  OBVIOUS
<1>3. \A i \in 1 .. 8 :
        /\ Stages[i] = "drain" <=> i = 3
        /\ Stages[i] = "draining" <=> i = 4
        /\ Stages[i] = "drained" <=> i = 5
        /\ Stages[i] = "cancelled" <=> i = 6
        /\ Stages[i] = "busClosed" <=> i = 7
        /\ Stages[i] = "returned" <=> i = 8
  BY <1>1, <1>2
<1>4. PICK n \in 1 .. 8 : Stages[n] = app
  BY <1>1 DEF Typed, AppOK
<1>5. \A j \in 1 .. 8 : Stages[j] = app <=> j = n
  BY <1>1, <1>2, <1>4
<1>6. /\ Reached("drain") <=> n >= 3
      /\ Reached("draining") <=> n >= 4
      /\ Reached("drained") <=> n >= 5
      /\ Reached("cancelled") <=> n >= 6
      /\ Reached("busClosed") <=> n >= 7
  <2> HIDE DEF Stages
  <2> QED BY <1>1, <1>3, <1>4, <1>5 DEF Reached
<1>7. /\ n >= 3 <=> app \in {"drain", "draining", "drained", "cancelled", "busClosed", "returned"}
      /\ n >= 4 <=> app \in {"draining", "drained", "cancelled", "busClosed", "returned"}
      /\ n >= 5 <=> app \in {"drained", "cancelled", "busClosed", "returned"}
      /\ n >= 6 <=> app \in {"cancelled", "busClosed", "returned"}
      /\ n >= 7 <=> app \in {"busClosed", "returned"}
  BY <1>1, <1>2, <1>4
<1> QED BY <1>6, <1>7 DEF Past

\* The same after a step.
LEMMA StagesFollowNext == Typed' => Past'
BY StagesFollow, PTL

\* The scheduler's goroutine keeps the order.
LEMMA SchedulerOrderly ==
  ASSUME Typed, Typed', Closing, Orderly, SchedulerSteps
  PROVE  Closing' /\ Orderly'
<1>1. UNCHANGED <<inputsClosed, sender, reporter, receiver, pending, writer, app, timedOut>>
  BY SchedulerOnly
<1>2. Past /\ Past' /\ SchedOK
  BY StagesFollow, StagesFollowNext DEF Typed
<1>3. Closing'
  <2>1. inputsClosed' <=> Reached("draining")'
    BY <1>1, <1>2 DEF Closing, Past
  <2>2. inputsClosed => ~HoldsInputLock'
    BY <1>2 DEF Closing, HoldsInputLock, SchedOK, SchedulerSteps, SchedulerStep, OfferStep,
       AcceptOffer, RejectOffer, FlushGap, RecordGapRefused, EnterRecordGap, SendGap,
       SchedulerReturns, RefuseOffer, ResolveOffer
  <2> QED BY <1>1, <2>1, <2>2 DEF Closing
<1>4. CASE timedOut
  BY <1>1, <1>3, <1>4 DEF Orderly
<1>5. CASE ~timedOut
  <2>1. sched.pc # "returned"
    BY DEF SchedulerSteps, SchedulerStep, OfferStep, AcceptOffer, RejectOffer, FlushGap,
       RecordGapRefused, EnterRecordGap, SendGap, SchedulerReturns, RefuseOffer, ResolveOffer
  <2>2. /\ dropped = {}
        /\ app \notin {"drain", "draining", "drained", "cancelled", "busClosed", "returned"}
    BY <1>2, <1>5, <2>1 DEF Orderly, Past
  <2>3. ~inputsClosed
    BY <1>2, <2>2 DEF Closing, Past
  <2>4. reporter.pc # "returned" /\ \A f \in Families : sender[f].pc # "returned"
    BY <1>5, <2>3 DEF Orderly
  <2>5. ~RecordGapRefused
    BY <2>3, <2>4 DEF RecordGapRefused, EngineDone
  <2>6. dropped' = {}
    BY <2>2, <2>5 DEF SchedulerSteps, SchedulerStep, OfferStep, AcceptOffer, RejectOffer,
       FlushGap, EnterRecordGap, SendGap, SchedulerReturns, RefuseOffer, ResolveOffer
  <2>7. ~Reached("drain")' /\ ~Reached("drained")' /\ ~Reached("busClosed")'
    BY <1>1, <1>2, <2>2 DEF Past
  <2> QED BY <1>1, <1>3, <2>2, <2>4, <2>6, <2>7 DEF Orderly
<1> QED BY <1>4, <1>5

\* A send loop keeps the order.
LEMMA SenderOrderly ==
  ASSUME Typed, Typed', Closing, Orderly, NEW f \in Families, SenderStep(f)
  PROVE  Closing' /\ Orderly'
<1>1. UNCHANGED <<sched, gaps, inputsClosed, reporter, receiver, writer, app, timedOut>>
  BY SenderOnly
<1>2. Past /\ Past' /\ SendersOK /\ QueuesOK
  BY StagesFollow, StagesFollowNext DEF Typed
<1>3. Closing'
  BY <1>1, <1>2 DEF Closing, Past, HoldsInputLock
<1>4. CASE timedOut
  BY <1>1, <1>3, <1>4 DEF Orderly
<1>5. CASE ~timedOut
  <2>1. sender[f].pc # "returned"
    BY DEF SenderStep, TakeJob, SenderReturns, SenderReserves, BeginProbe, AbandonProbe,
       SenderPublishes, SenderPublishesGap, SenderFails, WriteEcho, SenderGoto
  <2>2. app \notin {"drained", "cancelled", "busClosed", "returned"}
    BY <1>2, <1>5, <2>1 DEF Orderly, Past, InputsDone
  <2>3. ~ProducersCancelled /\ ~Reached("busClosed") /\ ~Reached("drained")
    BY <1>2, <2>2 DEF Past, ProducersCancelled
  <2>4. ~SenderFails(f)
    BY <2>3 DEF SenderFails
  <2>5. dropped' = dropped
    BY <2>4 DEF SenderStep, TakeJob, SenderReturns, SenderReserves, BeginProbe, AbandonProbe,
       SenderPublishes, SenderPublishesGap, WriteEcho
  <2>6. \A u \in Families : u # f => jobs'[u] = jobs[u] /\ sender'[u] = sender[u]
    BY <1>2 DEF SendersOK, QueuesOK, SenderStep, TakeJob, SenderReturns, SenderReserves,
       BeginProbe, AbandonProbe, SenderPublishes, SenderPublishesGap, SenderFails, WriteEcho,
       SenderGoto, inputVars
  <2>7. sender'[f].pc = "returned" => inputsClosed' /\ jobs'[f] = <<>>
    <3>1. CASE SenderReturns(f)
      BY <1>1, <2>3, <3>1 DEF SenderReturns, inputVars
    <3>2. CASE ~SenderReturns(f)
      <4>1. sender'[f].pc # "returned"
        BY <1>2, <2>4, <3>2 DEF SendersOK, SenderStep, TakeJob, SenderReserves, BeginProbe,
           AbandonProbe, SenderPublishes, SenderPublishesGap, WriteEcho, SenderGoto
      <4> QED BY <4>1
    <3> QED BY <3>1, <3>2
  <2>8. /\ ~Reached("drained")' /\ ~Reached("busClosed")' /\ app' # "returned"
        /\ Reached("drain")' => Reached("drain")
    BY <1>1, <1>2, <2>2 DEF Past
  <2> QED BY <1>1, <1>3, <1>5, <2>5, <2>6, <2>7, <2>8 DEF Orderly
<1> QED BY <1>4, <1>5

\* So does the gap loop.
LEMMA ReporterOrderly ==
  ASSUME Typed, Typed', Closing, Orderly, ReporterStep
  PROVE  Closing' /\ Orderly'
<1>1. UNCHANGED <<sched, jobs, inputsClosed, sender, receiver, writer, app, timedOut>>
  BY ReporterOnly
<1>2. Past /\ Past' /\ ReporterOK
  BY StagesFollow, StagesFollowNext DEF Typed
<1>3. Closing'
  BY <1>1, <1>2 DEF Closing, Past, HoldsInputLock
<1>4. CASE timedOut
  BY <1>1, <1>3, <1>4 DEF Orderly
<1>5. CASE ~timedOut
  <2>1. reporter.pc # "returned"
    BY DEF ReporterStep, TakeGap, ReporterPublishes, ReporterReturns
  <2>2. app \notin {"drained", "cancelled", "busClosed", "returned"}
    BY <1>2, <1>5, <2>1 DEF Orderly, Past, InputsDone
  <2>3. ~ProducersCancelled
    BY <1>2, <2>2 DEF Past, ProducersCancelled
  <2>4. dropped' = dropped /\ (reporter'.pc = "returned" => inputsClosed' /\ gaps' = <<>>)
    <3>1. CASE ReporterReturns
      BY <1>1, <1>2, <2>3, <3>1 DEF ReporterReturns, ReporterOK, inputVars
    <3>2. CASE TakeGap \/ ReporterPublishes
      BY <3>2 DEF TakeGap, ReporterPublishes
    <3> QED BY <3>1, <3>2 DEF ReporterStep
  <2>5. /\ ~Reached("drained")' /\ ~Reached("busClosed")' /\ app' # "returned"
        /\ Reached("drain")' => Reached("drain")
    BY <1>1, <1>2, <2>2 DEF Past
  <2> QED BY <1>1, <1>3, <1>5, <2>4, <2>5 DEF Orderly
<1> QED BY <1>4, <1>5

\* So does a receive loop.
LEMMA ReceiverOrderly ==
  ASSUME Typed, Typed', Closing, Orderly, NEW f \in Families, ReceiverSteps(f)
  PROVE  Closing' /\ Orderly'
<1>1. UNCHANGED <<sched, jobs, gaps, inputsClosed, sender, reporter, writer, app, timedOut, dropped>>
  BY ReceiverOnly
<1>2. Past /\ Past'
  BY StagesFollow, StagesFollowNext
<1>3. Closing'
  BY <1>1, <1>2 DEF Closing, Past, HoldsInputLock
<1>4. CASE timedOut
  BY <1>1, <1>3, <1>4 DEF Orderly
<1>5. CASE ~timedOut
  <2>1. receiver[f].pc # "returned"
    BY DEF ReceiverSteps, ReceiverStep, ReceiverPublishes, ReceiverReturns, CloseFamily,
       SocketFails, ReadEcho
  <2>2. app \notin {"busClosed", "returned"}
    BY <1>2, <1>5, <2>1 DEF Orderly, Past, EngineDone
  <2>3. /\ ~Reached("busClosed")' /\ app' # "returned"
        /\ Reached("drain")' => Reached("drain")
        /\ Reached("drained")' => Reached("drained")
    BY <1>1, <1>2, <2>2 DEF Past
  <2>4. InputsDone' = InputsDone
    BY <1>1 DEF InputsDone
  <2> QED BY <1>1, <1>3, <1>5, <2>3, <2>4 DEF Orderly
<1> QED BY <1>4, <1>5

\* So do the application, DNS and the writer.
LEMMA AppOrderly ==
  ASSUME Typed, Typed', Closing, Orderly, AppSteps
  PROVE  Closing' /\ Orderly'
<1>1. UNCHANGED <<sched, jobs, gaps, sender, reporter, receiver, dropped>>
  BY AppOnly
<1>2. Past /\ Past' /\ AppOK
  BY StagesFollow, StagesFollowNext DEF Typed
<1>3. /\ InputsDone' = InputsDone /\ EngineDone' = EngineDone
      /\ HoldsInputLock' = HoldsInputLock
  BY <1>1 DEF InputsDone, EngineDone, HoldsInputLock
<1>4. Closing'
  <2>1. CASE CloseInputs
    BY <1>2, <1>3, <2>1 DEF CloseInputs, AppGoto, Closing, Past
  <2>2. CASE AwaitScheduler \/ AwaitInputs \/ CancelProducers \/ AwaitProducers \/ AwaitWriter
             \/ StartShutdown
    BY <1>2, <1>3, <2>2 DEF AwaitScheduler, AwaitInputs, CancelProducers, AwaitProducers,
       AwaitWriter, StartShutdown, AppGoto, Closing, Past, inputVars
  <2>3. CASE WriterReceives \/ WriterStops \/ \E e \in Endpoints : UpdateEndpoint(e)
    BY <1>2, <1>3, <2>3 DEF WriterReceives, WriterStops, UpdateEndpoint, Closing, Past,
       inputVars, env, appVars
  <2> QED BY <2>1, <2>2, <2>3 DEF AppSteps, AppStep
<1>5. CASE timedOut'
  BY <1>4, <1>5 DEF Orderly
<1>6. CASE ~timedOut'
  <2>1. ~timedOut
    BY <1>2, <1>6 DEF AppOK, AppSteps, AppStep, AwaitScheduler, CloseInputs, AwaitInputs,
       CancelProducers, AwaitProducers, AwaitWriter, UpdateEndpoint, WriterReceives,
       WriterStops, StartShutdown, Waited, env, appVars
  <2>2. inputsClosed => inputsClosed'
    BY DEF AppSteps, AppStep, AwaitScheduler, CloseInputs, AwaitInputs,
       CancelProducers, AwaitProducers, AwaitWriter, UpdateEndpoint, WriterReceives,
       WriterStops, StartShutdown, inputVars
  <2>3. /\ dropped' = {}
        /\ reporter'.pc = "returned" => inputsClosed' /\ gaps' = <<>>
        /\ \A f \in Families : sender'[f].pc = "returned" => inputsClosed' /\ jobs'[f] = <<>>
    BY <1>1, <2>1, <2>2 DEF Orderly
  <2>4. Reached("drain")' => sched'.pc = "returned"
    <3>1. CASE AwaitScheduler
      BY <1>1, <1>6, <3>1 DEF AwaitScheduler, Waited
    <3>2. CASE ~AwaitScheduler
      <4>1. Reached("drain")' => Reached("drain")
        BY <1>2, <3>2 DEF Past, AppSteps, AppStep, CloseInputs, AwaitInputs, CancelProducers,
           AwaitProducers, AwaitWriter, UpdateEndpoint, WriterReceives, WriterStops,
           StartShutdown, AppGoto, env, appVars
      <4> QED BY <1>1, <2>1, <4>1 DEF Orderly
    <3> QED BY <3>1, <3>2
  <2>5. Reached("drained")' => InputsDone'
    <3>1. CASE AwaitInputs
      BY <1>3, <1>6, <3>1 DEF AwaitInputs, Waited
    <3>2. CASE ~AwaitInputs
      <4>1. Reached("drained")' => Reached("drained")
        BY <1>2, <3>2 DEF Past, AppSteps, AppStep, AwaitScheduler, CloseInputs, CancelProducers,
           AwaitProducers, AwaitWriter, UpdateEndpoint, WriterReceives, WriterStops,
           StartShutdown, AppGoto, env, appVars
      <4> QED BY <1>3, <2>1, <4>1 DEF Orderly
    <3> QED BY <3>1, <3>2
  <2>6. Reached("busClosed")' => EngineDone'
    <3>1. CASE AwaitProducers
      BY <1>3, <1>6, <3>1 DEF AwaitProducers, Waited
    <3>2. CASE ~AwaitProducers
      <4>1. Reached("busClosed")' => Reached("busClosed")
        BY <1>2, <3>2 DEF Past, AppSteps, AppStep, AwaitScheduler, CloseInputs, AwaitInputs,
           CancelProducers, AwaitWriter, UpdateEndpoint, WriterReceives, WriterStops,
           StartShutdown, AppGoto, env, appVars
      <4> QED BY <1>3, <2>1, <4>1 DEF Orderly
    <3> QED BY <3>1, <3>2
  <2>7. app' = "returned" /\ writer' = "running" => pending' = <<>>
    <3>1. CASE AwaitWriter
      BY <1>6, <3>1 DEF AwaitWriter, Waited, busVars
    <3>2. CASE WriterReceives
      BY <2>1, <3>2 DEF WriterReceives, Bus!Deliver, Orderly, env, appVars
    <3>3. CASE WriterStops
      BY <3>3 DEF WriterStops
    <3>4. CASE \E e \in Endpoints : UpdateEndpoint(e)
      BY <2>1, <3>4 DEF UpdateEndpoint, Orderly, appVars, busVars
    <3>5. CASE AwaitScheduler \/ CloseInputs \/ AwaitInputs \/ CancelProducers \/ AwaitProducers
               \/ StartShutdown
      BY <3>5 DEF AwaitScheduler, CloseInputs, AwaitInputs, CancelProducers, AwaitProducers,
         StartShutdown, AppGoto
    <3> QED BY <3>1, <3>2, <3>3, <3>4, <3>5 DEF AppSteps, AppStep
  <2> QED BY <1>4, <2>3, <2>4, <2>5, <2>6, <2>7 DEF Orderly
<1> QED BY <1>5, <1>6

\* The shutdown has not begun.
LEMMA InitOrderly == Init => Closing /\ Orderly
<1> SUFFICES ASSUME Init PROVE Closing /\ Orderly
  OBVIOUS
<1>1. Past
  BY InitTyped, StagesFollow
<1> QED BY <1>1 DEF Init, Past, Closing, Orderly, HoldsInputLock

\* Every step keeps the order.
LEMMA NextOrderly == Typed /\ Typed' /\ Closing /\ Orderly /\ [Next]_vars => Closing' /\ Orderly'
<1>1. ASSUME Closing, Orderly, UNCHANGED vars PROVE Closing' /\ Orderly'
  BY <1>1 DEF vars, inputVars, schedVars, busVars, appVars, Closing, Orderly, HoldsInputLock,
     Reached, InputsDone, EngineDone
<1> QED BY <1>1, Steps, SchedulerOrderly, SenderOrderly, ReporterOrderly, ReceiverOrderly,
           AppOrderly
-----------------------------------------------------------------------------
(* The theorems.                                                           *)

IInv == Typed /\ RightFamily /\ Accounted /\ Closing /\ Orderly

\* At the end of an orderly shutdown a slot is nowhere but with the writer.
LEMMA AllDelivered == IInv => NothingLost
<1> SUFFICES ASSUME IInv, app = "returned", ~timedOut, writer = "running",
                    NEW s \in 1 .. offered
             PROVE  Count(delivered, EventsWith(s)) = 1
  BY DEF NothingLost
<1>1. Past /\ SchedOK /\ ReporterOK
  BY StagesFollow DEF IInv, Typed
<1>2. s \in Slot /\ s <= offered
  BY <1>1, CapacityAssumption DEF SchedOK, Slot
<1>3. /\ dropped = {} /\ sched.pc = "returned" /\ InputsDone /\ gaps = <<>> /\ pending = <<>>
      /\ \A f \in Families : sender[f].pc = "returned" /\ jobs[f] = <<>>
  BY <1>1 DEF IInv, Orderly, Past, InputsDone
<1>4. AtScheduler(s) = 0 /\ GivenUp(s) = 0
  BY <1>1, <1>3 DEF AtScheduler, GivenUp, Once, SchedOK
<1>5. InGaps(s) = 0
  <2>1. Count(gaps, GapsWith(s)) = 0
    BY <1>3, CountEmpty
  <2>2. s \notin reporter.slots
    BY <1>1, <1>3 DEF InputsDone, ReporterOK
  <2> QED BY <2>1, <2>2 DEF InGaps, Once
<1>6. InLoops(s) = 0
  <2>1. ASSUME NEW f \in Families PROVE AtSender(s)[f] = 0
    <3>1. Count(jobs[f], JobsWith(s)) = 0
      BY <1>3, CountEmpty
    <3>2. Once(InHand(f, s)) = 0
      BY <1>3 DEF InHand, Once
    <3> QED BY <3>1, <3>2 DEF AtSender, InHand
  <2> QED BY <2>1, FamiliesAreFinite, SumFunctionZero DEF InLoops
<1>7. /\ {AtScheduler(s), InLoops(s), InGaps(s), OnBus(s), GivenUp(s)} \subseteq Nat
      /\ InLoops(s) + InGaps(s) + OnBus(s) + AtScheduler(s) + GivenUp(s) = Once(s <= offered)
  BY <1>2, OnePlace DEF IInv
<1>8. Once(s <= offered) = 1
  BY <1>2 DEF Once
<1>9. OnBus(s) = 1
  BY <1>4, <1>5, <1>6, <1>7, <1>8
<1>10. Count(pending, EventsWith(s)) = 0 /\ Count(delivered, EventsWith(s)) \in Nat
  BY <1>3, CountEmpty, CountIsNat DEF IInv, Typed, BusOK
<1> QED BY <1>9, <1>10 DEF OnBus

\* A slot that came due is counted once.
LEMMA SlotsAreCounted == IInv => EverySlotInOnePlace
<1> SUFFICES ASSUME IInv, NEW s \in 1 .. offered PROVE Copies(s) = 1
  BY DEF EverySlotInOnePlace
<1>1. s \in Slot /\ s <= offered
  BY CapacityAssumption DEF IInv, Typed, SchedOK, Slot
<1> QED BY <1>1 DEF IInv, Accounted, Once

\* The invariant holds, whatever the addresses, capacities, faults and bounds.
THEOREM Invariant == Spec => []IInv
<1>1. Init => IInv
  BY InitTyped, InitAccounted, InitOrderly DEF IInv, Init, RightFamily
<1>2. IInv /\ [Next]_vars => IInv'
  BY NextTyped, FamilyStep, NextAccounted, NextOrderly DEF IInv
<1> QED BY <1>1, <1>2, PTL DEF Spec

\* The variables keep their types, and the queues and the bus their capacities.
THEOREM TypeCorrect == Spec => []TypeOK
<1>1. IInv => TypeOK
  BY TypedIsEnough DEF IInv
<1> QED BY <1>1, Invariant, PTL

\* A probe leaves through the socket of its endpoint's family, although the
\* endpoint may change family while the job waits for capacity.
THEOREM ProbesLeaveByTheirFamily == Spec => []RightFamily
<1>1. IInv => RightFamily
  BY DEF IInv
<1> QED BY <1>1, Invariant, PTL

\* Every slot that came due is in exactly one place, through endpoint changes,
\* failing sockets, a writer that stops and waits that run out.
THEOREM SlotsAreInOnePlace == Spec => []EverySlotInOnePlace
BY SlotsAreCounted, Invariant, PTL

\* After a shutdown in which no wait ran out, the writer has received one event
\* for every slot that came due.
THEOREM OrderlyShutdownLosesNothing == Spec => []NothingLost
BY AllDelivered, Invariant, PTL
=============================================================================
