--------------------------- MODULE RoutesProofs ---------------------------
(***************************************************************************)
(* Proofs about Routes, for every number of targets, traces, days and hops *)
(* and every retention: the types, that a trace's hops are true, that the  *)
(* traces the candidates and the changes refer to are kept, that a change  *)
(* is two equal traces in a row, and that two such traces always make the  *)
(* baseline.                                                               *)
(***************************************************************************)
EXTENDS Routes, TLAPS, WellFoundedInduction

Methods == {"paris-udp", "classic-udp"}
Reply == [from : Hosts, reached : BOOLEAN, packet : Packets]
Probe == [ttl : TTLs, reply : {NoReply} \cup Reply]
Signatures == UNION {[S -> (SUBSET Hosts) \ {{}}] : S \in SUBSET TTLs}
Results == [target : Targets, endpoint : Endpoints, method : Methods, source : Sources,
            status : Statuses, signature : Signatures, reachedHop : 0 .. MaxHops]
Runs == [target : Targets, endpoint : Endpoints, method : Methods, source : Sources,
         next : 1 .. MaxHops + 1, probes : Seq(Probe), outstanding : SUBSET Nat,
         reachedHop : 0 .. MaxHops, reading : BOOLEAN]

\* The hop the k-th probe of any trace is sent to.
HopOf(k) == 1 + ((k - 1) \div ProbesPerHop)

\* Probes and packets that stand where their hop is.
InOrder(probes) ==
  /\ probes \in Seq(Probe) /\ Len(probes) <= MaxHops * ProbesPerHop
  /\ \A k \in DOMAIN probes : probes[k].ttl = HopOf(k)
Posted(packets) == packets \subseteq {p \in Packets : p.ttl = HopOf(p.token)}

\* The probes the endpoint has answered, and their hops.
FromEndpoint(r) ==
  {k \in DOMAIN r.probes : /\ r.probes[k].reply # NoReply
                           /\ r.probes[k].reply.reached
                           /\ r.probes[k].reply.from = r.endpoint}
Nearest(r) ==
  /\ FromEndpoint(r) = {} => r.reachedHop = 0
  /\ FromEndpoint(r) # {} =>
       /\ \E k \in FromEndpoint(r) : r.reachedHop = r.probes[k].ttl
       /\ \A k \in FromEndpoint(r) : r.reachedHop <= r.probes[k].ttl

\* A trace under way.
RunInv(r) ==
  /\ r \in Runs /\ InOrder(r.probes)
  /\ Len(r.probes) = (r.next - 1) * ProbesPerHop
  /\ r.outstanding \subseteq {k \in DOMAIN r.probes : r.probes[k].reply = NoReply}
  /\ \A k \in DOMAIN r.probes : r.probes[k].reply # NoReply =>
       LET p == r.probes[k].reply.packet
       IN  p.token = k /\ p.target = r.target /\ p.ttl = HopOf(p.token)
  /\ Nearest(r)

EngineInv ==
  /\ current \in [Targets -> Endpoints \cup {Unresolved}]
  /\ using \in [Targets -> Endpoints \cup {Unresolved}]
  /\ traces \in 0 .. MaxTraces /\ changes \in 0 .. MaxChanges
TracerInv ==
  /\ EngineInv /\ Posted(flight) /\ queue \in Seq(Results)
  /\ run # Idle => RunInv(run)
-----------------------------------------------------------------------------
(* Arithmetic.                                                             *)

\* The quotient of a number below m * p is below m.
LEMMA DivBound ==
  ASSUME NEW a \in Nat, NEW p \in Nat \ {0}, NEW m \in Nat, a < m * p
  PROVE  a \div p \in Nat /\ a \div p < m
<1> DEFINE q == a \div p
           r == a % p
<1>1. q \in Nat /\ r \in 0 .. p - 1 /\ a = p * q + r
  OBVIOUS
<1> HIDE DEF q, r
<1>2. ASSUME q >= m PROVE FALSE
  <2>1. p * (q - m) >= 0
    BY <1>1, <1>2
  <2>2. p * q = p * m + p * (q - m)
    BY <1>1
  <2> QED BY <1>1, <2>1, <2>2
<1> QED BY <1>1, <1>2 DEF q

\* A multiple of the divisor moves out of the quotient.
LEMMA DivShift ==
  ASSUME NEW n \in Nat, NEW i \in Nat, NEW p \in Nat \ {0}
  PROVE  (n * p + i) \div p = n + (i \div p)
<1> DEFINE q == i \div p
           r == i % p
           b == (n * p + i) \div p
           c == (n * p + i) % p
<1>1. q \in Nat /\ r \in 0 .. p - 1 /\ i = p * q + r
  OBVIOUS
<1>2. b \in Nat /\ c \in 0 .. p - 1 /\ n * p + i = p * b + c
  OBVIOUS
<1> HIDE DEF q, r, b, c
<1>3. p * (b - (n + q)) = r - c
  BY <1>1, <1>2
<1>4. ASSUME b > n + q PROVE FALSE
  <2>1. p * (b - (n + q)) >= p
    BY <1>1, <1>2, <1>4
  <2> QED BY <2>1, <1>1, <1>2, <1>3
<1>5. ASSUME b < n + q PROVE FALSE
  <2>1. p * (b - (n + q)) <= -p
    BY <1>1, <1>2, <1>5
  <2> QED BY <2>1, <1>1, <1>2, <1>3
<1> QED BY <1>1, <1>2, <1>4, <1>5 DEF b, q

\* A sum of multiples, and that fewer are less.
LEMMA Multiples ==
  ASSUME NEW p \in Nat \ {0}, NEW a \in Nat, NEW b \in Nat, NEW c \in Nat, a <= b, b <= c
  PROVE  a * p + (b - a) * p = b * p /\ b * p <= c * p /\ (b - a) * p \in Nat
<1>1. (c - b) * p >= 0 /\ (b - a) * p >= 0
  OBVIOUS
<1>2. c * p = b * p + (c - b) * p /\ b * p = a * p + (b - a) * p
  OBVIOUS
<1> QED BY <1>1, <1>2

\* What Min picks of two integers.
LEMMA MinOfTwo ==
  ASSUME NEW i \in Int, NEW j \in Int
  PROVE  Min({i, j}) = IF i <= j THEN i ELSE j
<1>1. \E x \in {i, j} : \A y \in {i, j} : x <= y
  OBVIOUS
<1> QED BY <1>1 DEF Min

\* The last hop of a batch.
LEMMA LastTTLInRange ==
  ASSUME run \in Runs, HasNext
  PROVE  LastTTL \in run.next .. MaxHops
<1>1. run.next \in 1 .. MaxHops /\ PipelineHops \in Nat \ {0} /\ MaxHops \in Nat
  BY SizeAssumption DEF Runs, HasNext
<1>2. LastTTL = IF run.next + PipelineHops - 1 <= MaxHops
                  THEN run.next + PipelineHops - 1 ELSE MaxHops
  BY <1>1, MinOfTwo DEF LastTTL
<1> QED BY <1>1, <1>2
-----------------------------------------------------------------------------
(* Sending.                                                                *)

\* The probes sent so far and how many the next hops need.
LEMMA Sizes ==
  ASSUME RunInv(run), HasNext
  PROVE  /\ run.next \in Nat \ {0} /\ LastTTL \in Nat /\ run.next <= LastTTL
         /\ LastTTL <= MaxHops /\ ProbesPerHop \in Nat \ {0} /\ MaxHops \in Nat
         /\ run.probes \in Seq(Probe) /\ Len(run.probes) = (run.next - 1) * ProbesPerHop
         /\ BatchSize \in Nat /\ BatchSize = (LastTTL - run.next + 1) * ProbesPerHop
         /\ Len(run.probes) + BatchSize = LastTTL * ProbesPerHop
         /\ Len(run.probes) + BatchSize <= MaxHops * ProbesPerHop
         /\ MaxHops * ProbesPerHop \in Nat
<1>1. /\ run.next \in Nat \ {0} /\ LastTTL \in Nat /\ run.next <= LastTTL
      /\ LastTTL <= MaxHops /\ ProbesPerHop \in Nat \ {0} /\ MaxHops \in Nat
      /\ run.probes \in Seq(Probe) /\ Len(run.probes) = (run.next - 1) * ProbesPerHop
  <2>1. run.next \in 1 .. MaxHops + 1 /\ LastTTL \in run.next .. MaxHops
    BY LastTTLInRange DEF RunInv, Runs
  <2> QED BY <2>1, SizeAssumption, SMTT(30) DEF RunInv, InOrder
<1>2. BatchSize = (LastTTL - run.next + 1) * ProbesPerHop
  BY DEF BatchSize
<1>3. ASSUME NEW n \in Nat \ {0}, NEW last \in Nat, NEW P \in Nat \ {0}, NEW max \in Nat,
             n <= last, last <= max
      PROVE  /\ (last - n + 1) * P \in Nat /\ max * P \in Nat
             /\ (n - 1) * P + (last - n + 1) * P = last * P /\ last * P <= max * P
  <2>1. n - 1 \in Nat /\ n - 1 <= last /\ last - n + 1 = last - (n - 1)
    BY <1>3
  <2>2. (n - 1) * P + (last - (n - 1)) * P = last * P /\ last * P <= max * P
        /\ (last - (n - 1)) * P \in Nat
    BY <1>3, <2>1, Multiples
  <2> QED BY <2>1, <2>2
<1>4. /\ (LastTTL - run.next + 1) * ProbesPerHop \in Nat /\ MaxHops * ProbesPerHop \in Nat
      /\ (run.next - 1) * ProbesPerHop + (LastTTL - run.next + 1) * ProbesPerHop
           = LastTTL * ProbesPerHop
      /\ LastTTL * ProbesPerHop <= MaxHops * ProbesPerHop
  BY <1>1, <1>3
<1> QED BY <1>1, <1>2, <1>4

\* The first k probes of the next hops.
LEMMA BatchIsTyped ==
  ASSUME RunInv(run), HasNext, NEW k \in 0 .. BatchSize
  PROVE  /\ Batch(k) \in Seq(Probe) /\ Len(Batch(k)) = k
         /\ \A i \in 1 .. k : /\ Batch(k)[i].ttl = HopOf(Len(run.probes) + i)
                              /\ Batch(k)[i].reply = NoReply
<1>1. ASSUME NEW i \in 1 .. k
      PROVE  /\ run.next + ((i - 1) \div ProbesPerHop) \in TTLs
             /\ run.next + ((i - 1) \div ProbesPerHop) = HopOf(Len(run.probes) + i)
  <2> DEFINE P == ProbesPerHop
             n == run.next
             last == LastTTL
             h == n + ((i - 1) \div P)
  <2>1. /\ P \in Nat \ {0} /\ n \in Nat \ {0} /\ last \in Nat /\ n <= last
        /\ i \in Nat \ {0} /\ i <= (last - n + 1) * P
    <3>1. P \in Nat \ {0} /\ n \in Nat \ {0} /\ last \in Nat /\ n <= last
      BY Sizes
    <3>2. BatchSize \in Nat
      BY Sizes
    <3>3. BatchSize = (last - n + 1) * P
      BY Sizes
    <3>4. i \in Nat \ {0} /\ i <= BatchSize
      BY <3>2
    <3> QED BY <3>1, <3>3, <3>4
  <2>2. last <= MaxHops /\ MaxHops \in Nat
    BY Sizes
  <2>3. Len(run.probes) = (n - 1) * P
    BY Sizes
  <2> HIDE DEF P, n, last
  <2>4. h \in n .. last /\ h = 1 + ((((n - 1) * P + i) - 1) \div P)
    <3> DEFINE m == last - n + 1
               j == i - 1
               q == j \div P
               w == n - 1
    <3>1. m \in Nat /\ j \in Nat /\ j < m * P /\ w \in Nat
      BY <2>1
    <3>2. ((n - 1) * P + i) - 1 = w * P + j /\ n = w + 1
      BY <2>1
    <3>3. P \in Nat \ {0} /\ last \in Nat /\ m = last - n + 1 /\ h = n + q
      BY <2>1
    <3> HIDE DEF m, j, w
    <3>4. q \in Nat /\ q < m
      BY <3>1, <3>3, DivBound
    <3>5. (w * P + j) \div P = w + q
      BY <3>1, <3>3, DivShift
    <3> HIDE DEF q, h
    <3>6. h \in n .. last
      BY <2>1, <3>3, <3>4
    <3>7. h = 1 + ((w * P + j) \div P)
      BY <3>1, <3>2, <3>3, <3>4, <3>5
    <3> QED BY <3>2, <3>6, <3>7
  <2>5. h \in TTLs
    <3> HIDE DEF h
    <3> QED BY <2>1, <2>2, <2>4 DEF TTLs
  <2>6. h = HopOf(Len(run.probes) + i)
    BY <2>3, <2>4 DEF HopOf, P
  <2> QED BY <2>5, <2>6 DEF P, n
<1>2. k \in Nat
  BY Sizes
<1>3. \A i \in 1 .. k :
        [ttl |-> run.next + ((i - 1) \div ProbesPerHop), reply |-> NoReply] \in Probe
  BY <1>1 DEF Probe
<1> QED BY <1>1, <1>2, <1>3 DEF Batch

\* They continue those that are sent, in order.
LEMMA BatchInOrder ==
  ASSUME RunInv(run), HasNext, NEW k \in 0 .. BatchSize
  PROVE  /\ InOrder(run.probes \o Batch(k))
         /\ Len(run.probes \o Batch(k)) = Len(run.probes) + k
         /\ \A i \in 1 .. Len(run.probes) : (run.probes \o Batch(k))[i] = run.probes[i]
         /\ \A i \in DOMAIN (run.probes \o Batch(k)) \ DOMAIN run.probes :
              (run.probes \o Batch(k))[i].reply = NoReply
<1> DEFINE b == Batch(k)
           old == run.probes
           all == old \o b
<1>1. /\ old \in Seq(Probe) /\ b \in Seq(Probe) /\ Len(b) = k /\ k \in Nat
      /\ Len(old) \in Nat /\ DOMAIN old = 1 .. Len(old)
  <2>1. b \in Seq(Probe) /\ Len(b) = k
    BY BatchIsTyped
  <2>2. old \in Seq(Probe) /\ k \in Nat
    BY Sizes
  <2> HIDE DEF b, old
  <2> QED BY <2>1, <2>2
<1> HIDE DEF b, old
<1>2. /\ all \in Seq(Probe) /\ Len(all) = Len(old) + k /\ DOMAIN all = 1 .. Len(old) + k
      /\ \A i \in 1 .. Len(old) : all[i] = old[i]
      /\ \A j \in 1 .. k : all[Len(old) + j] = b[j]
  BY <1>1
<1> HIDE DEF all
<1>3. Len(all) <= MaxHops * ProbesPerHop
  <2>1. Len(old) + BatchSize <= MaxHops * ProbesPerHop /\ BatchSize \in Nat
        /\ MaxHops * ProbesPerHop \in Nat
    BY Sizes DEF old
  <2> QED BY <2>1, <1>1, <1>2
<1>4. \A i \in 1 .. Len(old) : all[i].ttl = HopOf(i)
  BY <1>1, <1>2 DEF RunInv, InOrder, old
<1>5. ASSUME NEW i \in 1 .. Len(old) + k, i \notin 1 .. Len(old)
      PROVE  all[i].ttl = HopOf(i) /\ all[i].reply = NoReply
  <2> DEFINE j == i - Len(old)
  <2>1. j \in 1 .. k /\ i = Len(old) + j
    BY <1>1, <1>5
  <2> HIDE DEF j
  <2>2. b[j].ttl = HopOf(Len(old) + j) /\ b[j].reply = NoReply
    BY <2>1, BatchIsTyped DEF b, old
  <2> QED BY <2>1, <2>2, <1>2
<1>6. InOrder(all)
  BY <1>2, <1>3, <1>4, <1>5 DEF InOrder
<1> QED BY <1>1, <1>2, <1>5, <1>6 DEF all, b, old

\* What is sent on the network carries its number and its hop.
LEMMA SentIsPosted ==
  ASSUME RunInv(run), HasNext, NEW k \in 0 .. BatchSize
  PROVE  Posted(Sent(run.probes \o Batch(k)))
<1> DEFINE all == run.probes \o Batch(k)
<1>1. InOrder(all) /\ run \in Runs
  BY BatchInOrder DEF RunInv
<1> HIDE DEF all
<1>2. ASSUME NEW i \in DOMAIN all
      PROVE  Packet(all, i) \in Packets /\ Packet(all, i).ttl = HopOf(Packet(all, i).token)
  <2>1. /\ i \in 1 .. MaxHops * ProbesPerHop
        /\ all[i].ttl = HopOf(i) /\ all[i].ttl \in TTLs
    <3>1. MaxHops * ProbesPerHop \in Nat
      BY SizeAssumption
    <3>2. /\ i \in 1 .. Len(all) /\ Len(all) \in Nat /\ Len(all) <= MaxHops * ProbesPerHop
          /\ all[i] \in Probe /\ all[i].ttl = HopOf(i)
      BY <1>1, <1>2 DEF InOrder
    <3> QED BY <3>1, <3>2 DEF Probe
  <2> QED BY <2>1, <1>1 DEF Packet, Packets, Runs, Methods
<1> QED BY <1>2 DEF Sent, Posted, all
-----------------------------------------------------------------------------
(* The steps of the trace under way.                                       *)

\* A probe of a sequence of probes is one, at a TTL of a trace.
LEMMA ProbeTyped ==
  ASSUME NEW probes \in Seq(Probe), NEW k \in DOMAIN probes
  PROVE  /\ probes[k] \in Probe /\ probes[k].ttl \in TTLs
         /\ probes[k].reply # NoReply => probes[k].reply \in Reply /\ probes[k].reply.from \in Hosts
<1>1. probes[k] \in Probe
  OBVIOUS
<1>2. probes[k].ttl \in TTLs /\ probes[k].reply \in {NoReply} \cup Reply
  BY <1>1 DEF Probe
<1>3. probes[k].reply \in Reply => probes[k].reply.from \in Hosts
  BY DEF Reply
<1> QED BY <1>1, <1>2, <1>3

\* The signature has a non-empty set of hosts for each hop it names.
LEMMA SignatureTyped ==
  ASSUME NEW probes \in Seq(Probe)
  PROVE  Signature(probes) \in Signatures
<1> DEFINE S == {probes[k].ttl : k \in Answered(probes)}
           At(ttl) == {probes[k].reply.from : k \in {i \in Answered(probes) : probes[i].ttl = ttl}}
<1>1. \A k \in Answered(probes) : probes[k].ttl \in TTLs /\ probes[k].reply.from \in Hosts
  BY ProbeTyped DEF Answered
<1>2. S \in SUBSET TTLs
  BY <1>1
<1>3. \A ttl \in S : At(ttl) \in (SUBSET Hosts) \ {{}}
  BY <1>1
<1>4. Signature(probes) = [ttl \in S |-> At(ttl)]
  BY DEF Signature
<1> HIDE DEF S, At
<1>5. Signature(probes) \in [S -> (SUBSET Hosts) \ {{}}]
  BY <1>3, <1>4
<1> QED BY <1>2, <1>5 DEF Signatures

\* What a trace reports (routeSignature and all) is a result.
LEMMA ResultTyped ==
  ASSUME run \in Runs, NEW status \in Statuses, NEW probes \in Seq(Probe)
  PROVE  Result(status, probes) \in Results
<1>1. Signature(probes) \in Signatures /\ 0 \in 0 .. MaxHops
  BY SignatureTyped, SizeAssumption
<1> QED BY <1>1 DEF Result, Results, Runs

\* A trace that begins has its invariant.
LEMMA FreshTrace ==
  ASSUME NEW t \in Targets, NEW e \in Endpoints, NEW m \in Methods, NEW s \in Sources
  PROVE  RunInv(Trace(t, e, m, s))
<1> DEFINE r == Trace(t, e, m, s)
<1>1. MaxHops \in Nat \ {0} /\ ProbesPerHop \in Nat \ {0} /\ MaxHops * ProbesPerHop \in Nat
  BY SizeAssumption
<1>2. /\ r.probes = <<>> /\ r.next = 1 /\ r.outstanding = {} /\ r.reachedHop = 0
      /\ r.target = t /\ r.endpoint = e /\ r.method = m /\ r.source = s /\ r.reading = FALSE
  BY DEF Trace
<1>3. r \in Runs
  BY <1>1 DEF Trace, Runs
<1> HIDE DEF r
<1>4. InOrder(r.probes) /\ Len(r.probes) = (r.next - 1) * ProbesPerHop
  BY <1>1, <1>2 DEF InOrder
<1>5. FromEndpoint(r) = {}
  BY <1>2 DEF FromEndpoint
<1> QED BY <1>2, <1>3, <1>4, <1>5 DEF RunInv, Nearest, r

\* However a trace ends, with a result or with a second try.
LEMMA EndKeepsInv ==
  ASSUME TracerInv, run # Idle, NEW status \in Statuses, NEW probes \in Seq(Probe),
         NEW unanswered, Posted(unanswered), End(status, probes, unanswered)
  PROVE  TracerInv'
<1>1. run \in Runs
  BY DEF TracerInv, RunInv
<1>2. EngineInv'
  BY DEF TracerInv, EngineInv, End, engine
<1>3. Posted(flight)'
  BY DEF End, Posted
<1>4. CASE FallsBack(status, probes)
  <2>1. PICK source \in Sources :
          run' = Trace(run.target, run.endpoint, "classic-udp", source)
    BY <1>4 DEF End
  <2>2. RunInv(run')
    BY <1>1, <2>1, FreshTrace DEF Runs, Methods
  <2>3. queue' = queue
    BY <1>4 DEF End
  <2> QED BY <1>2, <1>3, <2>2, <2>3 DEF TracerInv
<1>5. CASE ~FallsBack(status, probes)
  <2>1. run' = Idle /\ queue' = Append(queue, Result(status, probes))
    BY <1>5 DEF End
  <2>2. queue' \in Seq(Results)
    BY <1>1, <2>1, ResultTyped DEF TracerInv
  <2> QED BY <1>2, <1>3, <2>1, <2>2 DEF TracerInv
<1> QED BY <1>4, <1>5

\* Sending the probes of a batch keeps the invariant of the tracer.
LEMMA SendBatchKeepsInv ==
  ASSUME TracerInv, SendBatch
  PROVE  TracerInv'
<1> DEFINE all == run.probes \o Batch(BatchSize)
           new == DOMAIN all \ DOMAIN run.probes
<1>1. RunInv(run) /\ HasNext /\ BatchSize \in 0 .. BatchSize
  <2>1. RunInv(run) /\ HasNext
    BY DEF TracerInv, SendBatch
  <2> QED BY <2>1, Sizes
<1>2. /\ InOrder(all) /\ Len(all) = Len(run.probes) + BatchSize
      /\ \A i \in 1 .. Len(run.probes) : all[i] = run.probes[i]
      /\ \A i \in new : all[i].reply = NoReply
      /\ Posted(Sent(all))
  BY <1>1, BatchInOrder, SentIsPosted
<1>3. /\ run' = [run EXCEPT !.probes = all, !.next = LastTTL + 1, !.reading = TRUE,
                            !.outstanding = new]
      /\ flight' = flight \cup Sent(all) /\ UNCHANGED <<engine, queue>>
  BY DEF SendBatch
<1> HIDE DEF all
<1>4. all \in Seq(Probe) /\ DOMAIN all = 1 .. Len(all) /\ run.probes \in Seq(Probe)
      /\ DOMAIN run.probes = 1 .. Len(run.probes) /\ Len(run.probes) <= Len(all)
  <2>1. all \in Seq(Probe) /\ DOMAIN all = 1 .. Len(all) /\ Len(all) \in Nat
    BY <1>2 DEF InOrder
  <2>2. run.probes \in Seq(Probe) /\ BatchSize \in Nat /\ DOMAIN run.probes = 1 .. Len(run.probes)
    BY <1>1, Sizes
  <2> QED BY <1>2, <2>1, <2>2
<1>5. /\ run'.probes = all /\ run'.next = LastTTL + 1 /\ run'.reading = TRUE
      /\ run'.outstanding = new /\ run'.target = run.target /\ run'.endpoint = run.endpoint
      /\ run'.reachedHop = run.reachedHop /\ run' \in Runs
  <2>1. LastTTL + 1 \in 1 .. MaxHops + 1 /\ new \in SUBSET Nat
    <3>1. LastTTL \in Nat /\ LastTTL <= MaxHops /\ MaxHops \in Nat
      BY <1>1, Sizes
    <3>2. new \in SUBSET Nat
      BY <1>4
    <3> QED BY <3>1, <3>2
  <2> HIDE DEF new
  <2> QED BY <1>1, <1>3, <1>4, <2>1 DEF RunInv, Runs
<1>6. Len(all) = (run'.next - 1) * ProbesPerHop
  <2>1. run'.next - 1 = LastTTL
    BY <1>1, <1>5, Sizes
  <2> QED BY <1>1, <1>2, <2>1, Sizes
<1>7. \A k \in DOMAIN all : all[k].reply # NoReply =>
        k \in DOMAIN run.probes /\ all[k] = run.probes[k]
  BY <1>2, <1>4
<1>8. FromEndpoint(run') = FromEndpoint(run)
      /\ \A k \in FromEndpoint(run) : run'.probes[k] = run.probes[k]
  BY <1>2, <1>4, <1>5, <1>7 DEF FromEndpoint
<1>9. Nearest(run')
  BY <1>1, <1>5, <1>8 DEF Nearest, RunInv
<1>10. run'.outstanding \subseteq {k \in DOMAIN all : all[k].reply = NoReply}
  BY <1>2, <1>5
<1>11. \A k \in DOMAIN all : all[k].reply # NoReply =>
         LET p == all[k].reply.packet
         IN  p.token = k /\ p.target = run'.target /\ p.ttl = HopOf(p.token)
  BY <1>1, <1>5, <1>7 DEF RunInv
<1>12. RunInv(run')
  BY <1>2, <1>5, <1>6, <1>9, <1>10, <1>11 DEF RunInv
<1> QED BY <1>2, <1>3, <1>12 DEF TracerInv, EngineInv, engine, Posted

\* A probe that is answered is the one the packet was.
LEMMA ReadKeepsInv ==
  ASSUME TracerInv, NEW p \in flight, NEW a \in Answers(p), Read(p, a)
  PROVE  TracerInv'
<1>1. /\ RunInv(run) /\ p \in Packets /\ p.ttl = HopOf(p.token)
      /\ UNCHANGED <<engine, queue>> /\ Posted(flight)' /\ EngineInv'
  BY DEF TracerInv, Read, Posted, EngineInv, engine
<1>2. CASE ~Matches(p)
  BY <1>1, <1>2 DEF Read, TracerInv
<1>3. CASE Matches(p)
  <2> DEFINE k == p.token
             new == [from |-> a.from, reached |-> a.reached, packet |-> p]
             probe == [run.probes[k] EXCEPT !.reply = new]
             ttl == run.probes[k].ttl
  <2>1. /\ k \in run.outstanding /\ k \in DOMAIN run.probes /\ p.target = run.target
        /\ run.probes[k].reply = NoReply /\ ttl = HopOf(k) /\ ttl \in TTLs
        /\ run.probes \in Seq(Probe) /\ run \in Runs
    <3>1. k \in run.outstanding /\ p.target = run.target /\ InOrder(run.probes) /\ run \in Runs
      BY <1>1, <1>3 DEF Matches, RunInv
    <3>2. k \in DOMAIN run.probes /\ run.probes[k].reply = NoReply
      BY <1>1, <3>1 DEF RunInv
    <3> QED BY <3>1, <3>2, ProbeTyped DEF InOrder
  <2>2. new \in Reply /\ new # NoReply
    <3>1. a.from \in Hosts /\ a.reached \in BOOLEAN
      <4>1. Hears[p.ttl] \in SUBSET Routers /\ p.endpoint \in Endpoints
        BY <1>1, SizeAssumption DEF Packets, TTLs
      <4>2. CASE \E h \in Hears[p.ttl] : a = [from |-> h, reached |-> h \in Closed]
        BY <4>1, <4>2 DEF Hosts
      <4>3. CASE a = [from |-> p.endpoint, reached |-> TRUE]
        BY <4>1, <4>3 DEF Hosts
      <4> QED BY <4>2, <4>3 DEF Answers
    <3>2. Unresolved \notin Hosts
      BY NameAssumption DEF Hosts
    <3>3. new # NoReply
      <4>1. new.from # NoReply.from
        BY <3>1, <3>2 DEF NoReply
      <4> QED BY <4>1
    <3> QED BY <1>1, <3>1, <3>3 DEF Reply
  <2>3. run' = [run EXCEPT !.probes[k].reply = new, !.outstanding = @ \ {k},
                           !.reachedHop = ReachedHop(p, a, ttl)]
    BY <1>3 DEF Read
  <2> HIDE DEF new
  <2>4. /\ run'.probes = [run.probes EXCEPT ![k] = probe]
        /\ run'.outstanding = run.outstanding \ {k}
        /\ run'.reachedHop = ReachedHop(p, a, ttl)
        /\ run'.target = run.target /\ run'.endpoint = run.endpoint /\ run'.next = run.next
        /\ run'.method = run.method /\ run'.source = run.source /\ run'.reading = run.reading
    BY <2>1, <2>3 DEF Runs
  <2>5. probe \in Probe /\ probe.ttl = ttl /\ probe.reply = new
    <3>1. run.probes[k] \in Probe
      BY <2>1, ProbeTyped
    <3> QED BY <2>1, <2>2, <3>1 DEF Probe
  <2> HIDE DEF probe
  <2>6. /\ run'.probes \in Seq(Probe) /\ DOMAIN run'.probes = DOMAIN run.probes
        /\ Len(run'.probes) = Len(run.probes) /\ run'.probes[k] = probe
        /\ \A i \in DOMAIN run.probes \ {k} : run'.probes[i] = run.probes[i]
    BY <2>1, <2>4, <2>5
  <2>7. ReachedHop(p, a, ttl) \in 0 .. MaxHops
    BY <2>1, SizeAssumption DEF ReachedHop, TTLs, Runs
  <2>8. run' \in Runs
    <3>1. run' = [target |-> run'.target, endpoint |-> run'.endpoint, method |-> run'.method,
                  source |-> run'.source, next |-> run'.next, probes |-> run'.probes,
                  outstanding |-> run'.outstanding, reachedHop |-> run'.reachedHop,
                  reading |-> run'.reading]
      BY <2>1, <2>3 DEF Runs
    <3> QED BY <2>1, <2>4, <2>6, <2>7, <3>1 DEF Runs
  <2>9. InOrder(run'.probes)
    BY <1>1, <2>1, <2>5, <2>6 DEF RunInv, InOrder
  <2>10. run'.outstanding \subseteq {i \in DOMAIN run'.probes : run'.probes[i].reply = NoReply}
    BY <1>1, <2>4, <2>6 DEF RunInv
  <2>11. ASSUME NEW i \in DOMAIN run'.probes, run'.probes[i].reply # NoReply
         PROVE  LET q == run'.probes[i].reply.packet
                IN  q.token = i /\ q.target = run'.target /\ q.ttl = HopOf(q.token)
    <3>1. CASE i = k
      <4>1. run'.probes[i].reply.packet = p
        BY <2>5, <2>6, <3>1 DEF new
      <4> QED BY <1>1, <2>1, <2>4, <3>1, <4>1
    <3>2. CASE i # k
      BY <1>1, <2>4, <2>6, <2>11, <3>2 DEF RunInv
    <3> QED BY <3>1, <3>2
  <2>12. Nearest(run')
    <3>1. \A i \in FromEndpoint(run') \ {k} :
            i \in FromEndpoint(run) /\ run'.probes[i] = run.probes[i]
      BY <2>4, <2>6 DEF FromEndpoint
    <3>2. \A i \in FromEndpoint(run) : i # k /\ i \in FromEndpoint(run')
                                       /\ run'.probes[i] = run.probes[i]
      BY <2>1, <2>4, <2>6 DEF FromEndpoint
    <3>3. k \in FromEndpoint(run') <=> a.reached /\ a.from = run.endpoint
      BY <2>1, <2>2, <2>4, <2>5, <2>6 DEF FromEndpoint, new
    <3>4. /\ run.reachedHop \in 0 .. MaxHops /\ ttl \in 1 .. MaxHops /\ MaxHops \in Nat
          /\ \A i \in DOMAIN run.probes : run.probes[i].ttl \in 1 .. MaxHops
      BY <2>1, SizeAssumption, ProbeTyped DEF Runs, TTLs
    <3>5. CASE k \notin FromEndpoint(run')
      <4>1. FromEndpoint(run') = FromEndpoint(run)
        BY <3>1, <3>2, <3>5
      <4>2. run'.reachedHop = run.reachedHop
        BY <2>4, <3>3, <3>5 DEF ReachedHop
      <4> QED BY <1>1, <3>2, <4>1, <4>2 DEF RunInv, Nearest
    <3>6. CASE k \in FromEndpoint(run')
      <4>1. FromEndpoint(run') = FromEndpoint(run) \cup {k} /\ run'.probes[k].ttl = ttl
        BY <2>5, <2>6, <3>1, <3>2, <3>6
      <4>2. run'.reachedHop = IF run.reachedHop = 0 \/ ttl < run.reachedHop
                                THEN ttl ELSE run.reachedHop
        BY <2>4, <3>3, <3>6 DEF ReachedHop
      <4>3. FromEndpoint(run) \subseteq DOMAIN run.probes
        BY DEF FromEndpoint
      <4>4. CASE FromEndpoint(run) = {}
        <5>1. run'.reachedHop = ttl /\ FromEndpoint(run') = {k}
          BY <1>1, <4>1, <4>2, <4>4 DEF RunInv, Nearest
        <5> QED BY <3>4, <4>1, <5>1 DEF Nearest
      <4>5. CASE FromEndpoint(run) # {}
        <5>1. /\ \E i \in FromEndpoint(run) : run.reachedHop = run.probes[i].ttl
              /\ \A i \in FromEndpoint(run) : run.reachedHop <= run.probes[i].ttl
          BY <1>1, <4>5 DEF RunInv, Nearest
        <5>2. run.reachedHop # 0
          BY <3>4, <4>3, <5>1
        <5>3. CASE ttl < run.reachedHop
          <6>1. run'.reachedHop = ttl
            BY <4>2, <5>3
          <6>2. \A i \in FromEndpoint(run) : ttl <= run.probes[i].ttl
            BY <3>4, <4>3, <5>1, <5>3
          <6> QED BY <3>2, <3>4, <4>1, <6>1, <6>2 DEF Nearest
        <5>4. CASE ~(ttl < run.reachedHop)
          <6>1. run'.reachedHop = run.reachedHop /\ run.reachedHop <= ttl
            BY <3>4, <4>2, <5>2, <5>4
          <6> QED BY <3>2, <4>1, <5>1, <6>1 DEF Nearest
        <5> QED BY <5>3, <5>4
      <4> QED BY <4>4, <4>5
    <3> QED BY <3>5, <3>6
  <2>13. RunInv(run')
    <3>1. Len(run'.probes) = (run'.next - 1) * ProbesPerHop
      BY <1>1, <2>4, <2>6 DEF RunInv
    <3> QED BY <2>8, <2>9, <2>10, <2>11, <2>12, <3>1 DEF RunInv
  <2> QED BY <1>1, <2>13 DEF TracerInv
<1> QED BY <1>2, <1>3
\* What the network may still answer when sending ends early.
LEMMA SendEndsKeepsInv ==
  ASSUME TracerInv, SendTimesOut \/ SendFails
  PROVE  TracerInv'
<1>1. run # Idle /\ RunInv(run) /\ HasNext
  BY DEF TracerInv, SendTimesOut, SendFails
<1>2. \A k \in 0 .. BatchSize - 1 : k \in 0 .. BatchSize
  BY <1>1, Sizes
<1>3. \A k \in 0 .. BatchSize - 1 : Posted(flight \cup Sent(run.probes \o Batch(k)))
  <2>1. \A k \in 0 .. BatchSize - 1 : Posted(Sent(run.probes \o Batch(k)))
    BY <1>1, <1>2, SentIsPosted
  <2> QED BY <2>1 DEF TracerInv, Posted
<1>4. CASE SendTimesOut
  <2>1. PICK k \in 0 .. BatchSize - 1 :
          End("timed_out", run.probes \o Batch(k), flight \cup Sent(run.probes \o Batch(k)))
    BY <1>4 DEF SendTimesOut
  <2>2. run.probes \o Batch(k) \in Seq(Probe)
    BY <1>1, <1>2, BatchInOrder DEF InOrder
  <2> QED BY <1>1, <1>3, <2>1, <2>2, EndKeepsInv DEF Statuses
<1>5. CASE SendFails
  <2>1. PICK k \in 0 .. BatchSize - 1 :
          End("error", <<>>, flight \cup Sent(run.probes \o Batch(k)))
    BY <1>5 DEF SendFails
  <2>2. <<>> \in Seq(Probe)
    OBVIOUS
  <2> QED BY <1>1, <1>3, <2>1, <2>2, EndKeepsInv DEF Statuses
<1> QED BY <1>4, <1>5

\* The time for a batch is over, reading fails, or there is nothing left to send.
LEMMA FinishKeepsInv ==
  ASSUME TracerInv, EndBatch \/ ReadFails \/ Complete
  PROVE  TracerInv'
<1>1. run # Idle /\ RunInv(run)
  BY DEF TracerInv, EndBatch, ReadFails, Complete
<1>2. CASE EndBatch
  <2>1. run' = [run EXCEPT !.reading = FALSE, !.outstanding = {}]
        /\ UNCHANGED <<engine, flight, queue>>
    BY <1>2 DEF EndBatch
  <2>2. /\ run' \in Runs /\ run'.probes = run.probes /\ run'.next = run.next
        /\ run'.outstanding = {} /\ run'.target = run.target /\ run'.endpoint = run.endpoint
        /\ run'.reachedHop = run.reachedHop
    BY <1>1, <2>1 DEF RunInv, Runs
  <2>3. RunInv(run')
    BY <1>1, <2>2 DEF RunInv, Nearest, FromEndpoint
  <2> QED BY <2>1, <2>3 DEF TracerInv, EngineInv, engine, Posted
<1>3. CASE ReadFails
  <2>1. <<>> \in Seq(Probe)
    OBVIOUS
  <2> QED BY <1>1, <1>3, <2>1, EndKeepsInv DEF ReadFails, TracerInv, Statuses
<1>4. CASE Complete
  BY <1>1, <1>4, EndKeepsInv DEF Complete, TracerInv, RunInv, InOrder, Statuses
<1> QED BY <1>2, <1>3, <1>4
-----------------------------------------------------------------------------
(* The steps between traces, and all of them.                              *)

\* So do the steps of the engine between two traces.
LEMMA EngineKeepsInv ==
  ASSUME TracerInv, NEW t \in Targets,
         Wake(t) \/ Begin(t) \/ \E e \in Endpoints : UpdateEndpoint(t, e)
  PROVE  TracerInv'
<1>1. CASE Wake(t)
  BY <1>1, SizeAssumption DEF TracerInv, EngineInv, Wake, Posted
<1>2. CASE Begin(t)
  <2>1. using[t] \in Endpoints
    BY <1>2 DEF Begin, Waiting, TracerInv, EngineInv
  <2>2. (IF Method = "auto" THEN "paris-udp" ELSE Method) \in Methods
    BY NameAssumption DEF Methods
  <2>3. RunInv(run')
    BY <1>2, <2>1, <2>2, FreshTrace DEF Begin
  <2>4. EngineInv' /\ UNCHANGED <<flight, queue>>
    BY <1>2 DEF Begin, TracerInv, EngineInv
  <2> QED BY <2>3, <2>4 DEF TracerInv, Posted
<1>3. CASE \E e \in Endpoints : UpdateEndpoint(t, e)
  BY <1>3, SizeAssumption DEF TracerInv, EngineInv, UpdateEndpoint, Posted
<1> QED BY <1>1, <1>2, <1>3

\* The tracer at rest satisfies its invariant.
LEMMA TracerInitInv == TracerInit => TracerInv
<1> SUFFICES ASSUME TracerInit PROVE TracerInv
  OBVIOUS
<1>1. EngineInv
  BY SizeAssumption DEF TracerInit, EngineInv
<1>2. queue \in Seq(Results) /\ flight = {} /\ run = Idle
  BY DEF TracerInit
<1> QED BY <1>1, <1>2 DEF TracerInv, Posted

\* Every step of the tracer keeps its invariant.
LEMMA TracerNextInv ==
  ASSUME TracerInv, TracerNext
  PROVE  TracerInv'
<1>1. CASE \E t \in Targets : Wake(t) \/ Begin(t) \/ \E e \in Endpoints : UpdateEndpoint(t, e)
  BY <1>1, EngineKeepsInv
<1>2. CASE SendBatch
  BY <1>2, SendBatchKeepsInv
<1>3. CASE SendTimesOut \/ SendFails
  BY <1>3, SendEndsKeepsInv
<1>4. CASE \E p \in flight : \E a \in Answers(p) : Read(p, a)
  BY <1>4, ReadKeepsInv
<1>5. CASE EndBatch \/ ReadFails \/ Complete
  BY <1>5, FinishKeepsInv
<1> QED BY <1>1, <1>2, <1>3, <1>4, <1>5 DEF TracerNext

\* Results leave the queue.
LEMMA TakeResultInv ==
  ASSUME TracerInv, queue # <<>>, queue' = Tail(queue), UNCHANGED <<engine, run, flight>>
  PROVE  TracerInv' /\ Head(queue) \in Results
<1>1. queue' \in Seq(Results) /\ Head(queue) \in Results
  BY DEF TracerInv
<1> QED BY <1>1 DEF TracerInv, EngineInv, engine, Posted
-----------------------------------------------------------------------------
(* What the invariant says of the properties.                              *)

\* The types of the state.
LEMMA TracerTyped == TracerInv => TracerTypeOK
<1> SUFFICES ASSUME TracerInv PROVE TracerTypeOK
  OBVIOUS
<1>1. flight \subseteq Packets
  BY DEF TracerInv, Posted
<1>2. ASSUME run # Idle
      PROVE  /\ run.target \in Targets /\ run.endpoint \in Endpoints
             /\ run.method \in {"paris-udp", "classic-udp"} /\ run.source \in Sources
             /\ \A k \in DOMAIN run.probes : run.probes[k].ttl \in TTLs
             /\ run.outstanding \subseteq {k \in DOMAIN run.probes : run.probes[k].reply = NoReply}
             /\ run.reachedHop \in 0 .. MaxHops /\ run.reading \in BOOLEAN
  <2>1. RunInv(run)
    BY <1>2 DEF TracerInv
  <2>2. \A k \in DOMAIN run.probes : run.probes[k].ttl \in TTLs
    BY <2>1, ProbeTyped DEF RunInv, InOrder
  <2> QED BY <2>1, <2>2 DEF RunInv, Runs, Methods
<1> QED BY <1>1, <1>2 DEF TracerTypeOK, TracerInv, EngineInv

\* The least of the hops is the one the invariant names.
LEMMA NearestIsLeast ==
  ASSUME NEW S \in SUBSET Nat, NEW m \in S, \A x \in S : m <= x
  PROVE  Min(S) = m
<1>1. \A y \in S : (\A x \in S : y <= x) => y = m
  OBVIOUS
<1> QED BY <1>1 DEF Min

\* What a trace says of its hops was said of a probe to that hop, and the hop it
\* reaches the endpoint at is the nearest.
LEMMA HopsFollow == TracerInv => HopsAreTrue
<1> SUFFICES ASSUME TracerInv, run # Idle PROVE HopsAreTrue
  BY DEF HopsAreTrue, RepliesAreForTheHop, ReachedAtTheNearest
<1>1. RunInv(run) /\ run.probes \in Seq(Probe)
  BY DEF TracerInv, RunInv, InOrder
<1>2. RepliesAreForTheHop
  BY <1>1 DEF RepliesAreForTheHop, Replies, RunInv, InOrder
<1>3. ReachedAtTheNearest
  <2> DEFINE S == FromEndpoint(run)
             hops == {run.probes[k].ttl : k \in S}
  <2>1. {i \in Replies : /\ run.probes[i].reply.reached
                         /\ run.probes[i].reply.from = run.endpoint} = S
    BY DEF Replies, FromEndpoint
  <2>2. S \subseteq DOMAIN run.probes /\ hops \in SUBSET Nat
    BY <1>1, ProbeTyped DEF FromEndpoint, TTLs
  <2>3. Nearest(run)
    BY <1>1 DEF RunInv
  <2>4. run.reachedHop = IF hops = {} THEN 0 ELSE Min(hops)
    <3>1. CASE S = {}
      BY <2>3, <3>1 DEF Nearest
    <3>2. CASE S # {}
      <4>1. run.reachedHop \in hops /\ \A x \in hops : run.reachedHop <= x
        BY <2>3, <3>2 DEF Nearest
      <4> HIDE DEF hops
      <4> QED BY <2>2, <4>1, NearestIsLeast
    <3> QED BY <3>1, <3>2
  <2> HIDE DEF S
  <2> QED BY <2>1, <2>4 DEF ReachedAtTheNearest
<1> QED BY <1>2, <1>3 DEF HopsAreTrue
-----------------------------------------------------------------------------
(* The tables.                                                             *)

Ids == Nat \ {0}
Ways == [signature : Signatures, reachedHop : 0 .. MaxHops]
Flows == [endpoint : Endpoints, method : Methods, source : Sources]
Seen == [id : Ids, route : Ways]
Pending == {NoTrace} \cup Seen
Rows == [current : Ids, flow : Flows, route : Ways, candidate : Pending,
         consecutive : {0, 1}]
Traces == [id : Ids, flow : Flows, route : Ways]

\* The row of a target, and the last completed trace stored: it took the way of
\* the row, or is the candidate.
RowInv(row, last) ==
  /\ row = NoRow <=> last = NoTrace
  /\ row # NoRow =>
       /\ row \in Rows /\ last \in Traces /\ last.flow = row.flow
       /\ row.candidate = NoTrace => row.consecutive = 0 /\ SameRoute(row, last.route)
       /\ row.candidate # NoTrace =>
            /\ row.consecutive = 1 /\ ~SameRoute(row, last.route)
            /\ row.candidate = [id |-> last.id, route |-> last.route]
            /\ row.current < row.candidate.id

TablesTyped ==
  /\ today \in 0 .. MaxDays
  /\ trace_runs \subseteq [id : Ids, target : Targets, day : 0 .. MaxDays]
  /\ \A r, s \in trace_runs : r.id = s.id => r = s
  /\ \E n \in Nat : \A r \in trace_runs : r.id <= n
  /\ DOMAIN route_candidates = Targets /\ DOMAIN recent = Targets
  /\ \A c \in route_changes : c.target \in Targets /\ c.day \in 0 .. MaxDays
RowsInv == \A t \in Targets : RowInv(route_candidates[t], recent[t])

IInv == TracerInv /\ TablesTyped /\ RowsInv /\ ReferencedTracesAreKept
-----------------------------------------------------------------------------
(* The id a row is given.                                                  *)

\* A bounded set of numbers has a greatest one.
LEMMA GreatestExists ==
  ASSUME NEW S \in SUBSET Nat, NEW b \in Nat, \A x \in S : x <= b, S # {}
  PROVE  \E x \in S : \A y \in S : x >= y
<1> DEFINE T == {n \in Nat : \A x \in S : x <= n}
<1>1. PICK n \in T : \A m \in T : ~ (<<m, n>> \in OpToRel(<, Nat))
  <2>1. T # {} /\ T \subseteq Nat
    OBVIOUS
  <2> HIDE DEF T
  <2> QED BY <2>1, WFMin, NatLessThanWellFounded
<1>2. \A m \in T : ~ (m < n)
  BY <1>1 DEF OpToRel
<1>3. CASE n \in S
  BY <1>3
<1>4. CASE n \notin S
  <2>1. PICK x \in S : x \in Nat
    OBVIOUS
  <2>2. x < n /\ \A y \in S : y < n
    BY <1>4, <2>1
  <2>3. n - 1 \in T
    BY <2>1, <2>2
  <2> QED BY <2>1, <2>2, <2>3, <1>2
<1> QED BY <1>3, <1>4

\* What Max picks: an element that none exceeds, where there is a bound.
LEMMA MaxIsGreatest ==
  ASSUME NEW S \in SUBSET Nat, NEW b \in Nat, \A x \in S : x <= b, S # {}
  PROVE  Max(S) \in S /\ \A y \in S : Max(S) >= y
BY GreatestExists DEF Max

\* No row has the next id, nor a higher one.
LEMMA NextIdIsNew ==
  ASSUME TablesTyped
  PROVE  NextId \in Ids /\ \A r \in trace_runs : r.id < NextId
<1> DEFINE S == {0} \cup {r.id : r \in trace_runs}
<1>1. PICK n \in Nat : \A r \in trace_runs : r.id <= n
  BY DEF TablesTyped
<1>2. S \in SUBSET Nat /\ (\A x \in S : x <= n) /\ S # {} /\ \A r \in trace_runs : r.id \in S
  BY <1>1 DEF TablesTyped, Ids
<1> HIDE DEF S
<1>3. Max(S) \in Nat /\ \A y \in S : Max(S) >= y /\ y \in Nat
  BY <1>2, MaxIsGreatest
<1>4. NextId = 1 + Max(S)
  BY DEF NextId, S
<1>5. ASSUME NEW m \in Nat, NEW i \in Nat, m >= i PROVE 1 + m \in Ids /\ i < 1 + m
  BY <1>5 DEF Ids
<1> QED BY <1>2, <1>3, <1>4, <1>5
-----------------------------------------------------------------------------
(* What storing a completed trace does to the row of its target.           *)

\* A way is the same as itself: no hop of a signature is empty.
LEMMA SameAsItself ==
  ASSUME NEW r \in Results, NEW row, row.route = Route(r)
  PROVE  SameRoute(row, Route(r))
<1>1. r.signature \in Signatures
  BY DEF Results
<1>2. \A ttl \in DOMAIN r.signature : r.signature[ttl] # {}
  BY <1>1 DEF Signatures
<1> QED BY <1>2 DEF SameRoute, MeaningfullyDifferent, Route

\* The route and the flow of a trace that was reported are of their kinds.
LEMMA RouteTyped ==
  ASSUME NEW r \in Results
  PROVE  /\ Route(r) \in Ways /\ Flow(r) \in Flows
         /\ Route(r).signature = r.signature /\ Route(r).reachedHop = r.reachedHop
BY DEF Results, Route, Flow, Ways, Flows

\* A row that starts over satisfies the invariant of the rows.
LEMMA BaselineInv ==
  ASSUME NEW r \in Results, NEW id \in Ids
  PROVE  /\ RowInv(Baseline(id, r), [id |-> id, flow |-> Flow(r), route |-> Route(r)])
         /\ Baseline(id, r) # NoRow /\ Baseline(id, r).current = id
         /\ Baseline(id, r).candidate = NoTrace /\ SameRoute(Baseline(id, r), Route(r))
<1> DEFINE row == Baseline(id, r)
           last == [id |-> id, flow |-> Flow(r), route |-> Route(r)]
<1>1. /\ row.current = id /\ row.flow = Flow(r) /\ row.route = Route(r)
      /\ row.candidate = NoTrace /\ row.consecutive = 0 /\ row \in Rows
  <2>1. NoTrace \in Pending
    BY DEF Pending
  <2> QED BY <2>1, RouteTyped DEF Baseline, Rows
<1>2. last \in Traces /\ last.flow = Flow(r) /\ last.route = Route(r)
  BY RouteTyped DEF Traces
<1>3. SameRoute(row, Route(r))
  BY <1>1, SameAsItself
<1>4. row # NoRow /\ last # NoTrace
  <2>1. row.current # NoRow.current /\ last.id # NoTrace.id
    BY <1>1 DEF Ids, NoRow, NoTrace
  <2> QED BY <2>1
<1> HIDE DEF row, last
<1>5. RowInv(row, last)
  BY <1>1, <1>2, <1>3, <1>4 DEF RowInv
<1> QED BY <1>1, <1>3, <1>4, <1>5 DEF row, last

\* updateRouteCandidate finds no row, or one of another flow.
StartsOver(row, r) == row = NoRow \/ row.flow # Flow(r)
\* The ways a row may go: a baseline of its own, back to it, a new candidate, or
\* a confirmed one.
LEMMA UpdateCases ==
  ASSUME NEW row, NEW last, RowInv(row, last), NEW r \in Results, NEW id
  PROVE  LET new == UpdateRouteCandidate(row, id, r) IN
         /\ StartsOver(row, r) => new = [row |-> Baseline(id, r), changes |-> {}]
         /\ ~StartsOver(row, r) =>
              /\ SameRoute(row, Route(r)) => new = [row |-> Reset(row), changes |-> {}]
              /\ ~SameRoute(row, Route(r)) =>
                   /\ (row.candidate = NoTrace \/ row.candidate.route # Route(r)) =>
                        new = [row |-> [row EXCEPT !.candidate = [id |-> id, route |-> Route(r)],
                                                   !.consecutive = 1], changes |-> {}]
                   /\ ~(row.candidate = NoTrace \/ row.candidate.route # Route(r)) =>
                        new = [row |-> Baseline(id, r), changes |-> {Change(row, id, r)}]
<1>1. SameRoute(row, Route(r)) <=> SameRoute(row, r)
  BY DEF SameRoute, Route
<1>2. CASE StartsOver(row, r)
  BY <1>2 DEF UpdateRouteCandidate, StartsOver
<1>3. CASE ~StartsOver(row, r)
  <2>1. row.candidate # NoTrace => Confirmed(row)
    BY <1>3 DEF StartsOver, RowInv, Confirmed
  <2> QED BY <1>1, <1>3, <2>1 DEF UpdateRouteCandidate, StartsOver
<1> QED BY <1>2, <1>3

\* The invariant of the row afterwards, and which traces it refers to.
LEMMA UpdateKeepsRowInv ==
  ASSUME NEW row, NEW last, RowInv(row, last), NEW r \in Results, NEW id \in Ids,
         row # NoRow => row.current < id
  PROVE  LET new == UpdateRouteCandidate(row, id, r)
             now == [id |-> id, flow |-> Flow(r), route |-> Route(r)]
         IN  /\ RowInv(new.row, now) /\ new.row # NoRow
             /\ {new.row.current, new.row.candidate.id} \subseteq
                  {0, id} \cup (IF row = NoRow THEN {} ELSE {row.current})
             /\ \A c \in new.changes :
                  /\ row # NoRow /\ row.candidate # NoTrace /\ c = Change(row, id, r)
                  /\ last.flow = Flow(r) /\ last.route = Route(r) /\ row.flow = Flow(r)
                  /\ row.candidate.id = last.id /\ ~SameRoute(row, Route(r))
             /\ (last # NoTrace /\ last.flow = Flow(r) /\ last.route = Route(r)) =>
                  SameRoute(new.row, Route(r))
<1> DEFINE new == UpdateRouteCandidate(row, id, r)
           now == [id |-> id, flow |-> Flow(r), route |-> Route(r)]
<1>1. /\ NoTrace.id = 0 /\ now \in Traces /\ now.id = id /\ now.flow = Flow(r)
      /\ now.route = Route(r) /\ now # NoTrace
  <2>1. now \in Traces /\ now.id = id /\ now.flow = Flow(r) /\ now.route = Route(r)
    BY RouteTyped DEF Traces
  <2>2. now.id # NoTrace.id /\ NoTrace.id = 0
    BY DEF NoTrace, Ids
  <2> QED BY <2>1, <2>2
<1> HIDE DEF now
<1>2. CASE StartsOver(row, r)
  <2>1. new = [row |-> Baseline(id, r), changes |-> {}]
    BY <1>2, UpdateCases, ZenonT(40)
  <2>2. ~(last # NoTrace /\ last.flow = Flow(r))
    BY <1>2 DEF StartsOver, RowInv
  <2> HIDE DEF new
  <2> QED BY <1>1, <2>1, <2>2, BaselineInv DEF new, now
<1>3. CASE ~StartsOver(row, r) /\ SameRoute(row, Route(r))
  <2>1. new = [row |-> Reset(row), changes |-> {}]
    BY <1>3, UpdateCases
  <2>2. row # NoRow /\ row \in Rows /\ row.flow = Flow(r)
    BY <1>3 DEF StartsOver, RowInv
  <2>3. /\ Reset(row) \in Rows /\ Reset(row).current = row.current
        /\ Reset(row).flow = row.flow /\ Reset(row).route = row.route
        /\ Reset(row).candidate = NoTrace /\ Reset(row).consecutive = 0
    <3>1. NoTrace \in Pending
      BY DEF Pending
    <3>2. Reset(row) \in Rows
      BY <2>2, <3>1 DEF Reset, Rows
    <3>3. /\ Reset(row).current = row.current /\ Reset(row).flow = row.flow
          /\ Reset(row).route = row.route
      BY <2>2 DEF Reset, Rows
    <3>4. Reset(row).candidate = NoTrace /\ Reset(row).consecutive = 0
      BY <2>2 DEF Reset, Rows
    <3> QED BY <3>2, <3>3, <3>4
  <2>4. SameRoute(Reset(row), Route(r))
    BY <1>3, <2>3 DEF SameRoute
  <2>5. Reset(row) # NoRow
    <3>1. Reset(row).current # NoRow.current
      BY <2>2, <2>3 DEF NoRow, Rows, Ids
    <3> QED BY <3>1
  <2>6. RowInv(Reset(row), now)
    BY <1>1, <2>2, <2>3, <2>4, <2>5 DEF RowInv
  <2> HIDE DEF new
  <2> QED BY <1>1, <2>1, <2>2, <2>3, <2>4, <2>5, <2>6 DEF new, now
<1>4. CASE /\ ~StartsOver(row, r) /\ ~SameRoute(row, Route(r))
           /\ row.candidate = NoTrace \/ row.candidate.route # Route(r)
  <2> DEFINE cand == [id |-> id, route |-> Route(r)]
             next == [row EXCEPT !.candidate = cand, !.consecutive = 1]
  <2>1. new = [row |-> next, changes |-> {}]
    BY <1>4, UpdateCases
  <2>2. row # NoRow /\ row \in Rows /\ row.flow = Flow(r) /\ row.current < id
    BY <1>4 DEF StartsOver, RowInv
  <2>3. cand \in Seen /\ cand.id = id /\ cand # NoTrace
    <3>1. cand \in Seen /\ cand.id = id
      BY RouteTyped DEF Seen
    <3>2. cand.id # NoTrace.id
      BY <1>1 DEF Ids
    <3> QED BY <3>1, <3>2
  <2>4. cand = [id |-> now.id, route |-> now.route]
    BY <1>1
  <2> HIDE DEF cand
  <2>5. /\ next \in Rows /\ next.current = row.current /\ next.flow = row.flow
        /\ next.route = row.route /\ next.candidate = cand /\ next.consecutive = 1
    <3>1. cand \in Pending
      BY <2>3 DEF Pending
    <3>2. next \in Rows
      BY <2>2, <3>1 DEF Rows
    <3>3. next.current = row.current /\ next.flow = row.flow /\ next.route = row.route
      BY <2>2 DEF Rows
    <3>4. next.candidate = cand /\ next.consecutive = 1
      BY <2>2 DEF Rows
    <3> HIDE DEF next
    <3> QED BY <3>2, <3>3, <3>4
  <2>6. ~SameRoute(next, Route(r))
    BY <1>4, <2>5 DEF SameRoute
  <2> HIDE DEF next
  <2>7. next # NoRow
    <3>1. next.current # NoRow.current
      BY <2>2, <2>5 DEF NoRow, Rows, Ids
    <3> QED BY <3>1
  <2>8. RowInv(next, now)
    BY <1>1, <2>2, <2>3, <2>4, <2>5, <2>6, <2>7 DEF RowInv
  <2>9. ~(last.flow = Flow(r) /\ last.route = Route(r))
    <3>1. row.candidate = NoTrace => SameRoute(row, last.route)
      BY <2>2 DEF RowInv
    <3>2. row.candidate # NoTrace => row.candidate.route = last.route
      BY <2>2 DEF RowInv
    <3> QED BY <1>4, <3>1, <3>2
  <2> HIDE DEF new
  <2> QED BY <1>1, <2>1, <2>2, <2>3, <2>5, <2>7, <2>8, <2>9 DEF new, now
<1>5. CASE /\ ~StartsOver(row, r) /\ ~SameRoute(row, Route(r))
           /\ ~(row.candidate = NoTrace \/ row.candidate.route # Route(r))
  <2>1. new = [row |-> Baseline(id, r), changes |-> {Change(row, id, r)}]
    BY <1>5, UpdateCases
  <2>2. /\ row # NoRow /\ row.flow = Flow(r) /\ row.candidate # NoTrace
        /\ row.candidate = [id |-> last.id, route |-> last.route] /\ last.flow = row.flow
    BY <1>5 DEF StartsOver, RowInv
  <2>3. row.candidate.id = last.id /\ last.route = Route(r)
    BY <1>5, <2>2
  <2> HIDE DEF new
  <2> QED BY <1>1, <1>5, <2>1, <2>2, <2>3, BaselineInv DEF new, now
<1> QED BY <1>2, <1>3, <1>4, <1>5
-----------------------------------------------------------------------------
(* Storing a trace.                                                        *)

\* A row refers to traces that are stored, of its target, with lower ids.
LEMMA RowsReferToStored ==
  ASSUME IInv, NEW t \in Targets, route_candidates[t] # NoRow
  PROVE  LET row == route_candidates[t]
         IN  /\ row \in Rows
             /\ row.current < NextId
             /\ \E s \in trace_runs : s.id = row.current /\ s.target = t
             /\ row.candidate # NoTrace =>
                  /\ row.candidate.id \in Ids /\ row.candidate.id < NextId
                  /\ row.current < row.candidate.id
                  /\ \E s \in trace_runs : s.id = row.candidate.id /\ s.target = t
<1> DEFINE row == route_candidates[t]
<1>1. row \in Rows /\ RowInv(row, recent[t]) /\ t \in Candidates
  BY DEF IInv, RowsInv, RowInv, Candidates
<1>2. row.current \in Ids /\ row.current # 0
  BY <1>1 DEF Rows, Ids
<1>3. \E s \in trace_runs : s.id = row.current /\ s.target = t
  BY <1>1, <1>2 DEF IInv, ReferencedTracesAreKept
<1>4. ASSUME row.candidate # NoTrace
      PROVE  /\ row.candidate.id \in Ids /\ row.current < row.candidate.id
             /\ \E s \in trace_runs : s.id = row.candidate.id /\ s.target = t
  <2>1. row.candidate \in Seen
    BY <1>1, <1>4 DEF Rows, Pending
  <2>2. row.candidate.id \in Ids /\ row.candidate.id # 0
    BY <2>1 DEF Seen, Ids
  <2>3. row.current < row.candidate.id
    BY <1>1, <1>4 DEF RowInv, NoRow, IInv
  <2> QED BY <1>1, <2>2, <2>3 DEF IInv, ReferencedTracesAreKept
<1>5. \A s \in trace_runs : s.id < NextId
  BY NextIdIsNew DEF IInv
<1> QED BY <1>1, <1>3, <1>4, <1>5

\* What a step that stores a trace does, said of the trace.
LEMMA StoreFacts ==
  ASSUME IInv, StoreTrace
  PROVE  LET r == Head(queue)
             t == r.target
             row == route_candidates[t]
             new == UpdateRouteCandidate(row, NextId, r)
             now == [id |-> NextId, flow |-> Flow(r), route |-> Route(r)]
         IN  /\ r \in Results /\ t \in Targets /\ NextId \in Ids
             /\ TracerInv' /\ today' = today
             /\ trace_runs' = trace_runs \cup {[id |-> NextId, target |-> t, day |-> today]}
             /\ row # NoRow => row.current < NextId
             /\ r.status # "completed" => UNCHANGED <<route_candidates, route_changes, recent>>
             /\ r.status = "completed" =>
                  /\ route_candidates' = [route_candidates EXCEPT ![t] = new.row]
                  /\ route_changes' = route_changes \cup new.changes
                  /\ recent' = [recent EXCEPT ![t] = now]
<1>1. TracerInv' /\ Head(queue) \in Results
  BY TakeResultInv DEF StoreTrace, IInv
<1>2. Head(queue).target \in Targets
  BY <1>1 DEF Results
<1>3. NextId \in Ids
  BY NextIdIsNew DEF IInv
<1>4. route_candidates[Head(queue).target] # NoRow =>
        route_candidates[Head(queue).target].current < NextId
  BY <1>2, RowsReferToStored
<1> QED BY <1>1, <1>2, <1>3, <1>4 DEF StoreTrace

\* Storing a trace (insertTrace) keeps the invariant.
LEMMA StoreTraceKeepsInv ==
  ASSUME IInv, StoreTrace
  PROVE  IInv'
<1> DEFINE r == Head(queue)
           t == r.target
           id == NextId
           row == route_candidates[t]
           new == UpdateRouteCandidate(row, id, r)
           now == [id |-> id, flow |-> Flow(r), route |-> Route(r)]
           stored == [id |-> id, target |-> t, day |-> today]
<1>1. /\ r \in Results /\ t \in Targets /\ id \in Ids
      /\ TracerInv' /\ today' = today /\ trace_runs' = trace_runs \cup {stored}
      /\ row # NoRow => row.current < id
      /\ r.status # "completed" => UNCHANGED <<route_candidates, route_changes, recent>>
      /\ r.status = "completed" =>
           /\ route_candidates' = [route_candidates EXCEPT ![t] = new.row]
           /\ route_changes' = route_changes \cup new.changes
           /\ recent' = [recent EXCEPT ![t] = now]
  BY StoreFacts
<1>2. \A s \in trace_runs : s.id < id
  BY NextIdIsNew DEF IInv
<1>3. RowInv(row, recent[t]) /\ DOMAIN route_candidates = Targets /\ DOMAIN recent = Targets
  BY <1>1, SMTT(30) DEF IInv, RowsInv, TablesTyped
<1>4. /\ RowInv(new.row, now) /\ new.row # NoRow
      /\ {new.row.current, new.row.candidate.id} \subseteq
           {0, id} \cup (IF row = NoRow THEN {} ELSE {row.current})
      /\ \A c \in new.changes : row # NoRow /\ row.candidate # NoTrace /\ c = Change(row, id, r)
  BY <1>1, <1>3, UpdateKeepsRowInv
<1>5. /\ stored.id = id /\ stored.target = t /\ stored.day = today /\ stored \in trace_runs'
      /\ stored \in [id : Ids, target : Targets, day : 0 .. MaxDays]
  BY <1>1 DEF IInv, TablesTyped
<1> HIDE DEF r, t, id, row, new, now, stored
<1>6. ASSUME NEW c \in new.changes
      PROVE  /\ c.target = t /\ c.day = today /\ c.old = row.current
             /\ c.candidate = row.candidate.id /\ c.confirming = id
             /\ c.firstSeen = {s \in trace_runs : s.id = row.candidate.id}
  BY <1>1, <1>4, <1>6 DEF Change, t
<1>7. TablesTyped'
  <2>1. /\ trace_runs' \subseteq [id : Ids, target : Targets, day : 0 .. MaxDays]
        /\ today' \in 0 .. MaxDays
    BY <1>1, <1>5 DEF IInv, TablesTyped
  <2>2. \A x, y \in trace_runs' : x.id = y.id => x = y
    <3>1. \A x \in trace_runs : x.id \in Nat /\ x.id # id
      BY <1>1, <1>2 DEF IInv, TablesTyped, Ids
    <3> QED BY <1>1, <1>5, <3>1 DEF IInv, TablesTyped
  <2>3. \E n \in Nat : \A x \in trace_runs' : x.id <= n
    <3>1. id \in Nat /\ \A x \in trace_runs' : x.id \in Nat /\ x.id <= id
      BY <1>1, <1>2, <1>5, <2>1 DEF Ids
    <3> QED BY <3>1
  <2>4. DOMAIN route_candidates' = Targets /\ DOMAIN recent' = Targets
    BY <1>1, <1>3
  <2>5. \A c \in route_changes' : c.target \in Targets /\ c.day \in 0 .. MaxDays
    <3>1. \A c \in route_changes' : c \in route_changes \/ c \in new.changes
      BY <1>1
    <3> QED BY <1>1, <1>6, <3>1 DEF IInv, TablesTyped
  <2> QED BY <2>1, <2>2, <2>3, <2>4, <2>5 DEF TablesTyped
<1>8. ASSUME NEW u \in Targets PROVE RowInv(route_candidates'[u], recent'[u])
  <2>1. CASE r.status = "completed" /\ u = t
    BY <1>1, <1>3, <1>4, <2>1
  <2>2. CASE ~(r.status = "completed" /\ u = t)
    <3>1. route_candidates'[u] = route_candidates[u] /\ recent'[u] = recent[u]
      BY <1>1, <1>3, <2>2
    <3> QED BY <3>1 DEF IInv, RowsInv
  <2> QED BY <2>1, <2>2
<1>9. ASSUME NEW u \in Candidates',
             NEW i \in {route_candidates'[u].current, route_candidates'[u].candidate.id} \ {0}
      PROVE  \E s \in trace_runs' : s.id = i /\ s.target = u
  <2>1. u \in Targets
    BY DEF Candidates
  <2>2. CASE r.status = "completed" /\ u = t
    <3>1. route_candidates'[u] = new.row
      BY <1>1, <1>3, <2>2
    <3>2. i = id \/ (row # NoRow /\ i = row.current)
      BY <1>4, <1>9, <3>1
    <3>3. row # NoRow => \E s \in trace_runs : s.id = row.current /\ s.target = t
      BY <1>1, RowsReferToStored DEF row
    <3> QED BY <1>1, <1>5, <2>2, <3>2, <3>3
  <2>3. CASE ~(r.status = "completed" /\ u = t)
    <3>1. route_candidates'[u] = route_candidates[u]
      BY <1>1, <1>3, <2>1, <2>3
    <3>2. u \in Candidates
      BY <2>1, <3>1 DEF Candidates
    <3>3. \E s \in trace_runs : s.id = i /\ s.target = u
      BY <1>9, <3>1, <3>2 DEF IInv, ReferencedTracesAreKept
    <3> QED BY <1>1, <3>3
  <2> QED BY <2>2, <2>3
<1>10. ASSUME NEW c \in route_changes'
       PROVE  /\ \A i \in {c.old, c.candidate, c.confirming} :
                   \E s \in trace_runs' : s.id = i /\ s.target = c.target
              /\ \E s \in trace_runs' : s.id = c.candidate /\ c.firstSeen = {s}
              /\ c.old < c.candidate /\ c.candidate < c.confirming
  <2>1. CASE c \in route_changes
    BY <1>1, <2>1 DEF IInv, ReferencedTracesAreKept
  <2>2. CASE c \in new.changes
    <3>1. row # NoRow /\ row.candidate # NoTrace
      BY <1>4, <2>2
    <3>2. /\ row.current < row.candidate.id /\ row.candidate.id < id
          /\ \E s \in trace_runs : s.id = row.current /\ s.target = t
          /\ \E s \in trace_runs : s.id = row.candidate.id /\ s.target = t
      BY <1>1, <3>1, RowsReferToStored DEF row, id
    <3>3. PICK s \in trace_runs : s.id = row.candidate.id /\ s.target = t
      BY <3>2
    <3>4. c.firstSeen = {s}
      <4>1. \A x \in trace_runs : x.id = s.id => x = s
        BY DEF IInv, TablesTyped
      <4> QED BY <1>6, <2>2, <3>3, <4>1
    <3> QED BY <1>1, <1>5, <1>6, <2>2, <3>2, <3>3, <3>4
  <2> QED BY <1>1, <1>10, <2>1, <2>2
<1>11. ReferencedTracesAreKept'
  BY <1>9, <1>10 DEF ReferencedTracesAreKept
<1> QED BY <1>1, <1>7, <1>8, <1>11 DEF IInv, RowsInv
-----------------------------------------------------------------------------
(* The other steps.                                                        *)

\* Retention deletes what nothing refers to.
LEMMA DeleteTracesKeepsInv ==
  ASSUME IInv, DeleteTraces
  PROVE  IInv'
<1>1. \A r \in OldTraces \cup SpareTraces : r.id \notin Referenced
  BY DEF OldTraces, SpareTraces
<1>2. PICK S : /\ trace_runs' = trace_runs \ S
               /\ S \subseteq OldTraces \cup SpareTraces
  BY DEF DeleteTraces
<1>3. /\ UNCHANGED <<tracerVars, today, route_candidates, route_changes, recent>>
      /\ trace_runs' \subseteq trace_runs
  BY <1>2 DEF DeleteTraces
<1>4. \A r \in trace_runs : r.id \in Referenced => r \in trace_runs'
  BY <1>1, <1>2
<1>5. TracerInv' /\ TablesTyped' /\ RowsInv'
  BY <1>3 DEF IInv, TracerInv, EngineInv, TablesTyped, RowsInv, RowInv, tracerVars, engine,
              Posted
<1>6. ASSUME NEW t \in Candidates',
             NEW i \in {route_candidates'[t].current, route_candidates'[t].candidate.id} \ {0}
      PROVE  \E r \in trace_runs' : r.id = i /\ r.target = t
  <2>1. t \in Candidates /\ i \in Referenced
    BY <1>3, <1>6 DEF Candidates, Referenced
  <2>2. \E r \in trace_runs : r.id = i /\ r.target = t
    BY <1>3, <1>6, <2>1 DEF IInv, ReferencedTracesAreKept
  <2> QED BY <1>4, <2>1, <2>2
<1>7. ASSUME NEW c \in route_changes'
      PROVE  /\ \A i \in {c.old, c.candidate, c.confirming} :
                  \E r \in trace_runs' : r.id = i /\ r.target = c.target
             /\ \E r \in trace_runs' : r.id = c.candidate /\ c.firstSeen = {r}
             /\ c.old < c.candidate /\ c.candidate < c.confirming
  <2>1. c \in route_changes /\ {c.old, c.candidate, c.confirming} \subseteq Referenced
    BY <1>3, <1>7 DEF Referenced
  <2> QED BY <1>4, <2>1 DEF IInv, ReferencedTracesAreKept
<1>8. ReferencedTracesAreKept'
  BY <1>6, <1>7 DEF ReferencedTracesAreKept
<1> QED BY <1>5, <1>8 DEF IInv

\* Deleting old route changes keeps the invariant.
LEMMA DeleteChangesKeepsInv ==
  ASSUME IInv, DeleteChanges
  PROVE  IInv'
<1>1. /\ UNCHANGED <<tracerVars, today, trace_runs, route_candidates, recent>>
      /\ route_changes' \subseteq route_changes
  BY DEF DeleteChanges
<1>2. TracerInv' /\ TablesTyped' /\ RowsInv'
  BY <1>1 DEF IInv, TracerInv, EngineInv, TablesTyped, RowsInv, tracerVars, engine, Posted
<1>3. ReferencedTracesAreKept'
  BY <1>1 DEF IInv, ReferencedTracesAreKept, Candidates
<1> QED BY <1>2, <1>3 DEF IInv

\* A day passes, or the tracer takes a step: the tables stay.
LEMMA OthersKeepInv ==
  ASSUME IInv, NextDay \/ (TracerNext /\ UNCHANGED <<today, storeVars>>) \/ UNCHANGED vars
  PROVE  IInv' /\ UNCHANGED storeVars
<1>1. UNCHANGED storeVars
  BY DEF NextDay, vars
<1>2. TracerInv'
  <2>1. CASE TracerNext
    BY <2>1, TracerNextInv DEF IInv
  <2>2. CASE NextDay \/ UNCHANGED vars
    BY <2>2 DEF NextDay, vars, IInv, TracerInv, EngineInv, tracerVars, engine, Posted
  <2> QED BY <2>1, <2>2
<1>3. today' \in 0 .. MaxDays
  BY RetentionAssumption DEF NextDay, vars, IInv, TablesTyped
<1>4. TablesTyped' /\ RowsInv' /\ ReferencedTracesAreKept'
  BY <1>1, <1>3 DEF IInv, TablesTyped, RowsInv, ReferencedTracesAreKept, Candidates, storeVars
<1> QED BY <1>1, <1>2, <1>4 DEF IInv

\* The empty tables satisfy the invariant.
LEMMA InitIInv == Init => IInv
<1> SUFFICES ASSUME Init PROVE IInv
  OBVIOUS
<1>1. TracerInv
  BY TracerInitInv DEF Init
<1>2. TablesTyped
  <2>1. 0 \in 0 .. MaxDays
    BY RetentionAssumption
  <2> QED BY <2>1 DEF Init, TablesTyped
<1>3. RowsInv
  BY DEF Init, RowsInv, RowInv
<1>4. ReferencedTracesAreKept
  BY DEF Init, ReferencedTracesAreKept, Candidates
<1> QED BY <1>1, <1>2, <1>3, <1>4 DEF IInv

\* Every step keeps the invariant.
LEMMA NextIInv ==
  ASSUME IInv, [Next]_vars
  PROVE  IInv'
BY StoreTraceKeepsInv, DeleteTracesKeepsInv, DeleteChangesKeepsInv, OthersKeepInv DEF Next

\* The invariant of the traces stored and the routes they make, of every step.
THEOREM Invariance == Spec => []IInv
BY InitIInv, NextIInv, PTL DEF Spec
-----------------------------------------------------------------------------
(* The theorems.                                                           *)

\* The types of the tracer's state and of the tables (events_extra.go, runner.go):
\* a trace under way waits for probes it has sent and no others, no id is in use
\* twice, and a candidate is counted once.
THEOREM TypeCorrect == Spec => []TypeOK
<1>1. IInv => TypeOK
  <2> SUFFICES ASSUME IInv PROVE TypeOK
    OBVIOUS
  <2>1. ASSUME NEW t \in Targets, route_candidates[t] # NoRow
        PROVE  /\ route_candidates[t].flow.endpoint \in Endpoints
               /\ route_candidates[t].consecutive \in 0 .. 1
               /\ (route_candidates[t].candidate = NoTrace)
                    = (route_candidates[t].consecutive = 0)
    <3>1. RowInv(route_candidates[t], recent[t]) /\ route_candidates[t] \in Rows
      BY <2>1 DEF IInv, RowsInv, RowInv
    <3>2. route_candidates[t].consecutive \in {0, 1} /\ route_candidates[t].flow \in Flows
      BY <3>1 DEF Rows
    <3> QED BY <2>1, <3>1, <3>2 DEF RowInv, Flows
  <2> QED BY <2>1, TracerTyped DEF IInv, TypeOK, TablesTyped, Ids
<1> QED BY <1>1, Invariance, PTL

\* Whatever answers are late, and for however many traces, hops and probes per
\* hop: what a trace records for a hop was said of a probe to that hop, and it
\* reaches its endpoint at the nearest (runner.go, raw.go).
THEOREM HopsTrue == Spec => []HopsAreTrue
<1>1. IInv => HopsAreTrue
  BY HopsFollow DEF IInv
<1> QED BY <1>1, Invariance, PTL

\* Retention never deletes a trace that a candidate or a change refers to, for
\* every retention and although ids are given again (retention.go).
THEOREM ReferencesKept == Spec => []ReferencedTracesAreKept
BY Invariance, PTL DEF IInv

\* A change is two equal completed traces in a row with the flow of the baseline
\* and another way (updateRouteCandidate, events_extra.go).
THEOREM ChangesConfirmed == Spec => ChangesAreConfirmed
<1>1. ASSUME IInv, [Next]_vars PROVE RecordsConfirmed
  <2>1. CASE StoreTrace
    <3> DEFINE r == Head(queue)
               t == r.target
               row == route_candidates[t]
               new == UpdateRouteCandidate(row, NextId, r)
               now == [id |-> NextId, flow |-> Flow(r), route |-> Route(r)]
    <3> SUFFICES ASSUME NEW c \in route_changes' \ route_changes
                 PROVE  /\ c.candidate = recent[c.target].id
                        /\ recent[c.target].flow = recent'[c.target].flow
                        /\ recent[c.target].route = recent'[c.target].route
                        /\ recent[c.target].flow = route_candidates[c.target].flow
                        /\ c.newRoute = recent'[c.target].route
                        /\ \/ c.oldRoute.reachedHop # c.newRoute.reachedHop
                           \/ MeaningfullyDifferent(c.oldRoute.signature, c.newRoute.signature)
                        /\ c.confirming = recent'[c.target].id
      BY DEF RecordsConfirmed
    <3>1. /\ r \in Results /\ t \in Targets /\ NextId \in Ids
          /\ row # NoRow => row.current < NextId
          /\ c \in new.changes /\ recent' = [recent EXCEPT ![t] = now]
      BY <1>1, <2>1, StoreFacts
    <3>2. RowInv(row, recent[t]) /\ DOMAIN recent = Targets
      BY <1>1, <3>1 DEF IInv, RowsInv, TablesTyped
    <3>3. /\ c = Change(row, NextId, r)
          /\ recent[t].flow = Flow(r) /\ recent[t].route = Route(r) /\ row.flow = Flow(r)
          /\ row.candidate.id = recent[t].id /\ ~SameRoute(row, Route(r))
      BY <3>1, <3>2, UpdateKeepsRowInv
    <3>4. /\ c.target = t /\ c.candidate = row.candidate.id /\ c.confirming = NextId
          /\ c.oldRoute = row.route /\ c.newRoute = Route(r)
      BY <3>3 DEF Change
    <3>5. recent'[t].flow = Flow(r) /\ recent'[t].route = Route(r) /\ recent'[t].id = NextId
      BY <3>1, <3>2
    <3> HIDE DEF r, t, row, new, now
    <3> QED BY <3>3, <3>4, <3>5 DEF SameRoute, row
  <2>2. CASE DeleteTraces \/ DeleteChanges
    BY <2>2 DEF RecordsConfirmed, DeleteTraces, DeleteChanges
  <2>3. CASE NextDay \/ (TracerNext /\ UNCHANGED <<today, storeVars>>) \/ UNCHANGED vars
    BY <1>1, <2>3, OthersKeepInv DEF RecordsConfirmed, storeVars
  <2> QED BY <1>1, <2>1, <2>2, <2>3 DEF Next
<1> QED BY <1>1, Invariance, PTL DEF Spec, ChangesAreConfirmed

\* Two completed traces in a row with one flow and one way always make that way
\* the baseline (updateRouteCandidate, events_extra.go).
THEOREM RepeatedIsBaseline == Spec => RepeatedRouteIsBaseline
<1>1. ASSUME IInv, [Next]_vars PROVE FollowsRepeated
  <2>1. CASE StoreTrace
    <3> DEFINE r == Head(queue)
               t == r.target
               row == route_candidates[t]
               new == UpdateRouteCandidate(row, NextId, r)
               now == [id |-> NextId, flow |-> Flow(r), route |-> Route(r)]
    <3> SUFFICES ASSUME NEW u \in Targets, recent[u] # recent'[u], recent[u] # NoTrace,
                        recent[u].flow = recent'[u].flow, recent[u].route = recent'[u].route
                 PROVE  SameRoute(route_candidates'[u], recent'[u].route)
      BY DEF FollowsRepeated, SameRoute
    <3>1. DOMAIN recent = Targets /\ DOMAIN route_candidates = Targets
      BY <1>1 DEF IInv, TablesTyped
    <3>2. /\ r \in Results /\ t \in Targets /\ NextId \in Ids
          /\ row # NoRow => row.current < NextId
          /\ u = t /\ recent' = [recent EXCEPT ![t] = now]
          /\ route_candidates' = [route_candidates EXCEPT ![t] = new.row]
      BY <1>1, <2>1, <3>1, StoreFacts
    <3>3. /\ route_candidates'[u] = new.row
          /\ recent'[u].flow = Flow(r) /\ recent'[u].route = Route(r)
      BY <3>1, <3>2
    <3>4. RowInv(row, recent[u])
      BY <1>1, <3>2 DEF IInv, RowsInv
    <3>5. SameRoute(new.row, Route(r))
      BY <3>2, <3>3, <3>4, UpdateKeepsRowInv
    <3> QED BY <3>3, <3>5
  <2>2. CASE DeleteTraces \/ DeleteChanges
    BY <2>2 DEF FollowsRepeated, DeleteTraces, DeleteChanges
  <2>3. CASE NextDay \/ (TracerNext /\ UNCHANGED <<today, storeVars>>) \/ UNCHANGED vars
    BY <1>1, <2>3, OthersKeepInv DEF FollowsRepeated, storeVars
  <2> QED BY <1>1, <2>1, <2>2, <2>3 DEF Next
<1> QED BY <1>1, Invariance, PTL DEF Spec, RepeatedRouteIsBaseline
=============================================================================
