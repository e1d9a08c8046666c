---------------------------- MODULE Traceroute ----------------------------
(***************************************************************************)
(* Traceroutes of one address family: the engine (internal/trace/          *)
(* engine.go) with a routine per target, the runner (runner.go) that sends *)
(* probes hop by hop and matches the ICMP answers a raw socket receives    *)
(* (raw.go), and the network, which answers late, out of order or never.   *)
(*                                                                         *)
(* The socket is not emptied between traces and what it receives is read   *)
(* whenever somebody reads: an answer that has arrived and one that is on  *)
(* its way are the same, and are told from each other by nothing but the   *)
(* ports and the checksum they quote.  The source port stands for the      *)
(* target (no two targets hash to the same one), the token for a probe's   *)
(* destination port or checksum.  Paris probes carry the token in the      *)
(* checksum, classic ones in the port, and neither is ever taken for the   *)
(* other: the port of a Paris probe has no token in it, and the checksum   *)
(* of a classic one is taken not to be a token in use.                     *)
(***************************************************************************)
EXTENDS Integers, FiniteSets, Sequences, FiniteSetsExt

CONSTANTS Targets, Endpoints, Routers, \* model values
          Unresolved,                 \* the endpoint of an unresolved name
          Hears,                      \* of each TTL: the routers that may answer
          Reaches,                    \* the TTLs the endpoint may answer
          Closed,                     \* routers that refuse what they hear
          Sources,                    \* addresses the host sends from
          Method,                     \* the configured one
          MaxHops, PipelineHops, ProbesPerHop,
          MaxTraces, MaxChanges, MaxLate \* bounds: traces, DNS changes, late answers

ASSUME SizeAssumption ==
  /\ {MaxHops, PipelineHops, ProbesPerHop} \subseteq Nat \ {0}
  /\ {MaxTraces, MaxChanges, MaxLate} \subseteq Nat
  /\ Hears \in [1 .. MaxHops -> SUBSET Routers] /\ Reaches \subseteq 1 .. MaxHops
ASSUME NameAssumption ==
  /\ Unresolved \notin Targets \cup Endpoints \cup Routers /\ Endpoints \cap Routers = {}
  /\ Method \in {"auto", "paris-udp", "classic-udp"}

VARIABLES current,   \* the engine's map: the endpoint of each target
          using,     \* the endpoint a routine waiting for its turn has read
          run,       \* the trace under way, or Idle
          flight,    \* probes the socket may yet receive an answer to
          queue,     \* results published and not yet stored
          traces,    \* how many traces were begun
          changes    \* how often DNS gave another endpoint

engine == <<current, using, traces, changes>>
tracerVars == <<engine, run, flight, queue>>

Idle == [target |-> Unresolved]
Waiting(t) == using[t] # Unresolved
NoReply == [from |-> Unresolved]
TTLs == 1 .. MaxHops
Packets == [target : Targets, endpoint : Endpoints, method : {"paris-udp", "classic-udp"},
            token : 1 .. MaxHops * ProbesPerHop, ttl : TTLs]
Hosts == Endpoints \cup Routers
Statuses == {"completed", "timed_out", "error"}

\* A trace under way has sent no probe beyond its hops and waits for answers to
\* probes it has sent, no others.
TracerTypeOK ==
  /\ current \in [Targets -> Endpoints \cup {Unresolved}]
  /\ using \in [Targets -> Endpoints \cup {Unresolved}]
  /\ traces \in 0 .. MaxTraces /\ changes \in 0 .. MaxChanges
  /\ flight \subseteq Packets
  /\ run # Idle =>
       /\ run.target \in Targets /\ run.endpoint \in Endpoints
       /\ run.method \in {"paris-udp", "classic-udp"} /\ run.source \in Sources
       /\ \A k \in DOMAIN run.probes : run.probes[k].ttl \in TTLs
       /\ run.outstanding \subseteq {k \in DOMAIN run.probes : run.probes[k].reply = NoReply}
       /\ run.reachedHop \in 0 .. MaxHops /\ run.reading \in BOOLEAN

TracerInit ==
  /\ current \in [Targets -> Endpoints \cup {Unresolved}]
  /\ using = [t \in Targets |-> Unresolved]
  /\ run = Idle /\ flight = {} /\ queue = <<>>
  /\ traces = 0 /\ changes = 0
-----------------------------------------------------------------------------
(* The engine.  A trace under way shares nothing with what the other       *)
(* routines and the resolver do during it, but the endpoint it has read:   *)
(* what they do then is like what they do before it.                       *)

Quiet == run = Idle /\ queue = <<>>

\* UpdateEndpoint, called by refreshDNS (internal/app/app.go) with the next
\* address of a name.
UpdateEndpoint(t, e) ==
  /\ Quiet /\ changes < MaxChanges /\ current[t] # e
  /\ current' = [current EXCEPT ![t] = e] /\ changes' = changes + 1
  /\ UNCHANGED <<using, traces, run, flight, queue>>

\* runTarget: the timer fires and the endpoint is read, before the routine waits
\* for the other targets' traces to end.
Wake(t) ==
  /\ Quiet /\ ~Waiting(t) /\ current[t] # Unresolved
  /\ traces < MaxTraces /\ traces' = traces + 1
  /\ using' = [using EXCEPT ![t] = current[t]]
  /\ UNCHANGED <<current, changes, run, flight, queue>>

\* traceOnce, up to the first probe.
Trace(t, e, method, source) ==
  [target |-> t, endpoint |-> e, method |-> method, source |-> source,
   next |-> 1, probes |-> <<>>, outstanding |-> {}, reachedHop |-> 0, reading |-> FALSE]
Begin(t) ==
  /\ Quiet /\ Waiting(t)
  /\ using' = [using EXCEPT ![t] = Unresolved]
  /\ \E source \in Sources :
       run' = Trace(t, using[t], IF Method = "auto" THEN "paris-udp" ELSE Method, source)
  /\ UNCHANGED <<current, traces, changes, flight, queue>>
-----------------------------------------------------------------------------
(* What a trace comes to.                                                  *)

HasReply(probes) == \E k \in DOMAIN probes : probes[k].reply # NoReply

\* routeSignature.
Answered(probes) == {k \in DOMAIN probes : probes[k].reply # NoReply}
Signature(probes) ==
  [ttl \in {probes[k].ttl : k \in Answered(probes)} |->
     {probes[k].reply.from : k \in {i \in Answered(probes) : probes[i].ttl = ttl}}]

Result(status, probes) ==
  [target |-> run.target, endpoint |-> run.endpoint, method |-> run.method,
   source |-> run.source, status |-> status, signature |-> Signature(probes),
   reachedHop |-> IF status = "completed" THEN run.reachedHop ELSE 0]

\* Trace: auto falls back to the classic method when Paris fails or hears nothing.
FallsBack(status, probes) ==
  /\ Method = "auto" /\ run.method = "paris-udp"
  /\ status = "error" \/ ~HasReply(probes)
\* traceOnce returns.  Of the answers still to come any few are late and not
\* lost.
End(status, probes, unanswered) ==
  /\ \E late \in SUBSET unanswered : Cardinality(late) <= MaxLate /\ flight' = late
  /\ IF FallsBack(status, probes)
       THEN /\ \E source \in Sources :
                 run' = Trace(run.target, run.endpoint, "classic-udp", source)
            /\ UNCHANGED queue
       ELSE /\ run' = Idle
            /\ queue' = Append(queue, Result(status, probes))
  /\ UNCHANGED engine
-----------------------------------------------------------------------------
(* The runner, traceOnce.                                                  *)

LastTTL == Min({run.next + PipelineHops - 1, MaxHops})
\* The probes of the next few hops, the first k of which are sent.
Batch(k) ==
  [i \in 1 .. k |-> [ttl |-> run.next + ((i - 1) \div ProbesPerHop), reply |-> NoReply]]
BatchSize == (LastTTL - run.next + 1) * ProbesPerHop
Packet(probes, k) ==
  [target |-> run.target, endpoint |-> run.endpoint, method |-> run.method,
   token |-> k, ttl |-> probes[k].ttl]
Sent(probes) == {Packet(probes, k) : k \in DOMAIN probes \ DOMAIN run.probes}
HasNext == run.next <= MaxHops /\ run.reachedHop = 0

\* All of them.
SendBatch ==
  /\ run # Idle /\ ~run.reading /\ HasNext
  /\ LET probes == run.probes \o Batch(BatchSize)
     IN  /\ run' = [run EXCEPT !.probes = probes, !.next = LastTTL + 1, !.reading = TRUE,
                               !.outstanding = DOMAIN probes \ DOMAIN run.probes]
         /\ flight' = flight \cup Sent(probes)
  /\ UNCHANGED <<engine, queue>>

\* The time is over after some.
SendTimesOut ==
  /\ run # Idle /\ ~run.reading /\ HasNext
  /\ \E k \in 0 .. BatchSize - 1 :
       LET probes == run.probes \o Batch(k)
       IN  End("timed_out", probes, flight \cup Sent(probes))

\* The socket fails: the result has no probes.
SendFails ==
  /\ run # Idle /\ ~run.reading /\ HasNext
  /\ \E k \in 0 .. BatchSize - 1 :
       End("error", <<>>, flight \cup Sent(run.probes \o Batch(k)))

\* What may answer a probe: a router on one of the ways (time exceeded, or
\* unreachable when it refuses the probe), or the endpoint.
Answers(p) ==
  {[from |-> h, reached |-> h \in Closed] : h \in Hears[p.ttl]}
    \cup (IF p.ttl \in Reaches THEN {[from |-> p.endpoint, reached |-> TRUE]} ELSE {})

\* The probe an answer is for: the target is in the source port it quotes, the
\* token in the destination port or in the checksum.  The destination it quotes
\* is not looked at.
Matches(p) ==
  p.target = run.target /\ p.method = run.method /\ p.token \in run.outstanding

\* response.reached and the lowest hop.
ReachedHop_Last(p, a, ttl) == \* fault: the last one that is heard of
  IF a.reached /\ a.from = run.endpoint THEN ttl ELSE run.reachedHop
ReachedHop(p, a, ttl) ==
  IF a.reached /\ a.from = run.endpoint /\ (run.reachedHop = 0 \/ ttl < run.reachedHop)
    THEN ttl ELSE run.reachedHop

\* An answer is read: it is recorded with the probe it matches, or skipped.
Read(p, a) ==
  /\ run # Idle /\ run.reading /\ run.outstanding # {}
  /\ flight' = flight \ {p}
  /\ IF Matches(p)
       THEN run' = [run EXCEPT
              !.probes[p.token].reply = [from |-> a.from, reached |-> a.reached, packet |-> p],
              !.outstanding = @ \ {p.token},
              !.reachedHop = ReachedHop(p, a, run.probes[p.token].ttl)]
       ELSE UNCHANGED run
  /\ UNCHANGED <<engine, queue>>

\* Every probe is answered, or the time for these hops is over.
EndBatch ==
  /\ run # Idle /\ run.reading
  /\ run' = [run EXCEPT !.reading = FALSE, !.outstanding = {}]
  /\ UNCHANGED <<engine, flight, queue>>

\* Reading fails.
ReadFails ==
  /\ run # Idle /\ run.reading /\ run.outstanding # {}
  /\ End("error", <<>>, flight)

Complete ==
  /\ run # Idle /\ ~run.reading /\ ~HasNext
  /\ End("completed", run.probes, flight)

TracerNext ==
  \/ \E t \in Targets : Wake(t) \/ Begin(t) \/ \E e \in Endpoints : UpdateEndpoint(t, e)
  \/ SendBatch \/ SendTimesOut \/ SendFails
  \/ \E p \in flight : \E a \in Answers(p) : Read(p, a)
  \/ EndBatch \/ ReadFails \/ Complete
-----------------------------------------------------------------------------
Replies == {k \in DOMAIN run.probes : run.probes[k].reply # NoReply}

\* What a trace records for a hop was said of a probe to that hop, of the same
\* target, however late: a token stands for the same hop in every trace
\* (runner.go:160), so that answers left over from an earlier one cannot make
\* up hops.
RepliesAreForTheHop ==
  run # Idle =>
    \A k \in Replies : LET p == run.probes[k].reply.packet
                       IN  p.ttl = run.probes[k].ttl /\ p.target = run.target

\* The hop a trace is said to have reached the endpoint at is the lowest of those
\* the endpoint answered from, whatever the order of the answers.
ReachedAtTheNearest ==
  run # Idle =>
    LET hops == {run.probes[k].ttl : k \in
                   {i \in Replies : /\ run.probes[i].reply.reached
                                    /\ run.probes[i].reply.from = run.endpoint}}
    IN  run.reachedHop = IF hops = {} THEN 0 ELSE Min(hops)

\* What a trace says of its hops was said of them, and in which order does not
\* matter.  (That it was said of a probe to the same endpoint is not sure: README.)
HopsAreTrue == RepliesAreForTheHop /\ ReachedAtTheNearest
=============================================================================
