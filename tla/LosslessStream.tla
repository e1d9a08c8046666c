--------------------------- MODULE LosslessStream ---------------------------
(***************************************************************************)
(* What the event bus promises to the collectors and to the storage        *)
(* writer, with nothing of how it does it: a claim on capacity is granted  *)
(* only while claims and pending events together fit, a granted claim can  *)
(* always be turned into an event or given back, and the writer receives   *)
(* the accepted events in the order in which they were accepted, each      *)
(* exactly once.                                                           *)
(***************************************************************************)
EXTENDS Naturals, Sequences

CONSTANTS Events, Capacity

VARIABLES claims,    \* granted claims that carry no event yet
          pending,   \* accepted events the writer has not received
          delivered  \* the events the writer received, in order

vars == <<claims, pending, delivered>>

Init == /\ claims = 0
        /\ pending = <<>>
        /\ delivered = <<>>

Claim == /\ claims + Len(pending) < Capacity
         /\ claims' = claims + 1
         /\ UNCHANGED <<pending, delivered>>

GiveBack == /\ claims > 0
            /\ claims' = claims - 1
            /\ UNCHANGED <<pending, delivered>>

Accept(e) == /\ claims > 0
             /\ claims' = claims - 1
             /\ pending' = Append(pending, e)
             /\ UNCHANGED delivered

Deliver == /\ pending # <<>>
           /\ delivered' = Append(delivered, Head(pending))
           /\ pending' = Tail(pending)
           /\ UNCHANGED claims

\* Claim and Accept at once, for a producer that has its event at hand.
Publish(e) == /\ claims + Len(pending) < Capacity
              /\ pending' = Append(pending, e)
              /\ UNCHANGED <<claims, delivered>>

Next == Claim \/ GiveBack \/ Deliver \/ \E e \in Events : Accept(e) \/ Publish(e)

SafeSpec == Init /\ [][Next]_vars

\* The writer keeps receiving: no accepted event stays pending for ever.
Spec == SafeSpec /\ WF_vars(Deliver)
=============================================================================
