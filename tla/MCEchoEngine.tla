---------------------------- MODULE MCEchoEngine -----------------------------
(* Instances of EchoEngine for TLC: up to two IPv4 addresses and an IPv6.  *)
EXTENDS EchoEngine
CONSTANTS a4, b4, a6
FamilyOf == [e \in Endpoints |-> IF e = a6 THEN "v6" ELSE "v4"]
\* The engine treats the families alike: a run on one address of each may start
\* with the IPv4 one.
FromV4 == Init /\ current = a4
=============================================================================
