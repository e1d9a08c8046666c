----------------------------- MODULE MCRoutes -----------------------------
(* The first hop is one of two routers that take turns, of which one       *)
(* refuses what it hears, or the endpoint; the second is the endpoint.     *)
EXTENDS Routes, TLC
CONSTANTS a, b
MCHears == [ttl \in 1 .. MaxHops |-> IF ttl = 1 THEN {a, b} ELSE {}]
Symmetry == Permutations(Targets) \cup Permutations(Endpoints)
===========================================================================
