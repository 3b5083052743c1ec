-------------------------- MODULE MCEndpointHealth --------------------------
(* A small instance of EndpointHealth: two strikes before the cap, a       *)
(* Retry-After longer than the first cooldown, two requests in flight.     *)
EXTENDS EndpointHealth, TLC

MCCooldownTable == <<1, 2>>

(* Stored during a cooldown: ahead in the first instants, then over.       *)
MCSnapshots == {[cooling |-> TRUE, until |-> 3, strikes |-> 1]}

Symmetry == Permutations(Requests) \cup Permutations(Workers)
=============================================================================
