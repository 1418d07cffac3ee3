--------------------------- MODULE MCTrafficGuard ---------------------------
(***************************************************************************)
(* Model checking TrafficGuard: IPs and slots are interchangeable.         *)
(***************************************************************************)
EXTENDS TrafficGuard, TLC

Symmetry == Permutations(Ips) \cup Permutations(IpRequests) \cup Permutations(Requests)
=============================================================================
