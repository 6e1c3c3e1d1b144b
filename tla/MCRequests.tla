----------------------------- MODULE MCRequests -----------------------------
(* Requests for TLC: two hosts with peer connections, or one host with a      *)
(* client, keys and presets, but not both at once.                           *)
EXTENDS Requests, TLC

RequestsSymmetry == Permutations(Host) \cup Permutations(Address)

OneOrTheOther ==
    \/ Cardinality(issued \cap Host) <= 1
    \/ issued \cap (Client \cup Key \cup DnsServer) = {}

MCRequestsSpec == RequestsInit /\ [][RequestsNext /\ OneOrTheOther']_rvars
=============================================================================
