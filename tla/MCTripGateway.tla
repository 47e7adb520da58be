---------------------------- MODULE MCTripGateway ----------------------------
(* Instances of TripGateway for TLC: the cfg files give the constants.      *)
EXTENDS TripGateway, TLC

\* Accounts, sockets and pods are interchangeable.
Symmetry == Permutations(User) \cup Permutations(Conn) \cup Permutations(Pod)
=============================================================================
