-------------------------- MODULE MCTripMembership --------------------------
(* Instances of TripMembership for TLC: the cfg files give the constants.   *)
EXTENDS TripMembership, TLC

\* Accounts and request slots are interchangeable.
Symmetry == Permutations(User) \cup Permutations(Req)
=============================================================================
