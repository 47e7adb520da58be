----------------------------- MODULE MCLiveTrip -----------------------------
(* Instances of LiveTrip for TLC: the cfg files give the constants.         *)
EXTENDS LiveTrip, TLC

\* Trips and controller slots are interchangeable.
Symmetry == Permutations(Trip) \cup Permutations(Ctl)
=============================================================================
