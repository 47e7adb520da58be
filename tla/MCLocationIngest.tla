-------------------------- MODULE MCLocationIngest --------------------------
(* Instances of LocationIngest for TLC: a road through two waypoints.       *)
EXTENDS LocationIngest, TLC

CONSTANTS Dhaba, Fuel

\* "road" is far from both waypoints, "dhaba" and "fuel" are at one of them.
Places == {"road", "dhaba", "fuel"}

Metres(p, w) ==
  IF p = "road" THEN 500
  ELSE IF (p = "dhaba") = (w = Dhaba) THEN 0 ELSE 230

Distances == [p \in Places |-> [w \in {Dhaba, Fuel} |-> Metres(p, w)]]
Radii == [w \in {Dhaba, Fuel} |-> IF w = Dhaba THEN 150 ELSE 50]

OwnName == {<<w, w>> : w \in {Dhaba, Fuel}}
\* The dhaba's name is part of the fuel station's.
SharedName == OwnName \cup {<<Dhaba, Fuel>>}

Fix(p, speed, battery) == [place |-> p, speed |-> speed, battery |-> battery]
Arrivals == {Fix(p, "slow", "ok") : p \in Places} \cup {Fix(NoPlace, "none", "none")}
\* A fast fix at the fuel station, and a stop on the road with a low battery.
Stops == {Fix("fuel", "fast", "ok"), Fix("road", "none", "low")}
StopsAndBlank == Stops \cup {Fix(NoPlace, "none", "none")}

Symmetry == Permutations(Sock)
=============================================================================
