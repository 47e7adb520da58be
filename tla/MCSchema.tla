------------------------------ MODULE MCSchema ------------------------------
(* Instances of Schema for TLC: members get a plain or a new role, and     *)
(* messages are stored, while alembic goes up and down.                    *)
EXTENDS Schema

Symmetry == Permutations(Run)
MCWritten == {w \in HandlerWords :
  \/ w.on = "trip_members" /\ w.value \in {"member", "driver"}
  \/ w.on = "messages" /\ w.value = "arrival"}
=============================================================================
