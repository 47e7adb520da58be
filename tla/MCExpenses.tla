----------------------------- MODULE MCExpenses -----------------------------
(* Instances of Expenses for TLC.                                           *)
EXTENDS Expenses, TLC

CONSTANTS u1, u2, u3

Of(u, cents) == [user |-> u, cents |-> cents]

\* No shares; shares that add up to 5, those that do not, and a user twice.
Lists == {<<>>, <<Of(u1, 2), Of(u2, 3)>>, <<Of(u1, 2), Of(u2, 2)>>,
          <<Of(u3, 2), Of(u3, 3)>>}
=============================================================================
