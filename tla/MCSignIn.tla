------------------------------ MODULE MCSignIn ------------------------------
(* The slots are interchangeable.                                          *)
EXTENDS SignIn, TLC

SlotSymmetry == Permutations(Slot)
=============================================================================
