------------------------------ MODULE MCSession ------------------------------
(* Two people at one browser. *)
EXTENDS Session, TLC

Symmetry == Permutations(Users) \cup Permutations(Calls)
=============================================================================
