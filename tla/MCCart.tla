------------------------------- MODULE MCCart -------------------------------
(* Symmetry for the products and the requests of Cart. *)
EXTENDS Cart, TLC

CartSymmetry == Permutations(Requests) \cup Permutations(Products)
=============================================================================
