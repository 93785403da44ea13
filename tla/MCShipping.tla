----------------------------- MODULE MCShipping -----------------------------
(* Symmetry for the requests of Shipping. *)
EXTENDS Shipping, TLC

ShippingSymmetry == Permutations(Creates) \cup Permutations(Updates)
=============================================================================
