------------------------------ MODULE MCPayment ------------------------------
(* Symmetry for the runs of Payment: a request is as good as any other. *)
EXTENDS Payment, TLC

HandlerSymmetry == Permutations(Handlers)
=============================================================================
