---------------------------- MODULE MCGitopsBump ----------------------------
(* Symmetry for the runs of GitopsBump. *)
EXTENDS GitopsBump, TLC

BumpSymmetry == Permutations(Builds) \cup Permutations(Services \ Malformed)
=============================================================================
