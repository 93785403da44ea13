----------------------------- MODULE MCInventory -----------------------------
(* Values for the constants of Inventory that a cfg cannot write. *)
EXTENDS Inventory, TLC

CONSTANTS p1, p2

\* One product whose row is still to be created: creating it is one of the
\* operations, and everything after it happens to a product with a row.
MCOneProduct == {p2}

\* A seeded product next to it.
MCProducts == {p1, p2}
MCSeededProducts == {p1}

MCSeedQuantity == [p \in Products |-> 2]
MCDeltas == {-1, 2}

SessionSymmetry == Permutations(Sessions)
=============================================================================
