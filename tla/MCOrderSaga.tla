----------------------------- MODULE MCOrderSaga -----------------------------
(* Values for the constants of OrderSaga that a cfg cannot write. *)
EXTENDS OrderSaga, TLC

CONSTANTS p1, p2

MCProducts == {p1, p2}
MCSeededProducts == {p1, p2}

\* Two units of p1 and one of p2: two orders of a unit of each cannot both be
\* served, and fail on their second item.
MCSeedQuantity == (p1 :> 2) @@ (p2 :> 1)

One(p) == [product |-> p, quantity |-> 1]
MCBaskets == {<<One(p1), One(p2)>>, <<One(p1)>>, <<One(p1), One(p1)>>}
MCTwoItems == {<<One(p1), One(p2)>>}
MCOneItem == {<<One(p1)>>}

OrderSymmetry == Permutations(Orders) \cup Permutations(Calls)
=============================================================================
