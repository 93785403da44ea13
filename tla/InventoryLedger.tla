--------------------------- MODULE InventoryLedger ---------------------------
(***************************************************************************)
(* What the inventory service promises to its callers, were every request  *)
(* one atomic step: two columns per product, quantity and reserved, moved  *)
(* by adjust, reserve, release and commit, and a movement log that         *)
(* explains both columns.  services/inventory/app/main.py:82-136 gives the *)
(* four operations; Inventory.tla is the same service with its sessions.   *)
(***************************************************************************)
EXTENDS Integers

CONSTANTS
    Products,        \* product ids
    SeededProducts,  \* the products the start-up seed has inserted
    SeedQuantity,    \* the quantity the seed gives to each of them
    Amounts,         \* quantities a reserve, release or commit may ask for
    Deltas           \* deltas an adjust may ask for

VARIABLES
    listed,     \* products with a row in the inventory table
    quantity,   \* column quantity, 0 where there is no row
    reserved,   \* column reserved, 0 where there is no row
    movements   \* for each product, the net delta logged by each operation

ledgerVars == <<listed, quantity, reserved, movements>>

Operations == {"adjust", "reserve", "release", "commit"}

Log(p, op, delta) == movements' = [movements EXCEPT ![p][op] = @ + delta]

Init ==
    /\ listed = SeededProducts
    /\ quantity = [p \in Products |-> IF p \in SeededProducts THEN SeedQuantity[p] ELSE 0]
    /\ reserved = [p \in Products |-> 0]
    /\ movements = [p \in Products |-> [op \in Operations |-> 0]]

\* Add d to the stock, creating the row if there is none.
Adjust(p, d) ==
    /\ quantity[p] + d >= reserved[p]
    /\ quantity[p] + d >= 0
    /\ listed' = listed \cup {p}
    /\ quantity' = [quantity EXCEPT ![p] = @ + d]
    /\ Log(p, "adjust", d)
    /\ UNCHANGED reserved

CanReserve(p, n) == p \in listed /\ quantity[p] - reserved[p] >= n

\* Set n of the available stock aside.
Reserve(p, n) ==
    /\ CanReserve(p, n)
    /\ reserved' = [reserved EXCEPT ![p] = @ + n]
    /\ Log(p, "reserve", -n)
    /\ UNCHANGED <<listed, quantity>>

CanRelease(p, n) == p \in listed /\ reserved[p] >= n

\* Give n reserved units back.
Release(p, n) ==
    /\ CanRelease(p, n)
    /\ reserved' = [reserved EXCEPT ![p] = @ - n]
    /\ Log(p, "release", n)
    /\ UNCHANGED <<listed, quantity>>

CanCommit(p, n) == p \in listed /\ reserved[p] >= n /\ quantity[p] >= n

\* Let n reserved units leave the stock.
Commit(p, n) ==
    /\ CanCommit(p, n)
    /\ reserved' = [reserved EXCEPT ![p] = @ - n]
    /\ quantity' = [quantity EXCEPT ![p] = @ - n]
    /\ Log(p, "commit", -n)
    /\ UNCHANGED listed

Next ==
    \E p \in Products :
        \/ \E d \in Deltas : Adjust(p, d)
        \/ \E n \in Amounts : Reserve(p, n) \/ Release(p, n) \/ Commit(p, n)

Spec == Init /\ [][Next]_ledgerVars
=============================================================================
