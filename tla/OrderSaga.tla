------------------------------ MODULE OrderSaga ------------------------------
(***************************************************************************)
(* The order service, services/order/app/main.py: POST /orders reserves    *)
(* the stock of a basket item by item with HTTP calls to the inventory     *)
(* service and undoes what it reserved when one is refused; PUT            *)
(* /orders/{id}/status commits or releases that stock; DELETE /orders/{id} *)
(* cancels.  The handlers run in several processes, so they interleave at  *)
(* every call and between every SELECT and its commit.  A call may be      *)
(* lost, or its answer may be, and a worker may die: each costs a fault.   *)
(* Every call is one atomic operation of InventoryLedger.                  *)
(***************************************************************************)
EXTENDS Integers, Sequences, FiniteSetsExt

CONSTANTS
    Products, SeededProducts, SeedQuantity, Amounts, Deltas,  \* see InventoryLedger
    Orders,       \* POST /orders requests, each the id of the order it inserts
    Baskets,      \* the item lists a POST may carry
    Calls,        \* PUT and DELETE requests, each made at most once
    PutStatuses,  \* the statuses a PUT may carry
    MaxFaults     \* bound: lost calls, lost answers, DB errors and dead workers

Statuses == {"pending", "confirmed", "cancelled", "shipped", "delivered", "processing"}

Items == [product : Products, quantity : Amounts]

ASSUME OrderAssumption ==
    /\ SeededProducts \subseteq Products
    /\ SeedQuantity \in [Products -> Nat]
    /\ Amounts \subseteq Nat \ {0}
    /\ IsFiniteSet(Orders)
    /\ Baskets \subseteq Seq(Items) \ {<<>>}
    /\ PutStatuses \subseteq Statuses
    /\ MaxFaults \in Nat

VARIABLES
    listed, quantity, reserved, movements,  \* the inventory service
    create,     \* the POST /orders handlers
    status,     \* column status of each order, "none" before it is inserted
    call,       \* the PUT and DELETE handlers
    shipments,  \* orders the shipping service has a shipment of
    faults      \* how many faults have happened

ledgerVars == <<listed, quantity, reserved, movements>>
orderVars == <<create, status, call, shipments, faults>>
vars == <<listed, quantity, reserved, movements, create, status, call, shipments, faults>>

Ledger == INSTANCE InventoryLedger

-----------------------------------------------------------------------------
(* States.                                                                 *)

\* POST /orders: i is the item at hand, kept the length of the list `reserved`.
\* "refused" answers 4xx, "failed" is a 500 or a dead worker, "done" answers 201.
CreateActive == {"validate", "reserve", "rollback", "insert", "clear"}
NoCreate == [pc |-> "none", items |-> <<>>, i |-> 0, kept |-> 0]

\* PUT and DELETE: prev is the status that was read, i the item at hand.
CallActive == {"write", "commit", "ship", "release", "notify"}
NoCall == [pc |-> "none"]

TypeOK ==
    /\ create \in [Orders -> {NoCreate} \cup
          [pc : CreateActive \cup {"refused", "failed", "done"}, items : Baskets, i : Nat, kept : Nat]]
    /\ status \in [Orders -> {"none"} \cup Statuses]
    /\ call \in [Calls -> {NoCall} \cup
          [pc : CallActive \cup {"refused", "failed", "done"}, method : {"PUT", "DELETE"},
           order : Orders, status : Statuses, prev : Statuses, i : Nat]]
    /\ shipments \subseteq Orders
    /\ faults \in 0 .. MaxFaults

Init ==
    /\ Ledger!Init
    /\ create = [o \in Orders |-> NoCreate]
    /\ status = [o \in Orders |-> "none"]
    /\ call = [c \in Calls |-> NoCall]
    /\ shipments = {}
    /\ faults = 0

Fault == faults < MaxFaults /\ faults' = faults + 1

\* A request that reaches the inventory service, accepted or refused.
Reserve(it) == Ledger!CanReserve(it.product, it.quantity) /\ Ledger!Reserve(it.product, it.quantity)

TryRelease(it) ==
    IF Ledger!CanRelease(it.product, it.quantity)
    THEN Ledger!Release(it.product, it.quantity)
    ELSE UNCHANGED ledgerVars

TryCommit(it) ==
    IF Ledger!CanCommit(it.product, it.quantity)
    THEN Ledger!Commit(it.product, it.quantity)
    ELSE UNCHANGED ledgerVars

-----------------------------------------------------------------------------
(* POST /orders.                                                           *)

Item(o) == create[o].items[create[o].i]

\* Handler o goes on with the next item, or with pc after the last one.
NextItem(o, last, pc) ==
    LET h == create[o]
    IN  create' = [create EXCEPT ![o] =
            IF h.i < last THEN [h EXCEPT !.i = h.i + 1] ELSE [h EXCEPT !.i = 1, !.pc = pc]]

Post(o, items) ==
    /\ create[o].pc = "none"
    /\ create' = [create EXCEPT ![o] = [pc |-> "validate", items |-> items, i |-> 1, kept |-> 0]]
    /\ UNCHANGED <<ledgerVars, status, call, shipments, faults>>

\* validate_and_enrich_items: the product may be unknown, its service down, or
\* the stock too low at this moment.  An inventory service that does not know
\* the product or cannot be reached lets the item pass.
validate_and_enrich_items(o) ==
    /\ create[o].pc = "validate"
    /\ \/ create' = [create EXCEPT ![o].pc = "refused"] /\ UNCHANGED faults
       \/ /\ NextItem(o, Len(create[o].items), "reserve")
          /\ \/ /\ Item(o).product \in listed =>
                       quantity[Item(o).product] - reserved[Item(o).product] >= Item(o).quantity
                /\ UNCHANGED faults
             \/ Fault
    /\ UNCHANGED <<ledgerVars, status, call, shipments>>

ReserveItem(o) ==
    /\ create[o].pc = "reserve"
    /\ Reserve(Item(o))
    /\ NextItem(o, Len(create[o].items), "insert")
    /\ UNCHANGED <<status, call, shipments, faults>>

\* The inventory service answers, but not with 200: the stock is too low, or
\* the request fails there, before its commit or after it.
Refused(it) ==
    \/ ~Ledger!CanReserve(it.product, it.quantity) /\ UNCHANGED <<ledgerVars, faults>>
    \/ UNCHANGED ledgerVars /\ Fault
    \/ Reserve(it) /\ Fault

\* Fault: the handler gives up without its rollback.
RefusedWithoutRollback(o) ==
    /\ create[o].pc = "reserve"
    /\ Refused(Item(o))
    /\ create' = [create EXCEPT ![o].pc = "refused"]
    /\ UNCHANGED <<status, call, shipments>>

\* What was reserved before the refused item is to be released.
ReserveRefused(o) ==
    /\ create[o].pc = "reserve"
    /\ Refused(Item(o))
    /\ create' = [create EXCEPT ![o].pc = IF create[o].i = 1 THEN "refused" ELSE "rollback",
                                ![o].kept = create[o].i - 1,
                                ![o].i = 1]
    /\ UNCHANGED <<status, call, shipments>>

\* The stock is reserved and the answer is lost: an httpx exception is not an
\* HTTPException, so the handler ends without its rollback.
ReserveAnswerLost(o) ==
    /\ create[o].pc = "reserve"
    /\ Reserve(Item(o))
    /\ create' = [create EXCEPT ![o].pc = "failed"]
    /\ Fault
    /\ UNCHANGED <<status, call, shipments>>

\* One release of the rollback; its answer, or its failure, is ignored.
RollbackItem(o) ==
    /\ create[o].pc = "rollback"
    /\ \/ TryRelease(Item(o)) /\ UNCHANGED faults
       \/ UNCHANGED ledgerVars /\ Fault
    /\ NextItem(o, create[o].kept, "refused")
    /\ UNCHANGED <<status, call, shipments>>

InsertOrder(o) ==
    /\ create[o].pc = "insert"
    /\ status' = [status EXCEPT ![o] = "pending"]
    /\ create' = [create EXCEPT ![o].pc = "clear"]
    /\ UNCHANGED <<ledgerVars, call, shipments, faults>>

\* DELETE /cart/{user}, best effort, and the answer 201.
ClearCart(o) ==
    /\ create[o].pc = "clear"
    /\ create' = [create EXCEPT ![o].pc = "done"]
    /\ UNCHANGED <<ledgerVars, status, call, shipments, faults>>

\* A reserve request that is lost, a database error or a dead worker ends the
\* handler where it is; nothing is undone.
FailCreate(o) ==
    /\ create[o].pc \in CreateActive
    /\ create' = [create EXCEPT ![o].pc = "failed"]
    /\ Fault
    /\ UNCHANGED <<ledgerVars, status, call, shipments>>

-----------------------------------------------------------------------------
(* PUT /orders/{id}/status and DELETE /orders/{id}.                        *)

CallItem(c) == create[call[c].order].items[call[c].i]

\* Fault: the loop does not advance past an item that is not the last.
NextCallItemStuck(c, pc) ==
    LET q == call[c]
    IN  call' = [call EXCEPT ![c] =
            IF q.i < Len(create[q.order].items) THEN q ELSE [q EXCEPT !.pc = pc]]

NextCallItem(c, pc) ==
    LET q == call[c]
    IN  call' = [call EXCEPT ![c] =
            IF q.i < Len(create[q.order].items) THEN [q EXCEPT !.i = q.i + 1] ELSE [q EXCEPT !.pc = pc]]

\* The SELECT of update_status; there is no check of the transition.
PutRead(c, o, st) ==
    /\ call[c].pc = "none"
    /\ status[o] # "none"
    /\ call' = [call EXCEPT ![c] = [pc |-> "write", method |-> "PUT", order |-> o,
                                    status |-> st, prev |-> status[o], i |-> 1]]
    /\ UNCHANGED <<ledgerVars, create, status, shipments, faults>>

\* Fault: a cancelled PUT releases whatever status it has read.
PutWriteReleasesAlways(c) ==
    LET req == call[c]
    IN  /\ req.pc = "write"
        /\ req.method = "PUT"
        /\ status' = [status EXCEPT ![req.order] = IF req.status = req.prev THEN @ ELSE req.status]
        /\ call' = [call EXCEPT ![c].pc =
               CASE req.status = "confirmed" -> "commit"
                 [] req.status = "cancelled" -> "release"
                 [] OTHER -> "notify"]
        /\ UNCHANGED <<ledgerVars, create, shipments, faults>>

\* The commit writes the column if it differs from what was read; what follows
\* depends on the status asked for and on the one that was read.
PutWrite(c) ==
    LET req == call[c]
    IN  /\ req.pc = "write"
        /\ req.method = "PUT"
        /\ status' = [status EXCEPT ![req.order] = IF req.status = req.prev THEN @ ELSE req.status]
        /\ call' = [call EXCEPT ![c].pc =
               CASE req.status = "confirmed" -> "commit"
                 [] req.status = "cancelled" /\ req.prev = "pending" -> "release"
                 [] OTHER -> "notify"]
        /\ UNCHANGED <<ledgerVars, create, shipments, faults>>

\* POST /inventory/commit for one item; its answer, or its failure, is ignored.
CommitItem(c) ==
    /\ call[c].pc = "commit"
    /\ \/ TryCommit(CallItem(c)) /\ UNCHANGED faults
       \/ UNCHANGED ledgerVars /\ Fault
    /\ NextCallItem(c, "ship")
    /\ UNCHANGED <<create, status, shipments>>

\* POST /shipments: the shipping service keeps one shipment per order.
CreateShipment(c) ==
    /\ call[c].pc = "ship"
    /\ \/ shipments' = shipments \cup {call[c].order} /\ UNCHANGED faults
       \/ UNCHANGED shipments /\ Fault
    /\ call' = [call EXCEPT ![c].pc = "notify"]
    /\ UNCHANGED <<ledgerVars, create, status>>

\* POST /inventory/release for one item of a cancelled order.
ReleaseItem(c) ==
    /\ call[c].pc = "release"
    /\ \/ TryRelease(CallItem(c)) /\ UNCHANGED faults
       \/ UNCHANGED ledgerVars /\ Fault
    /\ NextCallItem(c, "notify")
    /\ UNCHANGED <<create, status, shipments>>

\* The notification, best effort, and the answer.
Notify(c) ==
    /\ call[c].pc = "notify"
    /\ call' = [call EXCEPT ![c].pc = "done"]
    /\ UNCHANGED <<ledgerVars, create, status, shipments, faults>>

\* The SELECT of cancel_order and its check.
DeleteRead(c, o) ==
    /\ call[c].pc = "none"
    /\ status[o] # "none"
    /\ call' = [call EXCEPT ![c] =
           [pc |-> IF status[o] \in {"shipped", "delivered"} THEN "refused" ELSE "write",
            method |-> "DELETE", order |-> o, status |-> "cancelled", prev |-> status[o], i |-> 1]]
    /\ UNCHANGED <<ledgerVars, create, status, shipments, faults>>

\* Fault: cancel_order writes a status the service does not know.
DeleteWritesDeleted(c) ==
    LET req == call[c]
    IN  /\ req.pc = "write"
        /\ req.method = "DELETE"
        /\ status' = [status EXCEPT ![req.order] = "deleted"]
        /\ call' = [call EXCEPT ![c].pc = "done"]
        /\ UNCHANGED <<ledgerVars, create, shipments, faults>>

\* The commit of cancel_order.  No stock is released.
DeleteWrite(c) ==
    LET req == call[c]
    IN  /\ req.pc = "write"
        /\ req.method = "DELETE"
        /\ status' = [status EXCEPT ![req.order] = IF req.prev = "cancelled" THEN @ ELSE "cancelled"]
        /\ call' = [call EXCEPT ![c].pc = "done"]
        /\ UNCHANGED <<ledgerVars, create, shipments, faults>>

\* A database error or a dead worker ends the handler where it is.
FailCall(c) ==
    /\ call[c].pc \in CallActive
    /\ call' = [call EXCEPT ![c].pc = "failed"]
    /\ Fault
    /\ UNCHANGED <<ledgerVars, create, status, shipments>>

-----------------------------------------------------------------------------
create_order(o) ==
    \/ validate_and_enrich_items(o)
    \/ ReserveItem(o)
    \/ ReserveRefused(o)
    \/ RollbackItem(o)
    \/ InsertOrder(o)
    \/ ClearCart(o)

update_status(c) == PutWrite(c) \/ CommitItem(c) \/ CreateShipment(c) \/ ReleaseItem(c) \/ Notify(c)

cancel_order(c) == DeleteWrite(c)

Next ==
    \/ \E o \in Orders :
          \/ \E items \in Baskets : Post(o, items)
          \/ create_order(o)
          \/ ReserveAnswerLost(o)
          \/ FailCreate(o)
    \/ \E c \in Calls :
          \/ \E o \in Orders, st \in PutStatuses : PutRead(c, o, st)
          \/ \E o \in Orders : DeleteRead(c, o)
          \/ update_status(c)
          \/ cancel_order(c)
          \/ FailCall(c)

Spec == Init /\ [][Next]_vars

\* Every HTTP call has a timeout (main.py:53, 94, 123, 159, 166, 172, 178) and
\* the event loop and the thread pool run every handler that can go on.
Fairness ==
    /\ \A o \in Orders : WF_vars(create_order(o))
    /\ \A c \in Calls : WF_vars(update_status(c) \/ cancel_order(c))

FairSpec == Spec /\ Fairness

-----------------------------------------------------------------------------
(* Whose stock is reserved.                                                *)

\* Quantity of p among the items of order o with an index in I.
Quantity(o, I, p) ==
    LET items == create[o].items
    IN  SumFunctionOnSet([i \in DOMAIN items |-> items[i].quantity], {i \in I : items[i].product = p})

AllItems(o) == 1 .. Len(create[o].items)

Put(c, st) == call[c] # NoCall /\ call[c].method = "PUT" /\ call[c].status = st

\* Calls that take an order's stock out of reserved: a PUT of confirmed, and a
\* PUT of cancelled that has read the order as pending.
Confirms(c, o) == Put(c, "confirmed") /\ call[c].order = o
Releases(c, o) == Put(c, "cancelled") /\ call[c].order = o /\ call[c].prev = "pending"

\* The items such a call has dealt with so far.
Handled(c) ==
    CASE call[c].pc = "write" -> {}
      [] call[c].pc \in {"commit", "release"} -> 1 .. call[c].i - 1
      [] OTHER -> AllItems(call[c].order)

\* What order o still has reserved of p: while its POST runs, the items reserved
\* and not yet released again; once it is inserted, all but the items confirmed
\* or released.
Held(o, p) ==
    LET h == create[o]
        gone == UNION {Handled(c) : c \in {d \in Calls : Confirms(d, o) \/ Releases(d, o)}}
    IN  CASE status[o] # "none" -> Quantity(o, AllItems(o) \ gone, p)
          [] status[o] = "none" /\ h.pc = "reserve" -> Quantity(o, 1 .. h.i - 1, p)
          [] status[o] = "none" /\ h.pc = "rollback" -> Quantity(o, h.i .. h.kept, p)
          [] status[o] = "none" /\ h.pc = "insert" -> Quantity(o, AllItems(o), p)
          [] OTHER -> 0

Sold(o, p) ==
    Quantity(o, UNION {Handled(c) : c \in {d \in Calls : Confirms(d, o)}}, p)

TotalHeld(p) == SumFunction([o \in Orders |-> Held(o, p)])
TotalSold(p) == SumFunction([o \in Orders |-> Sold(o, p)])

\* The callers settle each order once: nobody confirms it twice, cancels it
\* twice while pending, or does both.
SettledOnce ==
    \A o \in Orders : \A c, d \in Calls :
        (Confirms(c, o) \/ Releases(c, o)) /\ (Confirms(d, o) \/ Releases(d, o)) => c = d

-----------------------------------------------------------------------------
(* Properties.                                                             *)

\* Whatever is lost and whoever dies, an order whose POST has reserved stock has
\* that stock until its own PUT takes it: what all orders hold is reserved.  A
\* fault may leave too much reserved, never too little (main.py:96-107, 157-175).
HeldStockIsReserved ==
    SettledOnce => \A p \in Products : TotalHeld(p) <= reserved[p]

\* Without a fault the books balance at every step of every interleaving: what
\* is reserved is what orders hold, a refused POST /orders gives back all it
\* took, and what has left the stock is what was confirmed.  An order cancelled
\* by DELETE still holds its stock.
StockExplained ==
    SettledOnce /\ faults = 0 =>
        \A p \in Products :
            /\ reserved[p] = TotalHeld(p)
            /\ quantity[p] = (IF p \in SeededProducts THEN SeedQuantity[p] ELSE 0) - TotalSold(p)

\* Every handler comes to an end: the reserve loop, the rollback loop and the
\* loops of update_status get through their items whatever the answers are.
HandlersFinish ==
    /\ \A o \in Orders : create[o].pc \in CreateActive ~> create[o].pc \in {"refused", "failed", "done"}
    /\ \A c \in Calls : call[c].pc \in CallActive ~> call[c].pc \in {"failed", "done"}

\* "reserved for pending orders" (inventory models.py:11): every pending order
\* has its items reserved.  Not so when two PUTs confirm another order: the
\* second commit takes the pending order's reservation.
PendingOrdersAreReserved ==
    \A p \in Products :
        reserved[p] >= SumFunctionOnSet([o \in Orders |-> Quantity(o, AllItems(o), p)],
                                        {o \in Orders : status[o] = "pending" /\
                                             \A c \in Calls : ~Confirms(c, o) /\ ~Releases(c, o)})

\* "Reserved stock is not leaked - order rolls back reservation on failure"
\* (troubleshooting.md:80): a POST /orders that has ended without an order leaves
\* nothing reserved.  Not so when a reserve takes effect and its answer is lost or
\* is an error: the rollback covers answered items only, or is not reached.
FailedOrdersHoldNothing ==
    (\A o \in Orders : create[o].pc \notin CreateActive /\ status[o] = "none") =>
        \A p \in Products : reserved[p] = 0
=============================================================================
