------------------------------ MODULE Shipping ------------------------------
(***************************************************************************)
(* The shipping service, services/shipping/app/main.py, and the order      *)
(* column it keeps up to date.  PUT /shipments/{id}/status reads the       *)
(* shipment, commits its status and its list of events as absolute values, *)
(* and then PUTs `shipped` or `delivered` to the order with a timeout of   *)
(* three seconds; the order service reads and commits in two steps of its  *)
(* own, and goes on when the caller has stopped waiting.  Meanwhile the    *)
(* customer may DELETE the order.  Calls may be lost and workers may die:  *)
(* each costs a fault.                                                     *)
(***************************************************************************)
EXTENDS Integers, Sequences, SequencesExt

CONSTANTS
    Orders,          \* orders that exist, all confirmed
    Creates,         \* POST /shipments; a shipment is named by the request that inserts it
    Updates,         \* PUT /shipments/{id}/status
    Cancels,         \* DELETE /orders/{id}
    UpdateStatuses,  \* statuses an update may carry: any transition is accepted
    MaxFaults        \* bound: lost calls, timeouts, database errors and dead workers

OrderStatuses == {"confirmed", "shipped", "delivered", "cancelled"}
Statuses == {"pending", "shipped", "out_for_delivery", "delivered", "returned", "cancelled"}

ASSUME ShippingAssumption ==
    /\ UpdateStatuses \subseteq Statuses
    /\ MaxFaults \in Nat

VARIABLES
    row,         \* the shipments table
    order,       \* column status of each order
    create,      \* the POST handlers
    update,      \* the PUT handlers, with the call to the order service
    cancel,      \* the DELETE handlers of the order service
    log,         \* history: the statuses committed to each shipment, in order
    stale,       \* history: shipments some commit has written from an old row
    overlapped,  \* history: shipments with an update begun before another one was over
    faults       \* how many faults have happened

vars == <<row, order, create, update, cancel, log, stale, overlapped, faults>>

NoRow == [status |-> "none"]
Shipments == {s \in Creates : row[s] # NoRow}
OfOrder(o) == {s \in Shipments : row[s].order = o}

NoRequest == [pc |-> "none"]

\* put is the request at the order service: "sent" on its way or waiting,
\* "read" between its SELECT, which saw putPrev, and its commit.
UpdateActive == {"write", "propagate", "await"}

TypeOK ==
    /\ row \in [Creates -> {NoRow} \cup [order : Orders, status : Statuses, events : Seq(Statuses)]]
    /\ order \in [Orders -> OrderStatuses]
    /\ create \in [Creates -> {NoRequest} \cup
          [pc : {"insert", "done", "refused", "failed"}, order : Orders]]
    /\ update \in [Updates -> {NoRequest} \cup
          [pc : UpdateActive \cup {"done", "failed"}, shipment : Creates, status : Statuses,
           prev : Statuses, events : Seq(Statuses), put : {"none", "sent", "read", "done"},
           putPrev : OrderStatuses]]
    /\ cancel \in [Cancels -> {NoRequest} \cup
          [pc : {"write", "done", "refused"}, order : Orders, prev : OrderStatuses]]
    /\ log \in [Creates -> Seq(Statuses)]
    /\ stale \subseteq Creates
    /\ overlapped \subseteq Creates
    /\ faults \in 0 .. MaxFaults

Init ==
    /\ row = [s \in Creates |-> NoRow]
    /\ order = [o \in Orders |-> "confirmed"]
    /\ create = [s \in Creates |-> NoRequest]
    /\ update = [u \in Updates |-> NoRequest]
    /\ cancel = [d \in Cancels |-> NoRequest]
    /\ log = [s \in Creates |-> <<>>]
    /\ stale = {}
    /\ overlapped = {}
    /\ faults = 0

Fault == faults < MaxFaults /\ faults' = faults + 1

-----------------------------------------------------------------------------
(* POST /shipments.                                                        *)

\* The SELECT of create_shipment.
CreateCheck(s, o) ==
    /\ create[s] = NoRequest
    /\ create' = [create EXCEPT ![s] =
           [pc |-> IF OfOrder(o) = {} THEN "insert" ELSE "refused", order |-> o]]
    /\ UNCHANGED <<row, order, update, cancel, log, stale, overlapped, faults>>

\* Fault: order_id has no unique index.
InsertWithoutIndex(s) ==
    /\ create[s].pc = "insert"
    /\ row' = [row EXCEPT ![s] =
           [order |-> create[s].order, status |-> "pending", events |-> <<"pending">>]]
    /\ log' = [log EXCEPT ![s] = <<"pending">>]
    /\ create' = [create EXCEPT ![s].pc = "done"]
    /\ UNCHANGED <<order, update, cancel, stale, overlapped, faults>>

\* The row and its first event; the notification after it, and the answer, may be lost.
CreateInsert(s) ==
    /\ create[s].pc = "insert"
    /\ OfOrder(create[s].order) = {}
    /\ row' = [row EXCEPT ![s] =
           [order |-> create[s].order, status |-> "pending", events |-> <<"pending">>]]
    /\ log' = [log EXCEPT ![s] = <<"pending">>]
    /\ \/ create' = [create EXCEPT ![s].pc = "done"] /\ UNCHANGED faults
       \/ create' = [create EXCEPT ![s].pc = "failed"] /\ Fault
    /\ UNCHANGED <<order, update, cancel, stale, overlapped>>

\* The unique index refuses the row, or the worker dies before its commit.
CreateFails(s) ==
    /\ create[s].pc = "insert"
    /\ \/ OfOrder(create[s].order) # {} /\ UNCHANGED faults
       \/ Fault
    /\ create' = [create EXCEPT ![s].pc = "failed"]
    /\ UNCHANGED <<row, order, update, cancel, log, stale, overlapped>>

-----------------------------------------------------------------------------
(* PUT /shipments/{id}/status.                                             *)

\* A request that still has something to write, here or at the order service.
Busy(u) == update[u].pc \in UpdateActive \/ (update[u] # NoRequest /\ update[u].put \in {"sent", "read"})

\* The SELECT of update_status.  An unusual transition is logged, not refused.
UpdateRead(u, s, st) ==
    /\ update[u] = NoRequest
    /\ s \in Shipments
    /\ update' = [update EXCEPT ![u] =
           [pc |-> "write", shipment |-> s, status |-> st, prev |-> row[s].status,
            events |-> row[s].events, put |-> "none", putPrev |-> "confirmed"]]
    /\ overlapped' = IF \E v \in Updates : Busy(v) /\ update[v].shipment = s
                     THEN overlapped \cup {s} ELSE overlapped
    /\ UNCHANGED <<row, order, create, cancel, log, stale, faults>>

\* The commit of an update: status if it differs from the one read, and events.
Commit(u, events, pc) ==
    LET req == update[u]
        s == req.shipment
    IN  /\ req.pc = "write"
        /\ row' = [row EXCEPT ![s].status = IF req.status = req.prev THEN @ ELSE req.status,
                              ![s].events = events]
        /\ log' = [log EXCEPT ![s] = Append(@, req.status)]
        /\ stale' = IF row[s].events = req.events /\ row[s].status = req.prev
                    THEN stale ELSE stale \cup {s}
        /\ update' = [update EXCEPT ![u].pc = pc]
        /\ UNCHANGED <<order, create, cancel, overlapped, faults>>

Propagated == {"shipped", "delivered"}
AfterCommit(u) == IF update[u].status \in Propagated THEN "propagate" ELSE "done"

\* Fault: the list is changed in place, which SQLAlchemy does not notice.
UpdateInPlace(u) == Commit(u, row[update[u].shipment].events, AfterCommit(u))

\* Fault: the event is put in front.
UpdatePrepends(u) == Commit(u, <<update[u].status>> \o update[u].events, AfterCommit(u))

\* Fault: every status is sent to the order.
UpdatePropagatesAll(u) == Commit(u, Append(update[u].events, update[u].status), "propagate")

UpdateWrite(u) == Commit(u, Append(update[u].events, update[u].status), AfterCommit(u))

\* Fault: the handler does not wait for the order service.
SendAndForget(u) ==
    /\ update[u].pc = "propagate"
    /\ update' = [update EXCEPT ![u].pc = "done", ![u].put = "sent"]
    /\ UNCHANGED <<row, order, create, cancel, log, stale, overlapped, faults>>

\* PUT /orders/{id}/status leaves, or is lost, which is logged.
SendPut(u) ==
    /\ update[u].pc = "propagate"
    /\ \/ update' = [update EXCEPT ![u].pc = "await", ![u].put = "sent"] /\ UNCHANGED faults
       \/ update' = [update EXCEPT ![u].pc = "done"] /\ Fault
    /\ UNCHANGED <<row, order, create, cancel, log, stale, overlapped>>

\* The answer, or the timeout: the order service may still be at work.
AwaitPut(u) ==
    /\ update[u].pc = "await"
    /\ \/ update[u].put = "done" /\ UNCHANGED faults
       \/ update[u].put # "done" /\ Fault
    /\ update' = [update EXCEPT ![u].pc = "done"]
    /\ UNCHANGED <<row, order, create, cancel, log, stale, overlapped>>

\* A database error or a dead worker ends the handler where it is.
FailUpdate(u) ==
    /\ update[u].pc \in UpdateActive
    /\ update' = [update EXCEPT ![u].pc = "failed"]
    /\ Fault
    /\ UNCHANGED <<row, order, create, cancel, log, stale, overlapped>>

-----------------------------------------------------------------------------
(* The order service.                                                      *)

\* The SELECT of its update_status.
PutRead(u) ==
    /\ update[u] # NoRequest
    /\ update[u].put = "sent"
    /\ update' = [update EXCEPT ![u].put = "read",
                                ![u].putPrev = order[row[update[u].shipment].order]]
    /\ UNCHANGED <<row, order, create, cancel, log, stale, overlapped, faults>>

\* Its commit writes the column if it differs from what was read.
PutWrite(u) ==
    /\ update[u] # NoRequest
    /\ update[u].put = "read"
    /\ order' = [order EXCEPT ![row[update[u].shipment].order] =
           IF update[u].status = update[u].putPrev THEN @ ELSE update[u].status]
    /\ update' = [update EXCEPT ![u].put = "done"]
    /\ UNCHANGED <<row, create, cancel, log, stale, overlapped, faults>>

\* cancel_order: the SELECT with its check, and the commit.
CancelRead(d, o) ==
    /\ cancel[d] = NoRequest
    /\ cancel' = [cancel EXCEPT ![d] =
           [pc |-> IF order[o] \in {"shipped", "delivered"} THEN "refused" ELSE "write",
            order |-> o, prev |-> order[o]]]
    /\ UNCHANGED <<row, order, create, update, log, stale, overlapped, faults>>

CancelWrite(d) ==
    /\ cancel[d].pc = "write"
    /\ order' = [order EXCEPT ![cancel[d].order] = IF cancel[d].prev = "cancelled" THEN @ ELSE "cancelled"]
    /\ cancel' = [cancel EXCEPT ![d].pc = "done"]
    /\ UNCHANGED <<row, create, update, log, stale, overlapped, faults>>

-----------------------------------------------------------------------------
Next ==
    \/ \E s \in Creates :
          \/ \E o \in Orders : CreateCheck(s, o)
          \/ CreateInsert(s)
          \/ CreateFails(s)
    \/ \E u \in Updates :
          \/ \E s \in Shipments, st \in UpdateStatuses : UpdateRead(u, s, st)
          \/ UpdateWrite(u)
          \/ SendPut(u)
          \/ AwaitPut(u)
          \/ FailUpdate(u)
          \/ PutRead(u)
          \/ PutWrite(u)
    \/ \E d \in Cancels :
          \/ \E o \in Orders : CancelRead(d, o)
          \/ CancelWrite(d)

Spec == Init /\ [][Next]_vars

-----------------------------------------------------------------------------
(* Properties.                                                             *)

\* However many confirmations of an order ask for it at once, the order gets one
\* shipment, and whoever was told 201 finds its own (main.py:55, models.py).
OneShipmentPerOrder ==
    /\ \A s, t \in Shipments : row[s].order = row[t].order => s = t
    /\ \A s \in Creates : create[s].pc = "done" => s \in OfOrder(create[s].order)

\* The sequence part is what remains of whole when some elements are left out.
IsPartOf(part, whole) ==
    \E at \in [DOMAIN part -> DOMAIN whole] :
        /\ \A i, j \in DOMAIN part : i < j => at[i] < at[j]
        /\ \A i \in DOMAIN part : part[i] = whole[at[i]]

\* Whatever overlaps, the event list a customer sees is a part of what was
\* committed, in that order and never twice, and it ends in the latest commit:
\* an overlapping update may lose another's event, not invent or reorder one.
EventsAreCommits ==
    \A s \in Shipments :
        /\ Last(row[s].events) = Last(log[s])
        /\ IsPartOf(row[s].events, log[s])

\* A shipment whose every commit used the row as it stood has all its events,
\* and its status is the last of them.
FreshHistoryIsComplete ==
    \A s \in Shipments \ stale : row[s].events = log[s] /\ row[s].status = Last(log[s])

\* Where a sequence of statuses puts the order.
LatestPropagated(statuses) ==
    LET i == SelectLastInSeq(statuses, LAMBDA st : st \in Propagated)
    IN  IF i = 0 THEN "confirmed" ELSE statuses[i]

\* When the updates of a shipment come one after the other, nothing fails and
\* nobody cancels the order, the order stands where the shipment's last
\* propagated status has put it as soon as the last update is answered, although
\* two services and four steps lie between (main.py:117-122).
OrderFollowsShipment ==
    faults = 0 =>
        \A s \in Shipments \ overlapped :
            (/\ \A u \in Updates : update[u].pc \in UpdateActive => update[u].shipment # s
             /\ \A d \in Cancels : cancel[d].pc \in {"write", "done"} => cancel[d].order # row[s].order) =>
                order[row[s].order] = LatestPropagated(log[s])
=============================================================================
