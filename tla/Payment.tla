------------------------------- MODULE Payment -------------------------------
(***************************************************************************)
(* The payment service, services/payment/app/main.py.  A client creates a  *)
(* payment under an idempotency key and may send the request again, has it *)
(* processed, which tells the order service to confirm or to cancel the    *)
(* order, and may have it refunded; the provider's webhook sets any status.*)
(* Handlers run in several processes: between the SELECT of a handler and  *)
(* its commit the others do what they like, and its commit writes status   *)
(* as an absolute value if it differs from the one it has read.  A handler *)
(* may die, and calls or answers may be lost: each costs a fault.          *)
(***************************************************************************)
EXTENDS Integers, Sequences

CONSTANTS
    Handlers,         \* requests; a payment is named by the request that inserts it
    Keys,             \* idempotency keys clients choose
    Orders,           \* order ids
    WebhookStatuses,  \* statuses the provider's webhook may carry
    MaxFaults         \* bound: lost calls, lost answers, database errors and dead workers

\* "other" stands for any other string a webhook may carry.
Statuses == {"pending", "success", "failed", "refunded", "other"}

ASSUME PaymentAssumption ==
    /\ WebhookStatuses \subseteq Statuses
    /\ MaxFaults \in Nat

VARIABLES
    row,      \* the payments table
    handler,  \* the requests
    told,     \* for each order, the statuses its PUTs have carried, in order
    stale,    \* history: payments some commit has written from an old row
    hooked,   \* history: payments a webhook has written
    faults    \* how many faults have happened

vars == <<row, handler, told, stale, hooked, faults>>

\* A request without a key gets a uuid, which no other request has.
AllKeys == Keys \cup Handlers

NoRow == [status |-> "none"]
Rows == [key : AllKeys, order : Orders, status : Statuses]
Payments == {p \in Handlers : row[p] # NoRow}

\* pc: "insert" after the SELECT of create_payment; "write" after the SELECT of
\* process_payment, webhook or refund; "hook" after the commit of
\* process_payment; "done" answered, "refused" 4xx, "failed" a 500, a lost
\* answer or a dead worker.
Active == {"insert", "write", "hook"}
Ended == {"done", "refused", "failed"}

NoRequest == [pc |-> "none"]
Creates == [op : {"create"}, pc : {"insert"} \cup Ended, key : AllKeys, order : Orders,
            answer : Handlers]
\* wrote is the status the handler has committed, "none" before.
Writes == [op : {"process", "webhook", "refund"}, pc : {"write", "hook"} \cup Ended,
           payment : Handlers, prev : Statuses, new : Statuses, wrote : Statuses \cup {"none"}]

TypeOK ==
    /\ row \in [Handlers -> {NoRow} \cup Rows]
    /\ handler \in [Handlers -> {NoRequest} \cup Creates \cup Writes]
    /\ told \in [Orders -> Seq({"confirmed", "cancelled"})]
    /\ stale \subseteq Handlers
    /\ hooked \subseteq Handlers
    /\ faults \in 0 .. MaxFaults

Init ==
    /\ row = [p \in Handlers |-> NoRow]
    /\ handler = [h \in Handlers |-> NoRequest]
    /\ told = [o \in Orders |-> <<>>]
    /\ stale = {}
    /\ hooked = {}
    /\ faults = 0

Fault == faults < MaxFaults /\ faults' = faults + 1

-----------------------------------------------------------------------------
(* POST /payments.                                                         *)

WithKey(key) == {p \in Payments : row[p].key = key}

\* The SELECT of create_payment: a payment with this key is the answer.
CreateCheck(h, key, o) ==
    /\ handler[h] = NoRequest
    /\ \/ \E p \in WithKey(key) :
             handler' = [handler EXCEPT ![h] =
                 [op |-> "create", pc |-> "done", key |-> key, order |-> o, answer |-> p]]
       \/ /\ WithKey(key) = {}
          /\ handler' = [handler EXCEPT ![h] =
                 [op |-> "create", pc |-> "insert", key |-> key, order |-> o, answer |-> h]]
    /\ UNCHANGED <<row, told, stale, hooked, faults>>

\* Fault: idempotency_key has no unique index.
InsertWithoutIndex(h) ==
    /\ handler[h].pc = "insert"
    /\ row' = [row EXCEPT ![h] =
           [key |-> handler[h].key, order |-> handler[h].order, status |-> "pending"]]
    /\ handler' = [handler EXCEPT ![h].pc = "done"]
    /\ UNCHANGED <<told, stale, hooked, faults>>

\* Once the order service has answered, or has not, the row is inserted and
\* committed; the answer may be lost.
CreateInsert(h) ==
    /\ handler[h].pc = "insert"
    /\ WithKey(handler[h].key) = {}
    /\ row' = [row EXCEPT ![h] =
           [key |-> handler[h].key, order |-> handler[h].order, status |-> "pending"]]
    /\ \/ handler' = [handler EXCEPT ![h].pc = "done"] /\ UNCHANGED faults
       \/ handler' = [handler EXCEPT ![h].pc = "failed"] /\ Fault
    /\ UNCHANGED <<told, stale, hooked>>

\* The unique index refuses the row and nothing catches the IntegrityError.
CreateDuplicate(h) ==
    /\ handler[h].pc = "insert"
    /\ WithKey(handler[h].key) # {}
    /\ handler' = [handler EXCEPT ![h].pc = "failed"]
    /\ UNCHANGED <<row, told, stale, hooked, faults>>

-----------------------------------------------------------------------------
(* POST /payments/{id}/process, /payments/webhook, /payments/{id}/refund.  *)

\* The SELECT of op on payment p, to write status new, or to end here.
Read(h, op, p, new, pc) ==
    /\ handler[h] = NoRequest
    /\ p \in Payments
    /\ handler' = [handler EXCEPT ![h] =
           [op |-> op, pc |-> pc, payment |-> p, prev |-> row[p].status, new |-> new,
            wrote |-> "none"]]
    /\ UNCHANGED <<row, told, stale, hooked, faults>>

\* The commit: the column is written if the value differs from what was read.
Commit(h, pc) ==
    LET req == handler[h]
        p == req.payment
    IN  /\ row' = [row EXCEPT ![p].status = IF req.new = req.prev THEN @ ELSE req.new]
        /\ stale' = IF row[p].status = req.prev THEN stale ELSE stale \cup {p}
        /\ handler' = [handler EXCEPT ![h].pc = pc, ![h].wrote = req.new]
        /\ UNCHANGED <<told, faults>>

\* Fault: a payment that has succeeded is processed again.
ProcessAgain(h, p, new) ==
    /\ p \in Payments
    /\ Read(h, "process", p, new, IF row[p].status = "refunded" THEN "done" ELSE "write")

\* A payment that has succeeded or was refunded is returned as it is.
ProcessRead(h, p, new) ==
    /\ p \in Payments
    /\ Read(h, "process", p, new, IF row[p].status \in {"success", "refunded"} THEN "done" ELSE "write")

\* time.sleep and _simulate_provider lie between the SELECT and this commit.
ProcessWrite(h) ==
    /\ handler[h].pc = "write"
    /\ handler[h].op = "process"
    /\ Commit(h, "hook")
    /\ UNCHANGED hooked

\* Fault: the payment's status is sent as the order's.
HookSendsPaymentStatus(h) ==
    /\ handler[h].pc = "hook"
    /\ told' = [told EXCEPT ![row[handler[h].payment].order] = Append(@, handler[h].new)]
    /\ handler' = [handler EXCEPT ![h].pc = "done"]
    /\ UNCHANGED <<row, stale, hooked, faults>>

\* Fault: only a failure is reported to the order service.
HookOnFailureOnly(h) ==
    /\ handler[h].pc = "hook"
    /\ told' = [told EXCEPT ![row[handler[h].payment].order] =
           IF handler[h].new = "success" THEN @ ELSE Append(@, "cancelled")]
    /\ handler' = [handler EXCEPT ![h].pc = "done"]
    /\ UNCHANGED <<row, stale, hooked, faults>>

\* PUT /orders/{id}/status with the outcome; a failure of the call is swallowed.
ProcessHook(h) ==
    LET req == handler[h]
        outcome == IF req.new = "success" THEN "confirmed" ELSE "cancelled"
    IN  /\ req.pc = "hook"
        /\ \/ told' = [told EXCEPT ![row[req.payment].order] = Append(@, outcome)] /\ UNCHANGED faults
           \/ UNCHANGED told /\ Fault
        /\ handler' = [handler EXCEPT ![h].pc = "done"]
        /\ UNCHANGED <<row, stale, hooked>>

WebhookRead(h, p, new) == Read(h, "webhook", p, new, "write")

\* The webhook writes whatever status it carries and tells nobody.
WebhookWrite(h) ==
    /\ handler[h].pc = "write"
    /\ handler[h].op = "webhook"
    /\ Commit(h, "done")
    /\ hooked' = hooked \cup {handler[h].payment}

\* Only a payment that has succeeded is refunded.
RefundRead(h, p) ==
    /\ p \in Payments
    /\ Read(h, "refund", p, "refunded", IF row[p].status # "success" THEN "refused" ELSE "write")

RefundWrite(h) ==
    /\ handler[h].pc = "write"
    /\ handler[h].op = "refund"
    /\ Commit(h, "done")
    /\ UNCHANGED hooked

\* A database error or a dead worker ends the handler where it is.
Fail(h) ==
    /\ handler[h].pc \in Active
    /\ handler' = [handler EXCEPT ![h].pc = "failed"]
    /\ Fault
    /\ UNCHANGED <<row, told, stale, hooked>>

-----------------------------------------------------------------------------
Next ==
    \E h \in Handlers :
        \/ \E key \in Keys \cup {h}, o \in Orders : CreateCheck(h, key, o)
        \/ CreateInsert(h)
        \/ CreateDuplicate(h)
        \/ \E p \in Payments :
              \/ \E new \in {"success", "failed"} : ProcessRead(h, p, new)
              \/ \E new \in WebhookStatuses : WebhookRead(h, p, new)
              \/ RefundRead(h, p)
        \/ ProcessWrite(h)
        \/ ProcessHook(h)
        \/ WebhookWrite(h)
        \/ RefundWrite(h)
        \/ Fail(h)

Spec == Init /\ [][Next]_vars

-----------------------------------------------------------------------------
(* Properties.                                                             *)

\* "the Idempotency-Key makes retries safe": however often and however
\* concurrently a request is sent again, there is one payment for its key, and
\* all the requests that were answered were answered with that one
\* (main.py:65-91, models.py:15).
RetriesAreSafe ==
    /\ \A p, q \in Payments : row[p].key = row[q].key => p = q
    /\ \A h \in Handlers : handler[h] \in Creates /\ handler[h].pc = "done" =>
          /\ handler[h].answer \in Payments
          /\ row[handler[h].answer].key = handler[h].key

Succeeded(h, p) == handler[h] \in Writes /\ handler[h].op = "process"
                     /\ handler[h].payment = p /\ handler[h].wrote = "success"
Refunded(h, p) == handler[h] \in Writes /\ handler[h].op = "refund"
                     /\ handler[h].payment = p /\ handler[h].wrote = "refunded"

\* A payment that no webhook has written, and whose every commit used the row as
\* it stood, succeeds once and is refunded once, and only after it succeeded: so
\* its order is confirmed once (main.py:97, 156).
FreshPaymentsSettleOnce ==
    \A p \in Payments \ (stale \cup hooked) : \A h, k \in Handlers :
        /\ Succeeded(h, p) /\ Succeeded(k, p) => h = k
        /\ Refunded(h, p) /\ Refunded(k, p) => h = k
        /\ Refunded(h, p) => \E j \in Handlers : Succeeded(j, p)

\* Without a fault, once every handler has ended, the order of a payment that
\* stands at success has been told so, whatever overlapped with what, webhooks
\* apart (main.py:108-115).
OutcomeIsTold ==
    (faults = 0 /\ \A h \in Handlers : handler[h].pc \notin Active) =>
        \A p \in Payments \ hooked :
            row[p].status \in {"success", "refunded"} =>
                \E i \in DOMAIN told[row[p].order] : told[row[p].order][i] = "confirmed"
=============================================================================
