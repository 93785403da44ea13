---------------------------- MODULE PaymentProofs ----------------------------
(***************************************************************************)
(* Proofs about Payment.tla, for every set of requests, keys and orders    *)
(* and any number of faults.                                               *)
(***************************************************************************)
EXTENDS Payment, TLAPS

\* A create that is to insert answers with the row it inserts, which is not
\* there yet; a write is about a payment that is there, has written nothing
\* before its commit, and has passed the check of its handler.
HandlerOK(h) ==
    /\ handler[h] \in Creates /\ handler[h].pc = "insert" =>
          handler[h].answer = h /\ row[h] = NoRow
    /\ handler[h] \in Writes =>
          /\ handler[h].payment \in Payments
          /\ handler[h].pc = "write" =>
                /\ handler[h].wrote = "none"
                /\ handler[h].op = "process" =>
                      /\ handler[h].prev \notin {"success", "refunded"}
                      /\ handler[h].new \in {"success", "failed"}
                /\ handler[h].op = "refund" =>
                      handler[h].prev = "success" /\ handler[h].new = "refunded"

\* A row is named by the create that inserted it.
RowsByCreates == \A p \in Payments : handler[p] \in Creates

\* What the status of a fresh payment says about the commits made so far.
FreshOK(p) ==
    /\ row[p].status # "other"
    /\ row[p].status \in {"pending", "failed"} =>
          \A h \in Handlers : ~Succeeded(h, p) /\ ~Refunded(h, p)
    /\ row[p].status = "success" => \A h \in Handlers : ~Refunded(h, p)
    /\ row[p].status \in {"success", "refunded"} => \E h \in Handlers : Succeeded(h, p)

IInv ==
    /\ TypeOK
    /\ \A h \in Handlers : HandlerOK(h)
    /\ RowsByCreates
    /\ RetriesAreSafe
    /\ \A p \in Payments \ (stale \cup hooked) : FreshOK(p)
    /\ FreshPaymentsSettleOnce

\* Without a fault, a payment that has succeeded, or is to be refunded because
\* it has, is one whose order was told so, or is about to be.
Told(p) == \E i \in DOMAIN told[row[p].order] : told[row[p].order][i] = "confirmed"

Telling(h, p) ==
    handler[h] \in Writes /\ handler[h].pc = "hook" /\ handler[h].payment = p /\ handler[h].new = "success"

Refunding(h, p) ==
    handler[h] \in Writes /\ handler[h].pc = "write" /\ handler[h].payment = p /\ handler[h].op = "refund"

Settled(p) == row[p].status \in {"success", "refunded"} \/ \E h \in Handlers : Refunding(h, p)

ToldInv ==
    faults = 0 => \A p \in Payments \ hooked : Settled(p) => Told(p) \/ \E h \in Handlers : Telling(h, p)

-----------------------------------------------------------------------------
(* Requests of the two kinds are told apart by op and pc.                  *)

LEMMA CreateFields ==
    ASSUME NEW r \in Creates
    PROVE  /\ r.op = "create" /\ r.pc \in {"insert", "done", "refused", "failed"}
           /\ r.key \in AllKeys /\ r.order \in Orders /\ r.answer \in Handlers
           /\ r \notin Writes /\ r # NoRequest
           /\ \A x \in {"insert", "done", "refused", "failed"} :
                 /\ [r EXCEPT !.pc = x] \in Creates
                 /\ [r EXCEPT !.pc = x].answer = r.answer
                 /\ [r EXCEPT !.pc = x].key = r.key
                 /\ [r EXCEPT !.pc = x].pc = x
BY DEF Creates, Writes, NoRequest, Ended

LEMMA WriteFields ==
    ASSUME NEW r \in Writes
    PROVE  /\ r.op \in {"process", "webhook", "refund"}
           /\ r.pc \in {"write", "hook", "done", "refused", "failed"}
           /\ r.payment \in Handlers /\ r.prev \in Statuses /\ r.new \in Statuses
           /\ r.wrote \in Statuses \cup {"none"}
           /\ r \notin Creates /\ r # NoRequest
           /\ \A x \in {"write", "hook", "done", "refused", "failed"} :
                 /\ [r EXCEPT !.pc = x] \in Writes
                 /\ [r EXCEPT !.pc = x].payment = r.payment
                 /\ [r EXCEPT !.pc = x].op = r.op
                 /\ [r EXCEPT !.pc = x].prev = r.prev
                 /\ [r EXCEPT !.pc = x].new = r.new
                 /\ [r EXCEPT !.pc = x].wrote = r.wrote
                 /\ [r EXCEPT !.pc = x].pc = x
BY DEF Creates, Writes, NoRequest, Ended

\* A handler at a step of its own is of the kind that has this step.
LEMMA KindOf ==
    ASSUME TypeOK, NEW h \in Handlers
    PROVE  /\ handler[h] \in {NoRequest} \cup Creates \cup Writes
           /\ handler[h].pc = "insert" => handler[h] \in Creates
           /\ handler[h].pc \in {"write", "hook"} => handler[h] \in Writes
           /\ handler[h] = NoRequest => handler[h].pc = "none"
<1>1. handler[h] \in {NoRequest} \cup Creates \cup Writes
  BY DEF TypeOK
<1>2. CASE handler[h] = NoRequest
  BY <1>2 DEF NoRequest
<1>3. CASE handler[h] \in Creates
  BY <1>3, CreateFields
<1>4. CASE handler[h] \in Writes
  BY <1>4, WriteFields
<1> QED BY <1>1, <1>2, <1>3, <1>4

LEMMA RowFields ==
    ASSUME TypeOK, NEW p \in Payments
    PROVE  /\ p \in Handlers /\ row[p] \in Rows
           /\ row[p].key \in AllKeys /\ row[p].order \in Orders /\ row[p].status \in Statuses
BY DEF TypeOK, Payments, Rows

-----------------------------------------------------------------------------
(* Steps that leave the table alone.                                       *)

\* A step of h that leaves the table and the histories alone keeps the invariant
\* when h afterwards is in order and has written what it had written before.
LEMMA QuietPreserves ==
    ASSUME IInv, NEW h \in Handlers,
           row' = row, stale' = stale, hooked' = hooked,
           told' \in [Orders -> Seq({"confirmed", "cancelled"})], faults' \in 0 .. MaxFaults,
           NEW r \in Creates \cup Writes, handler' = [handler EXCEPT ![h] = r],
           HandlerOK(h)',
           h \in Payments => r \in Creates,
           r \in Creates /\ r.pc = "done" => r.answer \in Payments /\ row[r.answer].key = r.key,
           r \in Writes => \/ r.wrote = "none"
                           \/ /\ handler[h] \in Writes
                              /\ r.op = handler[h].op /\ r.payment = handler[h].payment
                              /\ r.wrote = handler[h].wrote,
           handler[h] \in Writes => /\ r \in Writes
                                    /\ r.op = handler[h].op /\ r.payment = handler[h].payment
                                    /\ r.wrote = handler[h].wrote
    PROVE  IInv'
<1>1. /\ handler'[h] = r /\ \A k \in Handlers \ {h} : handler'[k] = handler[k]
      /\ handler' \in [Handlers -> {NoRequest} \cup Creates \cup Writes]
  BY DEF IInv, TypeOK
<1>2. TypeOK'
  BY <1>1 DEF IInv, TypeOK
<1>3. Payments' = Payments
  BY DEF Payments
<1>4. ASSUME NEW k \in Handlers PROVE HandlerOK(k)'
  <2>1. CASE k = h
    BY <2>1
  <2>2. CASE k # h
    <3>1. HandlerOK(k)
      BY DEF IInv
    <3> QED BY <3>1, <2>2, <1>1, <1>3 DEF HandlerOK
  <2> QED BY <2>1, <2>2
<1>5. RowsByCreates'
  BY <1>1, <1>3 DEF IInv, RowsByCreates
<1>6. RetriesAreSafe'
  <2>1. \A p, q \in Payments' : row'[p].key = row'[q].key => p = q
    BY <1>3 DEF IInv, RetriesAreSafe
  <2>2. ASSUME NEW k \in Handlers, handler'[k] \in Creates, handler'[k].pc = "done"
        PROVE  handler'[k].answer \in Payments' /\ row'[handler'[k].answer].key = handler'[k].key
    <3>1. CASE k = h
      BY <3>1, <2>2, <1>1, <1>3
    <3>2. CASE k # h
      BY <3>2, <2>2, <1>1, <1>3 DEF IInv, RetriesAreSafe
    <3> QED BY <3>1, <3>2
  <2> QED BY <2>1, <2>2 DEF RetriesAreSafe
<1>7. ASSUME NEW k \in Handlers, NEW p
      PROVE  /\ Succeeded(k, p)' <=> Succeeded(k, p)
             /\ Refunded(k, p)' <=> Refunded(k, p)
  <2>1. CASE k # h
    BY <2>1, <1>1 DEF Succeeded, Refunded
  <2>2. CASE k = h /\ handler[h] \in Writes
    BY <2>2, <1>1 DEF Succeeded, Refunded
  <2>3. CASE k = h /\ handler[h] \notin Writes
    BY <2>3, <1>1 DEF Succeeded, Refunded
  <2> QED BY <2>1, <2>2, <2>3
<1>8. ASSUME NEW p \in Payments \ (stale \cup hooked)
      PROVE  FreshOK(p)'
  BY <1>7 DEF IInv, FreshOK
<1>9. FreshPaymentsSettleOnce'
  BY <1>3, <1>7 DEF IInv, FreshPaymentsSettleOnce
<1> QED BY <1>2, <1>3, <1>4, <1>5, <1>6, <1>8, <1>9 DEF IInv

-----------------------------------------------------------------------------
(* The steps of a create.                                                  *)

\* A request that has not begun has inserted no row.
LEMMA IdleHasNoRow ==
    ASSUME IInv, NEW h \in Handlers, handler[h] = NoRequest
    PROVE  h \notin Payments /\ handler[h] \notin Writes
<1>1. NoRequest \notin Creates /\ NoRequest \notin Writes
  BY CreateFields, WriteFields
<1> QED BY <1>1 DEF IInv, RowsByCreates

LEMMA CreateCheckPreserves ==
    ASSUME IInv, NEW h \in Handlers, NEW key \in Keys \cup {h}, NEW o \in Orders,
           CreateCheck(h, key, o)
    PROVE  IInv'
<1>1. handler[h] = NoRequest /\ h \notin Payments /\ handler[h] \notin Writes
  BY IdleHasNoRow DEF CreateCheck
<1>2. row' = row /\ told' = told /\ stale' = stale /\ hooked' = hooked /\ faults' = faults
  BY DEF CreateCheck
<1>3. told' \in [Orders -> Seq({"confirmed", "cancelled"})] /\ faults' \in 0 .. MaxFaults
  BY <1>2 DEF IInv, TypeOK
<1>4. key \in AllKeys
  BY DEF AllKeys
<1>5. ASSUME NEW p \in WithKey(key),
             handler' = [handler EXCEPT ![h] =
                 [op |-> "create", pc |-> "done", key |-> key, order |-> o, answer |-> p]]
      PROVE  IInv'
  <2> DEFINE r == [op |-> "create", pc |-> "done", key |-> key, order |-> o, answer |-> p]
  <2>1. p \in Payments /\ row[p].key = key /\ p \in Handlers
    BY <1>5 DEF WithKey, Payments
  <2>2. r \in Creates
    BY <2>1, <1>4 DEF Creates, Ended
  <2>3. r.pc = "done" /\ r.answer = p /\ r.key = key
    OBVIOUS
  <2>4. handler' = [handler EXCEPT ![h] = r] /\ handler'[h] = r
    BY <1>5 DEF IInv, TypeOK
  <2> HIDE DEF r
  <2>5. r \notin Writes
    BY <2>2, CreateFields
  <2>6. HandlerOK(h)'
    BY <2>2, <2>3, <2>4, <2>5 DEF HandlerOK
  <2> QED BY <1>1, <1>2, <1>3, <2>1, <2>2, <2>3, <2>4, <2>5, <2>6, QuietPreserves
<1>6. ASSUME handler' = [handler EXCEPT ![h] =
                 [op |-> "create", pc |-> "insert", key |-> key, order |-> o, answer |-> h]]
      PROVE  IInv'
  <2> DEFINE r == [op |-> "create", pc |-> "insert", key |-> key, order |-> o, answer |-> h]
  <2>1. row[h] = NoRow
    BY <1>1 DEF Payments
  <2>2. r \in Creates
    BY <1>4 DEF Creates, Ended
  <2>3. r.pc = "insert" /\ r.answer = h /\ r.key = key
    OBVIOUS
  <2>4. handler' = [handler EXCEPT ![h] = r] /\ handler'[h] = r
    BY <1>6 DEF IInv, TypeOK
  <2> HIDE DEF r
  <2>5. r \notin Writes
    BY <2>2, CreateFields
  <2>6. HandlerOK(h)'
    BY <2>1, <1>2, <2>2, <2>3, <2>4, <2>5 DEF HandlerOK
  <2> QED BY <1>1, <1>2, <1>3, <2>2, <2>3, <2>4, <2>5, <2>6, QuietPreserves
<1> QED BY <1>5, <1>6 DEF CreateCheck

\* The new row has a key no row has, and nothing has been written to it.
LEMMA CreateInsertPreserves ==
    ASSUME IInv, NEW h \in Handlers, CreateInsert(h)
    PROVE  IInv'
<1> DEFINE req == handler[h]
<1> DEFINE new == [key |-> req.key, order |-> req.order, status |-> "pending"]
<1>a. TypeOK
  BY DEF IInv
<1>b. req \in Creates /\ req.pc = "insert"
  BY <1>a, KindOf DEF CreateInsert
<1>c. req.answer = h /\ row[h] = NoRow
  BY <1>b DEF IInv, HandlerOK
<1>d. PICK x \in {"done", "failed"} :
         /\ handler' = [handler EXCEPT ![h] = [req EXCEPT !.pc = x]]
         /\ faults' \in 0 .. MaxFaults
  BY <1>a, PaymentAssumption DEF CreateInsert, Fault, TypeOK
<1>e. /\ [req EXCEPT !.pc = x] \in Creates /\ [req EXCEPT !.pc = x] \notin Writes
      /\ [req EXCEPT !.pc = x].answer = h /\ [req EXCEPT !.pc = x].key = req.key
      /\ [req EXCEPT !.pc = x].pc = x
      /\ req.key \in AllKeys /\ req.order \in Orders
  <2>1. x \in {"insert", "done", "refused", "failed"}
    OBVIOUS
  <2> HIDE DEF req
  <2>2. /\ [req EXCEPT !.pc = x] \in Creates
        /\ [req EXCEPT !.pc = x].answer = req.answer /\ [req EXCEPT !.pc = x].key = req.key
        /\ [req EXCEPT !.pc = x].pc = x
        /\ req.key \in AllKeys /\ req.order \in Orders
    BY <1>b, <2>1 DEF Creates, Ended
  <2>3. [req EXCEPT !.pc = x] \notin Writes
    BY <2>2, CreateFields
  <2> QED BY <1>c, <2>2, <2>3
<1>f. /\ handler'[h] \in Creates /\ handler'[h] \notin Writes
      /\ handler'[h].answer = h /\ handler'[h].key = req.key
      /\ handler'[h].pc # "insert"
      /\ \A k \in Handlers \ {h} : handler'[k] = handler[k]
      /\ handler' \in [Handlers -> {NoRequest} \cup Creates \cup Writes]
  BY <1>a, <1>d, <1>e DEF TypeOK
<1>g. /\ row' = [row EXCEPT ![h] = new]
      /\ told' = told /\ stale' = stale /\ hooked' = hooked
      /\ WithKey(req.key) = {}
  BY DEF CreateInsert
<1>h. new \in Rows /\ new # NoRow /\ new.key = req.key /\ new.status = "pending"
  BY <1>e DEF Rows, Statuses, NoRow
<1> HIDE DEF new
<1>i. /\ row'[h] = new /\ \A k \in Handlers \ {h} : row'[k] = row[k]
      /\ row' \in [Handlers -> {NoRow} \cup Rows]
  BY <1>a, <1>g, <1>h DEF TypeOK
<1>j. Payments' = Payments \cup {h} /\ h \notin Payments
  BY <1>i, <1>h, <1>c DEF Payments
<1>1. TypeOK'
  BY <1>a, <1>d, <1>f, <1>g, <1>i DEF TypeOK
<1>2. ASSUME NEW k \in Handlers PROVE HandlerOK(k)'
  <2>1. CASE k = h
    BY <2>1, <1>f DEF HandlerOK
  <2>2. CASE k # h
    <3>1. HandlerOK(k)
      BY DEF IInv
    <3> QED BY <3>1, <2>2, <1>f, <1>i, <1>j DEF HandlerOK
  <2> QED BY <2>1, <2>2
<1>3. RowsByCreates'
  <2>1. ASSUME NEW p \in Payments' PROVE handler'[p] \in Creates
    <3>1. CASE p = h
      BY <3>1, <1>f
    <3>2. CASE p # h
      BY <3>2, <2>1, <1>f, <1>j DEF IInv, RowsByCreates, Payments
    <3> QED BY <3>1, <3>2
  <2> QED BY <2>1 DEF RowsByCreates
<1>4. RetriesAreSafe'
  <2>1. ASSUME NEW p \in Payments', NEW q \in Payments', row'[p].key = row'[q].key PROVE p = q
    <3>1. ASSUME NEW z \in Payments PROVE row'[z] = row[z] /\ row[z].key # req.key
      BY <3>1, <1>g, <1>i, <1>j DEF WithKey, Payments
    <3>2. row'[h].key = req.key
      BY <1>h, <1>i
    <3>3. CASE p \in Payments /\ q \in Payments
      BY <2>1, <3>1, <3>3 DEF IInv, RetriesAreSafe
    <3>4. CASE p = h \/ q = h
      BY <2>1, <3>1, <3>2, <3>4, <1>j
    <3> QED BY <3>3, <3>4, <1>j
  <2>2. ASSUME NEW k \in Handlers, handler'[k] \in Creates, handler'[k].pc = "done"
        PROVE  handler'[k].answer \in Payments' /\ row'[handler'[k].answer].key = handler'[k].key
    <3>1. CASE k = h
      BY <3>1, <1>f, <1>h, <1>i, <1>j
    <3>2. CASE k # h
      <4>1. handler[k].answer \in Payments /\ row[handler[k].answer].key = handler[k].key
        BY <3>2, <2>2, <1>f DEF IInv, RetriesAreSafe
      <4>2. row'[handler[k].answer] = row[handler[k].answer]
        BY <4>1, <1>i, <1>j DEF Payments
      <4> QED BY <4>1, <4>2, <3>2, <1>f, <1>j
    <3> QED BY <3>1, <3>2
  <2> QED BY <2>1, <2>2 DEF RetriesAreSafe
<1>5. ASSUME NEW k \in Handlers, NEW p
      PROVE  /\ Succeeded(k, p)' <=> Succeeded(k, p)
             /\ Refunded(k, p)' <=> Refunded(k, p)
  <2>1. CASE k # h
    BY <2>1, <1>f DEF Succeeded, Refunded
  <2>2. CASE k = h
    <3>1. req \notin Writes
      BY <1>b, CreateFields
    <3> QED BY <3>1, <2>2, <1>f DEF Succeeded, Refunded
  <2> QED BY <2>1, <2>2
<1>6. ASSUME NEW k \in Handlers PROVE ~Succeeded(k, h) /\ ~Refunded(k, h)
  BY <1>j DEF IInv, HandlerOK, Succeeded, Refunded
<1>7. ASSUME NEW p \in Payments' \ (stale' \cup hooked') PROVE FreshOK(p)'
  <2>1. CASE p = h
    BY <2>1, <1>5, <1>6, <1>h, <1>i DEF FreshOK
  <2>2. CASE p # h
    <3>1. p \in Payments \ (stale \cup hooked) /\ row'[p] = row[p]
      BY <2>2, <1>7, <1>g, <1>i, <1>j DEF Payments
    <3>2. FreshOK(p)
      BY <3>1 DEF IInv
    <3> QED BY <3>1, <3>2, <1>5 DEF FreshOK
  <2> QED BY <2>1, <2>2
<1>8. FreshPaymentsSettleOnce'
  BY <1>5, <1>6, <1>g, <1>j DEF IInv, FreshPaymentsSettleOnce
<1> QED BY <1>1, <1>2, <1>3, <1>4, <1>7, <1>8 DEF IInv

\* A step that only moves the pc of a handler, past its insert or its write.
LEMMA MovePreserves ==
    ASSUME IInv, NEW h \in Handlers, handler[h].pc \in Active,
           NEW x \in {"done", "failed"}, handler' = [handler EXCEPT ![h].pc = x],
           handler[h] \in Creates => x = "failed",
           row' = row, stale' = stale, hooked' = hooked,
           told' \in [Orders -> Seq({"confirmed", "cancelled"})], faults' \in 0 .. MaxFaults
    PROVE  IInv'
<1> DEFINE req == handler[h]
<1> DEFINE r == [req EXCEPT !.pc = x]
<1>1. req \in Creates \cup Writes
  BY KindOf DEF IInv, Active, NoRequest
<1>2. handler' = [handler EXCEPT ![h] = r] /\ handler'[h] = r
  <2>1. handler \in [Handlers -> {NoRequest} \cup Creates \cup Writes]
    BY DEF IInv, TypeOK
  <2> QED BY <2>1
<1>3. h \in Payments => req \in Creates
  BY DEF IInv, RowsByCreates
<1> HIDE DEF req
<1>4. CASE req \in Creates
  <2>1. r \in Creates /\ r.pc = "failed" /\ req \notin Writes
    BY <1>4, CreateFields DEF req
  <2> HIDE DEF r
  <2>2. r \notin Writes
    BY <2>1, CreateFields
  <2>3. HandlerOK(h)'
    BY <1>2, <2>1, <2>2 DEF HandlerOK
  <2> QED BY <1>2, <2>1, <2>2, <2>3, QuietPreserves DEF req
<1>5. CASE req \in Writes
  <2>1. /\ r \in Writes /\ r.pc = x /\ r.payment = req.payment /\ r.op = req.op
        /\ r.wrote = req.wrote
    BY <1>5 DEF Writes, Ended
  <2>2. req \notin Creates
    BY <1>5, WriteFields
  <2>3. req.payment \in Payments
    BY <1>5 DEF IInv, HandlerOK, req
  <2> HIDE DEF r
  <2>4. r \notin Creates
    BY <2>1, WriteFields
  <2>5. HandlerOK(h)'
    BY <1>2, <2>1, <2>3, <2>4 DEF HandlerOK, Payments
  <2>6. h \notin Payments
    BY <1>3, <2>2
  <2> QED BY <1>2, <2>1, <2>2, <2>4, <2>5, <2>6, <1>5, QuietPreserves DEF req
<1> QED BY <1>1, <1>4, <1>5

LEMMA CreateDuplicatePreserves ==
    ASSUME IInv, NEW h \in Handlers, CreateDuplicate(h)
    PROVE  IInv'
BY MovePreserves DEF CreateDuplicate, IInv, TypeOK, Active

LEMMA FailPreserves ==
    ASSUME IInv, NEW h \in Handlers, Fail(h)
    PROVE  IInv'
<1>1. faults' \in 0 .. MaxFaults
  BY PaymentAssumption DEF Fail, Fault, IInv, TypeOK
<1> QED BY <1>1, MovePreserves DEF Fail, IInv, TypeOK

LEMMA ProcessHookPreserves ==
    ASSUME IInv, NEW h \in Handlers, ProcessHook(h)
    PROVE  IInv'
<1>1. handler[h] \in Writes /\ handler[h] \notin Creates
  BY KindOf, WriteFields DEF IInv, ProcessHook
<1>2. handler[h].payment \in Payments
  BY <1>1 DEF IInv, HandlerOK
<1>3. row[handler[h].payment].order \in Orders
  BY <1>2, RowFields DEF IInv
<1>4. faults' \in 0 .. MaxFaults
  BY PaymentAssumption DEF ProcessHook, Fault, IInv, TypeOK
<1>5. told' \in [Orders -> Seq({"confirmed", "cancelled"})]
  <2>1. CASE told' = told
    BY <2>1 DEF IInv, TypeOK
  <2>2. ASSUME NEW outcome \in {"confirmed", "cancelled"},
               told' = [told EXCEPT ![row[handler[h].payment].order] = Append(@, outcome)]
        PROVE  told' \in [Orders -> Seq({"confirmed", "cancelled"})]
    <3>1. told[row[handler[h].payment].order] \in Seq({"confirmed", "cancelled"})
      BY <1>3 DEF IInv, TypeOK
    <3>2. Append(told[row[handler[h].payment].order], outcome) \in Seq({"confirmed", "cancelled"})
      BY <3>1
    <3> QED BY <2>2, <3>2, <1>3 DEF IInv, TypeOK
  <2> QED BY <2>1, <2>2 DEF ProcessHook
<1> QED BY <1>1, <1>4, <1>5, MovePreserves DEF ProcessHook, Active

-----------------------------------------------------------------------------
(* The steps of a process, a webhook or a refund.                          *)

\* A handler that has read has written nothing yet.
LEMMA ReadPreserves ==
    ASSUME IInv, NEW h \in Handlers, NEW op \in {"process", "webhook", "refund"},
           NEW p, NEW new \in Statuses, NEW pc \in {"write", "done", "refused"},
           Read(h, op, p, new, pc),
           pc = "write" /\ op = "process" =>
               row[p].status \notin {"success", "refunded"} /\ new \in {"success", "failed"},
           pc = "write" /\ op = "refund" => row[p].status = "success" /\ new = "refunded"
    PROVE  IInv'
<1> DEFINE r == [op |-> op, pc |-> pc, payment |-> p, prev |-> row[p].status, new |-> new,
                 wrote |-> "none"]
<1>1. handler[h] = NoRequest /\ h \notin Payments /\ handler[h] \notin Writes
  BY IdleHasNoRow DEF Read
<1>2. p \in Payments /\ p \in Handlers /\ row[p].status \in Statuses
  BY RowFields DEF Read, IInv
<1>3. /\ row' = row /\ told' = told /\ stale' = stale /\ hooked' = hooked /\ faults' = faults
      /\ Payments' = Payments
  BY DEF Read, Payments
<1>4. told' \in [Orders -> Seq({"confirmed", "cancelled"})] /\ faults' \in 0 .. MaxFaults
  BY <1>3 DEF IInv, TypeOK
<1>5. r \in Writes
  BY <1>2 DEF Writes, Ended
<1>6. /\ r.op = op /\ r.pc = pc /\ r.payment = p /\ r.prev = row[p].status /\ r.new = new
      /\ r.wrote = "none"
  OBVIOUS
<1>7. handler' = [handler EXCEPT ![h] = r] /\ handler'[h] = r
  BY DEF Read, IInv, TypeOK
<1> HIDE DEF r
<1>8. r \notin Creates
  BY <1>5, WriteFields
<1>9. HandlerOK(h)'
  BY <1>2, <1>3, <1>5, <1>6, <1>7, <1>8 DEF HandlerOK
<1> QED BY <1>1, <1>3, <1>4, <1>5, <1>6, <1>7, <1>8, <1>9, QuietPreserves

\* A commit of h writes the status its handler may write: a payment that is
\* still fresh has the status that was read, hence the one that was checked.
LEMMA CommitPreserves ==
    ASSUME IInv, NEW h \in Handlers, handler[h].pc = "write",
           NEW pc \in {"hook", "done"}, Commit(h, pc),
           hooked' = IF handler[h].op = "webhook" THEN hooked \cup {handler[h].payment} ELSE hooked
    PROVE  IInv'
<1> DEFINE req == handler[h]
<1> DEFINE r == [req EXCEPT !.pc = pc, !.wrote = req.new]
<1>a. TypeOK
  BY DEF IInv
<1>b. req \in Writes /\ req \notin Creates
  BY <1>a, KindOf, WriteFields
<1>p. PICK p \in Handlers : p = req.payment
  BY <1>b, WriteFields
<1> DEFINE rec == [row[p] EXCEPT !.status = IF req.new = req.prev THEN @ ELSE req.new]
<1>c. /\ p \in Payments /\ req.wrote = "none"
      /\ req.op = "process" => req.prev \notin {"success", "refunded"} /\ req.new \in {"success", "failed"}
      /\ req.op = "refund" => req.prev = "success" /\ req.new = "refunded"
  BY <1>b, <1>p DEF IInv, HandlerOK
<1>d. /\ p \in Handlers /\ row[p] \in Rows /\ req.new \in Statuses /\ req.prev \in Statuses
      /\ req.op \in {"process", "webhook", "refund"}
  BY <1>a, <1>b, <1>c, RowFields, WriteFields
<1>e. /\ row' = [row EXCEPT ![p] = rec]
      /\ stale' = IF row[p].status = req.prev THEN stale ELSE stale \cup {p}
      /\ told' = told /\ faults' = faults
  BY <1>p DEF Commit
<1>f. handler' = [handler EXCEPT ![h] = r]
  BY <1>a DEF Commit, TypeOK
<1> HIDE DEF req
<1>g. /\ rec \in Rows /\ rec # NoRow /\ rec.key = row[p].key
      /\ rec.status = IF req.new = req.prev THEN row[p].status ELSE req.new
  BY <1>d DEF Rows, NoRow
<1>h. /\ r \in Writes /\ r.pc = pc /\ r.payment = p /\ r.op = req.op /\ r.wrote = req.new
  BY <1>b, <1>d, <1>p DEF Writes, Ended
<1> HIDE DEF r, rec
<1>i. r \notin Creates
  BY <1>h, WriteFields
<1>j. /\ handler'[h] = r /\ \A k \in Handlers \ {h} : handler'[k] = handler[k]
      /\ handler' \in [Handlers -> {NoRequest} \cup Creates \cup Writes]
  BY <1>a, <1>f, <1>h DEF TypeOK
<1>k. /\ row'[p] = rec /\ \A q \in Handlers \ {p} : row'[q] = row[q]
      /\ row' \in [Handlers -> {NoRow} \cup Rows]
  BY <1>a, <1>d, <1>e, <1>g DEF TypeOK
<1>l. /\ Payments' = Payments /\ \A q \in Payments : row'[q].key = row[q].key
  BY <1>c, <1>g, <1>k DEF Payments
<1>1. TypeOK'
  BY <1>a, <1>p, <1>d, <1>e, <1>j, <1>k DEF TypeOK, req
<1>2. ASSUME NEW k \in Handlers PROVE HandlerOK(k)'
  <2>1. CASE k = h
    BY <2>1, <1>c, <1>h, <1>i, <1>j, <1>l DEF HandlerOK
  <2>2. CASE k # h
    <3>1. HandlerOK(k)
      BY DEF IInv
    <3>2. row[k] = NoRow => row'[k] = NoRow
      BY <1>c, <1>k DEF Payments
    <3> QED BY <3>1, <3>2, <2>2, <1>j, <1>l DEF HandlerOK
  <2> QED BY <2>1, <2>2
<1>3. RowsByCreates'
  <2>1. h \notin Payments
    BY <1>b DEF IInv, RowsByCreates, req
  <2> QED BY <2>1, <1>j, <1>l DEF IInv, RowsByCreates, Payments
<1>4. RetriesAreSafe'
  <2>1. \A x, y \in Payments' : row'[x].key = row'[y].key => x = y
    BY <1>l DEF IInv, RetriesAreSafe
  <2>2. ASSUME NEW k \in Handlers, handler'[k] \in Creates, handler'[k].pc = "done"
        PROVE  handler'[k].answer \in Payments' /\ row'[handler'[k].answer].key = handler'[k].key
    <3>1. k # h
      BY <2>2, <1>i, <1>j
    <3>2. handler[k].answer \in Payments /\ row[handler[k].answer].key = handler[k].key
      BY <3>1, <2>2, <1>j DEF IInv, RetriesAreSafe
    <3> QED BY <3>1, <3>2, <1>j, <1>l
  <2> QED BY <2>1, <2>2 DEF RetriesAreSafe
\* The commit is the only one of its kind that is new.
<1>5. ASSUME NEW k \in Handlers, NEW q
      PROVE  /\ Succeeded(k, q)' <=> \/ Succeeded(k, q)
                                     \/ k = h /\ q = p /\ req.op = "process" /\ req.new = "success"
             /\ Refunded(k, q)' <=> \/ Refunded(k, q)
                                    \/ k = h /\ q = p /\ req.op = "refund" /\ req.new = "refunded"
             /\ ~Succeeded(h, q) /\ ~Refunded(h, q)
  <2>1. ~Succeeded(h, q) /\ ~Refunded(h, q)
    BY <1>c DEF Succeeded, Refunded, req
  <2>2. CASE k # h
    BY <2>1, <2>2, <1>j DEF Succeeded, Refunded
  <2>3. CASE k = h
    BY <2>1, <2>3, <1>h, <1>j DEF Succeeded, Refunded
  <2> QED BY <2>1, <2>2, <2>3
<1>6. CASE p \in stale' \cup hooked'
  <2>1. ASSUME NEW q \in Payments' \ (stale' \cup hooked')
        PROVE  /\ q # p /\ q \in Payments \ (stale \cup hooked) /\ row'[q] = row[q]
               /\ \A k \in Handlers : /\ Succeeded(k, q)' <=> Succeeded(k, q)
                                      /\ Refunded(k, q)' <=> Refunded(k, q)
    <3>1. q # p /\ q \in Payments \ (stale \cup hooked)
      BY <1>6, <2>1, <1>e, <1>l
    <3> QED BY <3>1, <1>5, <1>k DEF Payments
  <2>2. ASSUME NEW q \in Payments' \ (stale' \cup hooked') PROVE FreshOK(q)'
    <3>1. FreshOK(q)
      BY <2>1 DEF IInv
    <3> QED BY <3>1, <2>1 DEF FreshOK
  <2>3. FreshPaymentsSettleOnce'
    BY <2>1 DEF IInv, FreshPaymentsSettleOnce
  <2> QED BY <1>1, <1>2, <1>3, <1>4, <2>2, <2>3 DEF IInv
<1>7. CASE p \notin stale' \cup hooked'
  <2>1. /\ p \in Payments \ (stale \cup hooked) /\ row[p].status = req.prev
        /\ req.op \in {"process", "refund"} /\ stale' = stale /\ hooked' = hooked
    BY <1>7, <1>c, <1>d, <1>e, <1>p DEF req
  <2>2. row'[p].status = req.new /\ FreshOK(p)
    BY <2>1, <1>g, <1>k DEF IInv
  <2>3. ASSUME NEW q \in Payments \ (stale \cup hooked), q # p
        PROVE  FreshOK(q)'
    <3>1. /\ row'[q] = row[q] /\ FreshOK(q)
          /\ \A k \in Handlers : /\ Succeeded(k, q)' <=> Succeeded(k, q)
                                 /\ Refunded(k, q)' <=> Refunded(k, q)
      BY <2>3, <1>5, <1>k DEF IInv, Payments
    <3> QED BY <3>1 DEF FreshOK
  <2>4. CASE req.op = "process"
    <3>1. /\ row[p].status \in {"pending", "failed"} /\ req.new \in {"success", "failed"}
      BY <2>1, <2>2, <2>4, <1>c, <1>d DEF FreshOK, Statuses
    <3>2. \A k \in Handlers : ~Succeeded(k, p) /\ ~Refunded(k, p)
      BY <3>1, <2>2 DEF FreshOK
    <3>3. FreshOK(p)'
      BY <3>1, <3>2, <2>2, <2>4, <1>5 DEF FreshOK
    <3>4. FreshPaymentsSettleOnce'
      BY <3>2, <2>1, <2>4, <1>5, <1>l DEF IInv, FreshPaymentsSettleOnce
    <3> QED BY <3>3, <3>4, <2>1, <2>3, <1>1, <1>2, <1>3, <1>4, <1>l DEF IInv
  <2>5. CASE req.op = "refund"
    <3>1. row[p].status = "success" /\ req.new = "refunded"
      BY <2>1, <2>5, <1>c
    <3>2. (\A k \in Handlers : ~Refunded(k, p)) /\ (\E k \in Handlers : Succeeded(k, p))
      BY <3>1, <2>2 DEF FreshOK
    <3>3. FreshOK(p)'
      BY <3>1, <3>2, <2>2, <2>5, <1>5 DEF FreshOK
    <3>4. FreshPaymentsSettleOnce'
      BY <3>2, <2>1, <2>5, <1>5, <1>l DEF IInv, FreshPaymentsSettleOnce
    <3> QED BY <3>3, <3>4, <2>1, <2>3, <1>1, <1>2, <1>3, <1>4, <1>l DEF IInv
  <2> QED BY <2>1, <2>4, <2>5
<1> QED BY <1>6, <1>7

-----------------------------------------------------------------------------
(* The invariant is inductive.                                             *)

LEMMA InitEstablishes == Init => IInv
<1> SUFFICES ASSUME Init PROVE IInv
  OBVIOUS
<1>1. Payments = {}
  BY DEF Init, Payments
<1>2. \A h \in Handlers : handler[h] \notin Creates /\ handler[h] \notin Writes
  BY CreateFields, WriteFields DEF Init
<1>3. TypeOK
  BY PaymentAssumption DEF Init, TypeOK
<1> QED BY <1>1, <1>2, <1>3 DEF IInv, HandlerOK, RowsByCreates, RetriesAreSafe,
                               FreshPaymentsSettleOnce

LEMMA StepPreserves == IInv /\ [Next]_vars => IInv'
<1> SUFFICES ASSUME IInv, [Next]_vars PROVE IInv'
  OBVIOUS
<1>1. CASE UNCHANGED vars
  BY <1>1 DEF vars, IInv, TypeOK, HandlerOK, RowsByCreates, RetriesAreSafe, FreshOK,
              FreshPaymentsSettleOnce, Succeeded, Refunded, Payments
<1>2. ASSUME NEW h \in Handlers, NEW key \in Keys \cup {h}, NEW o \in Orders,
             CreateCheck(h, key, o)
      PROVE  IInv'
  BY <1>2, CreateCheckPreserves
<1>3. ASSUME NEW h \in Handlers, NEW p \in Payments, NEW new \in {"success", "failed"},
             ProcessRead(h, p, new)
      PROVE  IInv'
  <2>1. PICK pc \in {"write", "done", "refused"} :
           /\ Read(h, "process", p, new, pc)
           /\ pc = "write" => row[p].status \notin {"success", "refunded"}
    BY <1>3 DEF ProcessRead
  <2> QED BY <2>1, ReadPreserves DEF Statuses
<1>4. ASSUME NEW h \in Handlers, NEW p \in Payments, NEW new \in WebhookStatuses,
             WebhookRead(h, p, new)
      PROVE  IInv'
  BY <1>4, ReadPreserves, PaymentAssumption DEF WebhookRead
<1>5. ASSUME NEW h \in Handlers, NEW p \in Payments, RefundRead(h, p)
      PROVE  IInv'
  <2>1. PICK pc \in {"write", "done", "refused"} :
           /\ Read(h, "refund", p, "refunded", pc)
           /\ pc = "write" => row[p].status = "success"
    BY <1>5 DEF RefundRead
  <2> QED BY <2>1, ReadPreserves DEF Statuses
<1>6. ASSUME NEW h \in Handlers, ProcessWrite(h) \/ WebhookWrite(h) \/ RefundWrite(h)
      PROVE  IInv'
  BY <1>6, CommitPreserves DEF ProcessWrite, WebhookWrite, RefundWrite
<1>7. ASSUME NEW h \in Handlers,
             CreateInsert(h) \/ CreateDuplicate(h) \/ ProcessHook(h) \/ Fail(h)
      PROVE  IInv'
  BY <1>7, CreateInsertPreserves, CreateDuplicatePreserves, ProcessHookPreserves, FailPreserves
<1> QED BY <1>1, <1>2, <1>3, <1>4, <1>5, <1>6, <1>7 DEF Next

\* The invariant holds of every run of the payment service (main.py:63-161).
THEOREM Inductive == Spec => []IInv
BY InitEstablishes, StepPreserves, PTL DEF Spec

\* The variables keep their types, for every set of requests, keys and orders.
THEOREM TypeCorrect == Spec => []TypeOK
<1>1. IInv => TypeOK
  BY DEF IInv
<1> QED BY <1>1, Inductive, PTL

\* However many requests are sent again under however many keys, and whatever
\* fails, there is one payment for a key and every answer names it
\* (main.py:65-91, models.py:15).
THEOREM RetriesSafe == Spec => []RetriesAreSafe
<1>1. IInv => RetriesAreSafe
  BY DEF IInv
<1> QED BY <1>1, Inductive, PTL

\* A payment whose every commit used the row as it stood, webhooks apart, is
\* charged once and refunded once, after the charge (main.py:97, 156).
THEOREM FreshSettleOnce == Spec => []FreshPaymentsSettleOnce
<1>1. IInv => FreshPaymentsSettleOnce
  BY DEF IInv
<1> QED BY <1>1, Inductive, PTL

-----------------------------------------------------------------------------
(* The outcome is told.                                                    *)

\* What one step does to the handler that takes it.
LEMMA HandlerSteps ==
    ASSUME IInv, [Next]_vars, ~ UNCHANGED vars
    PROVE  \E h \in Handlers :
              /\ \A k \in Handlers \ {h} : handler'[k] = handler[k]
              /\ \/ \E key \in Keys \cup {h}, o \in Orders : CreateCheck(h, key, o)
                 \/ CreateInsert(h) \/ CreateDuplicate(h)
                 \/ \E p \in Payments :
                       \/ \E new \in {"success", "failed"} : ProcessRead(h, p, new)
                       \/ \E new \in WebhookStatuses : WebhookRead(h, p, new)
                       \/ RefundRead(h, p)
                 \/ ProcessWrite(h) \/ ProcessHook(h) \/ WebhookWrite(h) \/ RefundWrite(h) \/ Fail(h)
<1>1. ASSUME NEW h \in Handlers, NEW r, handler' = [handler EXCEPT ![h] = r]
      PROVE  \A k \in Handlers \ {h} : handler'[k] = handler[k]
  BY <1>1 DEF IInv, TypeOK
<1>2. ASSUME NEW h \in Handlers, NEW x, handler' = [handler EXCEPT ![h].pc = x]
      PROVE  \A k \in Handlers \ {h} : handler'[k] = handler[k]
  BY <1>2 DEF IInv, TypeOK
<1>3. ASSUME NEW h \in Handlers, NEW pc, Commit(h, pc)
      PROVE  \A k \in Handlers \ {h} : handler'[k] = handler[k]
  BY <1>3 DEF IInv, TypeOK, Commit
<1>4. PICK h \in Handlers :
        \/ \E key \in Keys \cup {h}, o \in Orders : CreateCheck(h, key, o)
        \/ CreateInsert(h) \/ CreateDuplicate(h)
        \/ \E p \in Payments :
              \/ \E new \in {"success", "failed"} : ProcessRead(h, p, new)
              \/ \E new \in WebhookStatuses : WebhookRead(h, p, new)
              \/ RefundRead(h, p)
        \/ ProcessWrite(h) \/ ProcessHook(h) \/ WebhookWrite(h) \/ RefundWrite(h) \/ Fail(h)
  BY DEF Next
<1>5. \A k \in Handlers \ {h} : handler'[k] = handler[k]
  <2>1. CASE \/ \E key \in Keys \cup {h}, o \in Orders : CreateCheck(h, key, o)
             \/ \E p \in Payments :
                   \/ \E new \in {"success", "failed"} : ProcessRead(h, p, new)
                   \/ \E new \in WebhookStatuses : WebhookRead(h, p, new)
                   \/ RefundRead(h, p)
    BY <1>1, <2>1 DEF CreateCheck, ProcessRead, WebhookRead, RefundRead, Read
  <2>2. CASE CreateInsert(h) \/ CreateDuplicate(h) \/ ProcessHook(h) \/ Fail(h)
    BY <1>2, <2>2 DEF CreateInsert, CreateDuplicate, ProcessHook, Fail
  <2>3. CASE ProcessWrite(h) \/ WebhookWrite(h) \/ RefundWrite(h)
    BY <1>3, <2>3 DEF ProcessWrite, WebhookWrite, RefundWrite
  <2> QED BY <1>4, <2>1, <2>2, <2>3
<1> QED BY <1>4, <1>5

\* What the steps do to a payment that is there: only a commit changes its
\* status, and only a hook says a word to its order.
LEMMA PaymentSteps ==
    ASSUME IInv, [Next]_vars, NEW p \in Payments, p \notin hooked', faults' = 0
    PROVE  /\ p \notin hooked /\ faults = 0 /\ row'[p].order = row[p].order
           /\ Told(p) => Told(p)'
           /\ \A h \in Handlers : Telling(h, p) => Telling(h, p)' \/ Told(p)'
           /\ Settled(p)' => Settled(p) \/ \E h \in Handlers : Telling(h, p)'
<1>1. TypeOK /\ p \in Handlers /\ row[p] \in Rows /\ row[p].order \in Orders
  BY RowFields DEF IInv
<1>2. CASE UNCHANGED vars
  BY <1>2 DEF vars, Told, Telling, Settled, Refunding
<1>3. CASE ~ UNCHANGED vars
  <2>1. PICK h \in Handlers :
              /\ \A k \in Handlers \ {h} : handler'[k] = handler[k]
              /\ \/ \E key \in Keys \cup {h}, o \in Orders : CreateCheck(h, key, o)
                 \/ CreateInsert(h) \/ CreateDuplicate(h)
                 \/ \E q \in Payments :
                       \/ \E new \in {"success", "failed"} : ProcessRead(h, q, new)
                       \/ \E new \in WebhookStatuses : WebhookRead(h, q, new)
                       \/ RefundRead(h, q)
                 \/ ProcessWrite(h) \/ ProcessHook(h) \/ WebhookWrite(h) \/ RefundWrite(h) \/ Fail(h)
    BY <1>3, HandlerSteps
  <2>2. \A k \in Handlers \ {h} : /\ Telling(k, p) => Telling(k, p)'
                                  /\ Refunding(k, p)' => Refunding(k, p)
    BY <2>1 DEF Telling, Refunding
  <2>3. ASSUME row'[p] = row[p], told' = told, hooked' = hooked, faults' = faults, ~ Telling(h, p),
               Refunding(h, p)' => row[p].status = "success"
        PROVE  /\ p \notin hooked /\ faults = 0 /\ row'[p].order = row[p].order
               /\ Told(p) => Told(p)'
               /\ \A k \in Handlers : Telling(k, p) => Telling(k, p)' \/ Told(p)'
               /\ Settled(p)' => Settled(p) \/ \E k \in Handlers : Telling(k, p)'
    BY <2>2, <2>3 DEF Told, Settled
  <2>4. handler[h] = NoRequest => ~ Telling(h, p)
    BY WriteFields DEF Telling
  <2>5. CASE \E key \in Keys \cup {h}, o \in Orders : CreateCheck(h, key, o)
    <3>1. handler'[h] \in Creates
      <4>1. IInv'
        BY StepPreserves
      <4>2. handler'[h].op = "create"
        BY <1>1, <2>5 DEF CreateCheck, TypeOK
      <4>3. handler'[h] \in {NoRequest} \cup Creates \cup Writes
        BY <4>1 DEF IInv, TypeOK
      <4>4. handler'[h] # NoRequest
        BY <1>1, <2>5 DEF CreateCheck, TypeOK, NoRequest
      <4> QED BY <4>2, <4>3, <4>4, WriteFields
    <3>2. ~ Refunding(h, p)'
      BY <3>1, CreateFields DEF Refunding
    <3> QED BY <2>3, <2>4, <2>5, <3>2 DEF CreateCheck
  <2>6. CASE CreateInsert(h) \/ CreateDuplicate(h)
    <3>1. handler[h] \in Creates /\ handler[h].pc = "insert"
      BY <1>1, <2>6, KindOf DEF CreateInsert, CreateDuplicate
    <3>2. h # p
      BY <3>1 DEF IInv, HandlerOK, Payments
    <3>3. row'[p] = row[p] /\ told' = told /\ hooked' = hooked
      BY <1>1, <2>6, <3>2 DEF CreateInsert, CreateDuplicate, TypeOK
    <3>4. faults' = faults
      BY <1>1, <2>6 DEF CreateInsert, CreateDuplicate, Fault, TypeOK
    <3>5. ~ Telling(h, p)
      BY <3>1, CreateFields DEF Telling
    <3>6. handler'[h].pc \in {"done", "failed"}
      <4>1. \E x \in {"done", "failed"} : handler'[h] = [handler[h] EXCEPT !.pc = x]
        BY <1>1, <2>6 DEF CreateInsert, CreateDuplicate, TypeOK
      <4> QED BY <3>1, <4>1, CreateFields
    <3>7. ~ Refunding(h, p)'
      BY <3>6 DEF Refunding
    <3> QED BY <2>3, <3>3, <3>4, <3>5, <3>7
  <2>7. ASSUME NEW q \in Payments, NEW op \in {"process", "webhook", "refund"}, NEW new, NEW pc,
               Read(h, op, q, new, pc), op = "refund" /\ pc = "write" => row[q].status = "success"
        PROVE  /\ p \notin hooked /\ faults = 0 /\ row'[p].order = row[p].order
               /\ Told(p) => Told(p)'
               /\ \A k \in Handlers : Telling(k, p) => Telling(k, p)' \/ Told(p)'
               /\ Settled(p)' => Settled(p) \/ \E k \in Handlers : Telling(k, p)'
    <3>1. handler'[h].op = op /\ handler'[h].pc = pc /\ handler'[h].payment = q
      BY <1>1, <2>7 DEF Read, TypeOK
    <3>2. Refunding(h, p)' => row[p].status = "success"
      BY <2>7, <3>1 DEF Refunding
    <3> QED BY <2>3, <2>4, <2>7, <3>2 DEF Read
  <2>8. CASE \E q \in Payments :
                \/ \E new \in {"success", "failed"} : ProcessRead(h, q, new)
                \/ \E new \in WebhookStatuses : WebhookRead(h, q, new)
                \/ RefundRead(h, q)
    BY <2>7, <2>8 DEF ProcessRead, WebhookRead, RefundRead
  <2>9. ASSUME NEW pc \in {"hook", "done"}, Commit(h, pc), handler[h].pc = "write",
               handler[h].op = "process" <=> pc = "hook",
               hooked' = IF handler[h].op = "webhook" THEN hooked \cup {handler[h].payment} ELSE hooked
        PROVE  /\ p \notin hooked /\ faults = 0 /\ row'[p].order = row[p].order
               /\ Told(p) => Told(p)'
               /\ \A k \in Handlers : Telling(k, p) => Telling(k, p)' \/ Told(p)'
               /\ Settled(p)' => Settled(p) \/ \E k \in Handlers : Telling(k, p)'
    <3> PICK req \in Writes : req = handler[h]
      BY <1>1, <2>9, KindOf
    <3>1. /\ req.payment \in Handlers /\ req.new \in Statuses /\ req.op \in {"process", "webhook", "refund"}
          /\ req.op = "process" => req.new \in {"success", "failed"}
      BY <2>9, WriteFields DEF IInv, HandlerOK
    <3>2. /\ row' = [row EXCEPT ![req.payment] =
                  [row[req.payment] EXCEPT !.status =
                      IF req.new = req.prev THEN row[req.payment].status ELSE req.new]]
          /\ told' = told /\ faults' = faults
      BY <2>9 DEF Commit
    <3>3. /\ row'[p].order = row[p].order
          /\ row'[p].status = row[p].status \/ (p = req.payment /\ row'[p].status = req.new)
      <4>1. CASE p # req.payment
        <5>1. row'[p] = row[p]
          BY <1>1, <3>2, <4>1 DEF TypeOK
        <5> QED BY <5>1
      <4>2. CASE p = req.payment
        <5>1. row'[p] = [row[p] EXCEPT !.status = IF req.new = req.prev THEN row[p].status ELSE req.new]
          BY <1>1, <3>2, <4>2 DEF TypeOK
        <5> QED BY <1>1, <4>2, <5>1 DEF Rows
      <4> QED BY <4>1, <4>2
    <3>4. /\ handler'[h].pc = pc /\ handler'[h].payment = req.payment /\ handler'[h].new = req.new
          /\ handler'[h] \in Writes
      <4>1. handler'[h] = [req EXCEPT !.pc = pc, !.wrote = req.new]
        BY <1>1, <2>9 DEF Commit, TypeOK
      <4> QED BY <4>1, <3>1 DEF Writes, Ended
    <3>5. p \notin hooked /\ (req.op = "webhook" => p # req.payment)
      BY <2>9
    <3>6. ~ Telling(h, p) /\ ~ Refunding(h, p)'
      BY <2>9, <3>4 DEF Telling, Refunding
    <3>7. (Told(p) => Told(p)')
      BY <3>2, <3>3 DEF Told
    <3>8. Settled(p)' => Settled(p) \/ Telling(h, p)'
      <4>1. CASE row'[p].status = row[p].status
        BY <2>2, <3>6, <4>1 DEF Settled
      <4>2. CASE p = req.payment /\ row'[p].status = req.new /\ req.op = "process"
        <5>1. CASE req.new = "success"
          BY <2>9, <3>4, <4>2, <5>1 DEF Telling
        <5>2. CASE req.new = "failed"
          BY <2>2, <3>6, <4>2, <5>2 DEF Settled
        <5> QED BY <3>1, <4>2, <5>1, <5>2
      <4>3. CASE p = req.payment /\ req.op = "refund"
        BY <2>9, <4>3 DEF Settled, Refunding
      <4> QED BY <3>1, <3>3, <3>5, <4>1, <4>2, <4>3
    <3> QED BY <2>2, <3>2, <3>3, <3>5, <3>6, <3>7, <3>8
  <2>10. CASE ProcessWrite(h) \/ WebhookWrite(h) \/ RefundWrite(h)
    BY <2>9, <2>10 DEF ProcessWrite, WebhookWrite, RefundWrite
  <2>11. CASE ProcessHook(h)
    <3> PICK req \in Writes : req = handler[h]
      BY <1>1, <2>11, KindOf DEF ProcessHook
    <3>1. PICK outcome \in {"confirmed", "cancelled"} :
            /\ req.new = "success" => outcome = "confirmed"
            /\ told' = [told EXCEPT ![row[req.payment].order] = Append(@, outcome)]
      <4>1. ~ Fault
        BY <1>1 DEF Fault, TypeOK
      <4>2. told' = [told EXCEPT ![row[req.payment].order] =
                         Append(@, IF req.new = "success" THEN "confirmed" ELSE "cancelled")]
        BY <2>11, <4>1 DEF ProcessHook
      <4> QED BY <4>2
    <3>2. row' = row /\ hooked' = hooked /\ handler'[h].pc = "done"
      BY <1>1, <2>11 DEF ProcessHook, TypeOK
    <3>3. faults' = faults
      BY <1>1, <2>11 DEF ProcessHook, Fault, TypeOK
    <3>4. PICK o \in Orders : o = row[p].order
      BY <1>1
    <3>5. told[o] \in Seq({"confirmed", "cancelled"})
      BY <1>1 DEF TypeOK
    <3>6. Told(p) => Told(p)'
      <4>1. told'[o] = told[o] \/ told'[o] = Append(told[o], outcome)
        BY <1>1, <3>1 DEF TypeOK
      <4>2. \A i \in DOMAIN told[o] : i \in DOMAIN told'[o] /\ told'[o][i] = told[o][i]
        BY <3>5, <4>1
      <4> QED BY <3>2, <3>4, <4>2 DEF Told
    <3>7. Telling(h, p) => Told(p)'
      <4> SUFFICES ASSUME Telling(h, p) PROVE Told(p)'
        OBVIOUS
      <4>1. req.payment = p /\ outcome = "confirmed"
        BY <3>1 DEF Telling
      <4>2. told'[o] = Append(told[o], "confirmed")
        BY <1>1, <3>1, <3>4, <4>1 DEF TypeOK
      <4>3. Len(told[o]) + 1 \in DOMAIN told'[o] /\ told'[o][Len(told[o]) + 1] = "confirmed"
        BY <3>5, <4>2
      <4> QED BY <3>2, <3>4, <4>3 DEF Told
    <3>8. ~ Refunding(h, p)'
      BY <3>2 DEF Refunding
    <3>9. Settled(p)' => Settled(p)
      BY <2>2, <3>2, <3>8 DEF Settled
    <3> QED BY <2>2, <3>2, <3>3, <3>6, <3>7, <3>9
  <2>12. ~ Fail(h)
    BY <1>1 DEF Fail, Fault, TypeOK
  <2> QED BY <2>1, <2>5, <2>6, <2>8, <2>10, <2>11, <2>12
<1> QED BY <1>2, <1>3

LEMMA ToldPreserved ==
    ASSUME IInv, ToldInv, [Next]_vars
    PROVE  ToldInv'
<1> SUFFICES ASSUME faults' = 0, NEW p \in Payments' \ hooked', Settled(p)'
             PROVE  Told(p)' \/ \E h \in Handlers : Telling(h, p)'
  BY DEF ToldInv
<1>1. IInv'
  BY StepPreserves
<1>2. CASE p \in Payments
  BY <1>2, PaymentSteps DEF ToldInv
<1>3. CASE p \notin Payments
\* A new payment is pending, and nobody has read it yet.
  <2>1. CreateInsert(p) /\ handler[p] \in Creates /\ p \in Handlers
    <3>1. TypeOK /\ p \in Handlers /\ row[p] = NoRow /\ row'[p] # NoRow
      BY <1>3 DEF IInv, Payments
    <3>2. ASSUME NEW h \in Handlers, CreateInsert(h)
          PROVE  h = p
      BY <3>1, <3>2 DEF CreateInsert, TypeOK
    <3>3. ASSUME NEW h \in Handlers, NEW pc, Commit(h, pc), handler[h].pc = "write"
          PROVE  FALSE
      <4>1. handler[h].payment \in Payments
        BY <3>1, <3>3, KindOf DEF IInv, HandlerOK
      <4> QED BY <1>3, <3>1, <3>3, <4>1 DEF Commit, TypeOK, Payments
    <3>4. row' # row
      BY <3>1
    <3>5. \E h \in Handlers : CreateInsert(h)
      BY <3>3, <3>4 DEF Next, vars, CreateCheck, CreateDuplicate, ProcessRead, WebhookRead, RefundRead, Read,
                    ProcessWrite, WebhookWrite, RefundWrite, ProcessHook, Fail
    <3> QED BY <3>1, <3>2, <3>5, KindOf DEF CreateInsert
  <2>2. row'[p].status = "pending"
    <3>1. row' = [row EXCEPT ![p] = [key |-> handler[p].key, order |-> handler[p].order, status |-> "pending"]]
      BY <2>1 DEF CreateInsert
    <3> QED BY <2>1, <3>1 DEF IInv, TypeOK
  <2>3. ASSUME NEW h \in Handlers
        PROVE  ~ Refunding(h, p)'
    <3>1. CASE h = p
      <4>1. \E x \in {"done", "failed"} : handler'[p] = [handler[p] EXCEPT !.pc = x]
        BY <2>1 DEF CreateInsert, IInv, TypeOK
      <4>2. handler'[p].pc \in {"done", "failed"}
        BY <2>1, <4>1, CreateFields
      <4> QED BY <3>1, <4>2 DEF Refunding
    <3>2. CASE h # p
      <4>1. handler'[h] = handler[h]
        BY <2>1, <3>2 DEF CreateInsert, IInv, TypeOK
      <4>2. handler[h] \in Writes => handler[h].payment # p
        BY <1>3 DEF IInv, HandlerOK
      <4> QED BY <4>1, <4>2 DEF Refunding
    <3> QED BY <3>1, <3>2
  <2> QED BY <2>2, <2>3 DEF Settled
<1> QED BY <1>2, <1>3

\* Without a fault, once every handler has ended, the order of a payment that
\* stands at success has been told so, webhooks apart (main.py:108-115), for
\* any number of overlapping requests.
THEOREM OutcomesAreTold == Spec => []OutcomeIsTold
<1>1. Init => ToldInv
  BY DEF Init, ToldInv, Payments
<1>2. ToldInv => OutcomeIsTold
  <2> SUFFICES ASSUME ToldInv, faults = 0, \A h \in Handlers : handler[h].pc \notin Active,
                      NEW p \in Payments \ hooked, row[p].status \in {"success", "refunded"}
               PROVE  \E i \in DOMAIN told[row[p].order] : told[row[p].order][i] = "confirmed"
    BY DEF OutcomeIsTold
  <2>1. \A h \in Handlers : ~ Telling(h, p)
    BY DEF Telling, Active
  <2> QED BY <2>1 DEF ToldInv, Settled, Told
<1> QED BY <1>1, <1>2, ToldPreserved, Inductive, PTL DEF Spec
=============================================================================
