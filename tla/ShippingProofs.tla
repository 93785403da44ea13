--------------------------- MODULE ShippingProofs ---------------------------
(***************************************************************************)
(* Proofs about Shipping.tla, for every set of requests and orders and any *)
(* number of faults.                                                       *)
(***************************************************************************)
EXTENDS Shipping, DataLemmas, TLAPS

Rows == [order : Orders, status : Statuses, events : Seq(Statuses)]

Requests ==
    [pc : UpdateActive \cup {"done", "failed"}, shipment : Creates, status : Statuses,
     prev : Statuses, events : Seq(Statuses), put : {"none", "sent", "read", "done"},
     putPrev : OrderStatuses]

\* A create that has not inserted has no row; one that is done has its own.
CreateOK(s) ==
    /\ create[s].pc \in {"none", "insert"} => row[s] = NoRow
    /\ create[s].pc = "done" => s \in OfOrder(create[s].order)

\* An update is about a shipment that is there; only a status of the order is
\* sent to it; before that there is no request at the order service, and before
\* the commit, the events read are a part of what has been committed since.
UpdateOK(u) ==
    /\ update[u].shipment \in Shipments
    /\ update[u].pc \in {"write", "propagate"} => update[u].put = "none"
    /\ update[u].pc = "propagate" \/ update[u].put # "none" => update[u].status \in Propagated
    /\ update[u].pc = "write" => IsPartOf(update[u].events, log[update[u].shipment])

HistoryInv ==
    /\ TypeOK
    /\ \A s \in Creates : CreateOK(s)
    /\ \A s, t \in Shipments : row[s].order = row[t].order => s = t
    /\ \A u \in Updates : update[u] # NoRequest => UpdateOK(u)
    /\ EventsAreCommits
    /\ FreshHistoryIsComplete

-----------------------------------------------------------------------------
(* Sequences of which one is a part of the other.                          *)

\* An element added to the whole, or to both, leaves the one a part of the other.
LEMMA PartAppend ==
    ASSUME NEW S, NEW part \in Seq(S), NEW whole \in Seq(S), NEW x \in S, IsPartOf(part, whole)
    PROVE  /\ IsPartOf(part, Append(whole, x))
           /\ IsPartOf(Append(part, x), Append(whole, x))
<1>1. PICK at \in [DOMAIN part -> DOMAIN whole] :
          /\ \A i, j \in DOMAIN part : i < j => at[i] < at[j]
          /\ \A i \in DOMAIN part : part[i] = whole[at[i]]
  BY DEF IsPartOf
<1> DEFINE n == Len(part)
           m == Len(whole)
           W == Append(whole, x)
           P == Append(part, x)
<1>2. /\ n \in Nat /\ m \in Nat /\ DOMAIN part = 1 .. n /\ DOMAIN whole = 1 .. m
      /\ DOMAIN W = 1 .. m + 1 /\ DOMAIN P = 1 .. n + 1
      /\ W[m + 1] = x /\ P[n + 1] = x
      /\ \A i \in 1 .. m : W[i] = whole[i]
      /\ \A i \in 1 .. n : P[i] = part[i]
  OBVIOUS
<1> HIDE DEF n, m, W, P
<1>3. IsPartOf(part, W)
  <2>1. at \in [DOMAIN part -> DOMAIN W]
    BY <1>2
  <2>2. \A i \in DOMAIN part : part[i] = W[at[i]]
    BY <1>1, <1>2
  <2> QED BY <2>1, <2>2, <1>1 DEF IsPartOf
<1>4. IsPartOf(P, W)
  <2> DEFINE to == [i \in 1 .. n + 1 |-> IF i = n + 1 THEN m + 1 ELSE at[i]]
  <2>1. to \in [DOMAIN P -> DOMAIN W]
    BY <1>2
  <2>2. \A i, j \in DOMAIN P : i < j => to[i] < to[j]
    BY <1>1, <1>2
  <2>3. \A i \in DOMAIN P : P[i] = W[to[i]]
    BY <1>1, <1>2
  <2> HIDE DEF to
  <2> QED BY <2>1, <2>2, <2>3 DEF IsPartOf
<1> QED BY <1>3, <1>4 DEF W, P

LEMMA PartOfItself ==
    ASSUME NEW S, NEW s \in Seq(S)
    PROVE  IsPartOf(s, s)
<1>1. [i \in DOMAIN s |-> i] \in [DOMAIN s -> DOMAIN s]
  OBVIOUS
<1> QED BY <1>1 DEF IsPartOf

-----------------------------------------------------------------------------
(* Rows and requests are told apart from their absence.                    *)

LEMMA RowFields ==
    ASSUME TypeOK, NEW s \in Creates
    PROVE  /\ s \in Shipments => /\ row[s] \in Rows /\ row[s].order \in Orders
                                 /\ row[s].status \in Statuses /\ row[s].events \in Seq(Statuses)
           /\ log[s] \in Seq(Statuses)
BY DEF TypeOK, Shipments, Rows

LEMMA RowsAreRows ==
    ASSUME NEW r \in Rows
    PROVE  r # NoRow
BY DEF Rows, NoRow, Statuses

LEMMA UpdateFields ==
    ASSUME TypeOK, NEW u \in Updates
    PROVE  /\ update[u] # NoRequest <=> update[u] \in Requests
           /\ update[u].pc = "none" <=> update[u] = NoRequest
           /\ update[u] # NoRequest =>
                 /\ update[u].pc \in UpdateActive \cup {"done", "failed"}
                 /\ update[u].shipment \in Creates /\ update[u].status \in Statuses
                 /\ update[u].prev \in Statuses /\ update[u].events \in Seq(Statuses)
                 /\ update[u].put \in {"none", "sent", "read", "done"}
                 /\ update[u].putPrev \in OrderStatuses
BY DEF TypeOK, Requests, NoRequest, UpdateActive

LEMMA RequestsAreRequests ==
    ASSUME NEW r \in Requests
    PROVE  r # NoRequest
BY DEF Requests, NoRequest, UpdateActive

LEMMA CreateFields ==
    ASSUME TypeOK, NEW s \in Creates
    PROVE  /\ create[s].pc = "none" <=> create[s] = NoRequest
           /\ create[s] # NoRequest =>
                 create[s].order \in Orders /\ create[s].pc \in {"insert", "done", "refused", "failed"}
<1>1. create[s] \in {NoRequest} \cup [pc : {"insert", "done", "refused", "failed"}, order : Orders]
  BY DEF TypeOK
<1> QED BY <1>1 DEF NoRequest

-----------------------------------------------------------------------------
(* Types.                                                                  *)

CallStep(u) == SendPut(u) \/ AwaitPut(u) \/ FailUpdate(u) \/ PutRead(u) \/ PutWrite(u)

\* What a step of the call to the order service makes of the request.
LEMMA CallStepRequest ==
    ASSUME TypeOK, NEW u \in Updates, CallStep(u), update[u] # NoRequest => UpdateOK(u)
    PROVE  /\ update[u] \in Requests /\ update[u] # NoRequest
           /\ \A v \in Updates \ {u} : update'[v] = update[v]
           /\ update'[u] \in Requests /\ update'[u] # NoRequest
           /\ update' = [update EXCEPT ![u] = update'[u]]
           /\ update'[u].shipment = update[u].shipment /\ update'[u].status = update[u].status
           /\ update'[u].events = update[u].events
           /\ UNCHANGED <<row, create, cancel, log, stale, overlapped>>
<1>1. update[u] \in Requests /\ update[u] # NoRequest
  BY UpdateFields DEF CallStep, SendPut, AwaitPut, FailUpdate, PutRead, PutWrite, UpdateActive, NoRequest
<1>2. UNCHANGED <<row, create, cancel, log, stale, overlapped>>
  BY DEF CallStep, SendPut, AwaitPut, FailUpdate, PutRead, PutWrite
<1>3. ASSUME NEW r \in Requests, update' = [update EXCEPT ![u] = r],
             r.shipment = update[u].shipment, r.status = update[u].status, r.events = update[u].events
      PROVE  /\ \A v \in Updates \ {u} : update'[v] = update[v]
             /\ update'[u] \in Requests /\ update'[u] # NoRequest
             /\ update' = [update EXCEPT ![u] = update'[u]]
             /\ update'[u].shipment = update[u].shipment /\ update'[u].status = update[u].status
             /\ update'[u].events = update[u].events
  BY <1>3, RequestsAreRequests DEF TypeOK
<1>4. \E r \in Requests :
          /\ update' = [update EXCEPT ![u] = r]
          /\ r.shipment = update[u].shipment /\ r.status = update[u].status
          /\ r.events = update[u].events
  <2>1. CASE SendPut(u)
    <3>1. \/ update' = [update EXCEPT ![u] = [update[u] EXCEPT !.pc = "await", !.put = "sent"]]
          \/ update' = [update EXCEPT ![u] = [update[u] EXCEPT !.pc = "done"]]
      BY <2>1 DEF SendPut, TypeOK
    <3>2. /\ [update[u] EXCEPT !.pc = "await", !.put = "sent"] \in Requests
          /\ [update[u] EXCEPT !.pc = "done"] \in Requests
      BY <1>1 DEF Requests, UpdateActive
    <3> QED BY <1>1, <3>1, <3>2 DEF Requests
  <2>2. CASE AwaitPut(u) \/ FailUpdate(u)
    <3>1. \/ update' = [update EXCEPT ![u] = [update[u] EXCEPT !.pc = "failed"]]
          \/ update' = [update EXCEPT ![u] = [update[u] EXCEPT !.pc = "done"]]
      BY <2>2 DEF AwaitPut, FailUpdate, TypeOK
    <3>2. /\ [update[u] EXCEPT !.pc = "failed"] \in Requests
          /\ [update[u] EXCEPT !.pc = "done"] \in Requests
      BY <1>1 DEF Requests, UpdateActive
    <3> QED BY <1>1, <3>1, <3>2 DEF Requests
  <2>3. CASE PutRead(u)
    <3> DEFINE seen == order[row[update[u].shipment].order]
    <3>1. update' = [update EXCEPT ![u] = [update[u] EXCEPT !.put = "read", !.putPrev = seen]]
      BY <2>3 DEF PutRead, TypeOK
    <3>2. row[update[u].shipment].order \in Orders
      BY <1>1, UpdateFields, RowFields DEF UpdateOK
    <3>3. seen \in OrderStatuses
      BY <3>2 DEF TypeOK
    <3> HIDE DEF seen
    <3>4. [update[u] EXCEPT !.put = "read", !.putPrev = seen] \in Requests
      BY <1>1, <3>3 DEF Requests
    <3> QED BY <1>1, <3>1, <3>4 DEF Requests
  <2>4. CASE PutWrite(u)
    <3>1. update' = [update EXCEPT ![u] = [update[u] EXCEPT !.put = "done"]]
      BY <2>4 DEF PutWrite, TypeOK
    <3>2. [update[u] EXCEPT !.put = "done"] \in Requests
      BY <1>1 DEF Requests
    <3> QED BY <1>1, <3>1, <3>2 DEF Requests
  <2> QED BY <2>1, <2>2, <2>3, <2>4 DEF CallStep
<1> QED BY <1>1, <1>2, <1>3, <1>4

LEMMA TypePreserved ==
    ASSUME TypeOK, \A u \in Updates : update[u] # NoRequest => UpdateOK(u), [Next]_vars
    PROVE  TypeOK'
<1> USE ShippingAssumption
<1>1. ASSUME NEW s \in Creates, NEW o \in Orders, CreateCheck(s, o)
      PROVE  TypeOK'
  <2> DEFINE r == [pc |-> IF OfOrder(o) = {} THEN "insert" ELSE "refused", order |-> o]
  <2>1. r \in [pc : {"insert", "done", "refused", "failed"}, order : Orders]
    OBVIOUS
  <2>2. create' = [create EXCEPT ![s] = r]
    BY <1>1 DEF CreateCheck
  <2> HIDE DEF r
  <2> QED BY <1>1, <2>1, <2>2 DEF CreateCheck, TypeOK
<1>2. ASSUME NEW s \in Creates, CreateInsert(s)
      PROVE  TypeOK'
  <2>1. create[s] \in [pc : {"insert", "done", "refused", "failed"}, order : Orders]
    BY <1>2, CreateFields DEF CreateInsert, TypeOK, NoRequest
  <2> DEFINE r == [order |-> create[s].order, status |-> "pending", events |-> <<"pending">>]
  <2>2. r \in Rows /\ <<"pending">> \in Seq(Statuses)
    BY <2>1 DEF Rows, Statuses
  <2>3. row' = [row EXCEPT ![s] = r]
    BY <1>2 DEF CreateInsert
  <2> HIDE DEF r
  <2>4. row' \in [Creates -> {NoRow} \cup Rows] /\ log' \in [Creates -> Seq(Statuses)]
    BY <1>2, <2>2, <2>3 DEF CreateInsert, TypeOK, Rows
  <2>5. create' \in [Creates -> {NoRequest} \cup
            [pc : {"insert", "done", "refused", "failed"}, order : Orders]]
    <3>1. \E x \in {"done", "failed"} : create' = [create EXCEPT ![s] = [create[s] EXCEPT !.pc = x]]
      BY <1>2 DEF CreateInsert, TypeOK
    <3>2. \A x \in {"done", "failed"} :
              [create[s] EXCEPT !.pc = x] \in [pc : {"insert", "done", "refused", "failed"}, order : Orders]
      BY <2>1
    <3> QED BY <3>1, <3>2 DEF TypeOK
  <2> QED BY <1>2, <2>4, <2>5 DEF CreateInsert, TypeOK, Fault, Rows
<1>3. ASSUME NEW s \in Creates, CreateFails(s)
      PROVE  TypeOK'
  <2>1. create[s] \in [pc : {"insert", "done", "refused", "failed"}, order : Orders]
    BY <1>3, CreateFields DEF CreateFails, TypeOK, NoRequest
  <2>2. create' = [create EXCEPT ![s].pc = "failed"] /\ UNCHANGED <<row, order, update, cancel, log, stale, overlapped>>
        /\ (UNCHANGED faults \/ Fault)
    BY <1>3 DEF CreateFails
  <2>3. create' \in [Creates -> {NoRequest} \cup
            [pc : {"insert", "done", "refused", "failed"}, order : Orders]]
    BY <2>1, <2>2 DEF TypeOK
  <2>4. faults' \in 0 .. MaxFaults
    BY <2>2 DEF TypeOK, Fault
  <2> QED BY <2>2, <2>3, <2>4 DEF TypeOK
<1>4. ASSUME NEW u \in Updates, NEW s \in Shipments, NEW st \in UpdateStatuses, UpdateRead(u, s, st)
      PROVE  TypeOK'
  <2> DEFINE r == [pc |-> "write", shipment |-> s, status |-> st, prev |-> row[s].status,
                   events |-> row[s].events, put |-> "none", putPrev |-> "confirmed"]
  <2>1. s \in Creates
    BY DEF Shipments
  <2>2. r \in Requests
    BY <2>1, RowFields DEF Requests, UpdateActive, OrderStatuses
  <2>3. update' = [update EXCEPT ![u] = r]
    BY <1>4 DEF UpdateRead
  <2> HIDE DEF r
  <2> QED BY <1>4, <2>1, <2>2, <2>3 DEF UpdateRead, TypeOK, Requests
<1>5. ASSUME NEW u \in Updates, NEW r \in Requests, update' = [update EXCEPT ![u] = r],
             UNCHANGED <<row, create, cancel, log, stale, overlapped>>,
             order' \in [Orders -> OrderStatuses], faults' \in 0 .. MaxFaults
      PROVE  TypeOK'
  BY <1>5 DEF TypeOK, Requests
<1>6. ASSUME NEW u \in Updates, UpdateWrite(u)
      PROVE  TypeOK'
  <2> DEFINE s == update[u].shipment
             e == Append(update[u].events, update[u].status)
             st == IF update[u].status = update[u].prev THEN row[s].status ELSE update[u].status
  <2>1. update[u] # NoRequest /\ update[u].pc = "write"
    BY <1>6 DEF UpdateWrite, Commit, NoRequest
  <2>2. update[u] \in Requests /\ s \in Shipments /\ s \in Creates /\ e \in Seq(Statuses)
    BY <2>1, UpdateFields DEF UpdateOK
  <2>3. row[s] \in Rows /\ st \in Statuses
    BY <2>1, <2>2, RowFields, UpdateFields
  <2>4. [row[s] EXCEPT !.status = st, !.events = e] \in Rows
    BY <2>2, <2>3 DEF Rows
  <2>5. row' = [row EXCEPT ![s] = [row[s] EXCEPT !.status = st, !.events = e]]
    BY <1>6, <2>2 DEF UpdateWrite, Commit, TypeOK
  <2>6. [update[u] EXCEPT !.pc = AfterCommit(u)] \in Requests
    BY <2>2 DEF AfterCommit, Requests, UpdateActive
  <2>7. update' = [update EXCEPT ![u] = [update[u] EXCEPT !.pc = AfterCommit(u)]]
    BY <1>6 DEF UpdateWrite, Commit, TypeOK
  <2>8. log' = [log EXCEPT ![s] = Append(@, update[u].status)] /\ Append(log[s], update[u].status) \in Seq(Statuses)
    BY <1>6, <2>1, <2>2, UpdateFields, RowFields DEF UpdateWrite, Commit
  <2>9. UNCHANGED <<order, create, cancel, overlapped, faults>> /\ stale' \subseteq Creates
    BY <1>6, <2>2 DEF UpdateWrite, Commit, TypeOK
  <2> HIDE DEF s, e, st
  <2>10. row' \in [Creates -> {NoRow} \cup Rows]
    BY <2>2, <2>4, <2>5 DEF TypeOK, Rows
  <2>11. update' \in [Updates -> {NoRequest} \cup Requests]
    BY <2>6, <2>7 DEF TypeOK, Requests
  <2>12. log' \in [Creates -> Seq(Statuses)]
    BY <2>2, <2>8 DEF TypeOK
  <2> QED BY <2>9, <2>10, <2>11, <2>12 DEF TypeOK, Rows, Requests
<1>7. ASSUME NEW u \in Updates, CallStep(u)
      PROVE  TypeOK'
  <2>1. /\ update[u] \in Requests /\ UpdateOK(u) /\ update'[u] \in Requests
        /\ update' = [update EXCEPT ![u] = update'[u]]
        /\ UNCHANGED <<row, create, cancel, log, stale, overlapped>>
    BY <1>7, CallStepRequest
  <2>2. faults' \in 0 .. MaxFaults
    BY <1>7 DEF CallStep, SendPut, AwaitPut, FailUpdate, PutRead, PutWrite, Fault, TypeOK
  <2>3. order' \in [Orders -> OrderStatuses]
    <3>1. CASE PutWrite(u)
      <4>1. update[u].status \in OrderStatuses
        BY <2>1, <3>1 DEF UpdateOK, PutWrite, OrderStatuses, Propagated
      <4> QED BY <3>1, <4>1 DEF PutWrite, TypeOK
    <3> QED BY <1>7, <3>1 DEF CallStep, SendPut, AwaitPut, FailUpdate, PutRead, TypeOK
  <2> QED BY <1>5, <2>1, <2>2, <2>3
<1>8. ASSUME NEW d \in Cancels, NEW o \in Orders, CancelRead(d, o)
      PROVE  TypeOK'
  <2> DEFINE r == [pc |-> IF order[o] \in {"shipped", "delivered"} THEN "refused" ELSE "write",
                   order |-> o, prev |-> order[o]]
  <2>1. r \in [pc : {"write", "done", "refused"}, order : Orders, prev : OrderStatuses]
    BY DEF TypeOK
  <2>2. cancel' = [cancel EXCEPT ![d] = r]
    BY <1>8 DEF CancelRead
  <2> HIDE DEF r
  <2> QED BY <1>8, <2>1, <2>2 DEF CancelRead, TypeOK
<1>9. ASSUME NEW d \in Cancels, CancelWrite(d)
      PROVE  TypeOK'
  <2>1. cancel[d] \in [pc : {"write", "done", "refused"}, order : Orders, prev : OrderStatuses]
    BY <1>9 DEF CancelWrite, TypeOK, NoRequest
  <2>2. [cancel[d] EXCEPT !.pc = "done"] \in [pc : {"write", "done", "refused"}, order : Orders, prev : OrderStatuses]
    BY <2>1
  <2>3. cancel' = [cancel EXCEPT ![d] = [cancel[d] EXCEPT !.pc = "done"]]
    BY <1>9 DEF CancelWrite, TypeOK
  <2>4. order' \in [Orders -> OrderStatuses]
    BY <1>9, <2>1 DEF CancelWrite, TypeOK, OrderStatuses
  <2> QED BY <1>9, <2>2, <2>3, <2>4 DEF CancelWrite, TypeOK
<1>10. CASE UNCHANGED vars
  BY <1>10 DEF vars, TypeOK
<1> QED BY <1>1, <1>2, <1>3, <1>4, <1>6, <1>7, <1>8, <1>9, <1>10 DEF Next, CallStep

-----------------------------------------------------------------------------
(* The table and its history.                                              *)

\* A step that leaves the table and its history alone.
LEMMA QuietHistory ==
    ASSUME HistoryInv, TypeOK', UNCHANGED <<row, log, stale>>,
           \A s \in Creates : CreateOK(s)',
           \A u \in Updates : update'[u] # NoRequest => UpdateOK(u)'
    PROVE  HistoryInv'
<1>1. Shipments' = Shipments
  BY DEF Shipments
<1>2. EventsAreCommits' /\ FreshHistoryIsComplete'
  BY <1>1 DEF HistoryInv, EventsAreCommits, FreshHistoryIsComplete
<1> QED BY <1>1, <1>2 DEF HistoryInv

\* With the table and its history, requests that are left alone stay in order.
LEMMA QuietRequests ==
    ASSUME HistoryInv, UNCHANGED <<row, log>>
    PROVE  /\ create' = create => \A s \in Creates : CreateOK(s)'
           /\ \A u \in Updates : update'[u] = update[u] /\ update[u] # NoRequest => UpdateOK(u)'
<1>1. Shipments' = Shipments
  BY DEF Shipments
<1> QED BY <1>1 DEF HistoryInv, CreateOK, UpdateOK, OfOrder

LEMMA CreateCheckHistory ==
    ASSUME HistoryInv, TypeOK', NEW s \in Creates, NEW o \in Orders,
           CreateCheck(s, o) \/ CreateFails(s)
    PROVE  HistoryInv'
<1>1. UNCHANGED <<row, log, stale, update>> /\ Shipments' = Shipments
  BY DEF CreateCheck, CreateFails, Shipments
<1>2. create \in [Creates -> {NoRequest} \cup
          [pc : {"insert", "done", "refused", "failed"}, order : Orders]]
  BY DEF HistoryInv, TypeOK
<1>3. ASSUME NEW t \in Creates
      PROVE  CreateOK(t)'
  <2>1. CreateOK(t)
    BY DEF HistoryInv
  <2>2. CASE t # s
    <3>1. create'[t] = create[t]
      BY <1>2, <2>2 DEF CreateCheck, CreateFails
    <3> QED BY <1>1, <2>1, <3>1 DEF CreateOK, OfOrder
  <2>3. CASE t = s
    <3>1. create[s].pc \in {"none", "insert"}
      BY DEF CreateCheck, CreateFails, NoRequest
    <3>2. create'[s].pc # "done"
      <4>1. CASE CreateCheck(s, o)
        BY <1>2, <4>1 DEF CreateCheck
      <4>2. CASE CreateFails(s)
        <5>1. create[s] \in [pc : {"insert", "done", "refused", "failed"}, order : Orders]
          BY <1>2, <4>2 DEF CreateFails, NoRequest
        <5>2. create' = [create EXCEPT ![s] = [create[s] EXCEPT !.pc = "failed"]]
          BY <1>2, <4>2 DEF CreateFails
        <5> QED BY <1>2, <5>1, <5>2
      <4> QED BY <4>1, <4>2
    <3> QED BY <1>1, <2>1, <2>3, <3>1, <3>2 DEF CreateOK
  <2> QED BY <2>2, <2>3
<1>4. \A u \in Updates : update'[u] # NoRequest => UpdateOK(u)'
  BY <1>1, QuietRequests
<1> QED BY <1>1, <1>3, <1>4, QuietHistory

LEMMA CreateInsertHistory ==
    ASSUME HistoryInv, TypeOK', NEW s \in Creates, CreateInsert(s)
    PROVE  HistoryInv'
<1> DEFINE o == create[s].order
           r == [order |-> o, status |-> "pending", events |-> <<"pending">>]
<1>1. /\ row[s] = NoRow /\ o \in Orders /\ s \notin Shipments
      /\ create[s] # NoRequest
  BY CreateFields DEF HistoryInv, CreateOK, CreateInsert, Shipments, NoRequest
<1>2. r # NoRow /\ r.order = o /\ r.status = "pending" /\ r.events = <<"pending">>
  BY DEF NoRow
<1>3. /\ row'[s] = r /\ \A t \in Creates \ {s} : row'[t] = row[t]
      /\ log'[s] = <<"pending">> /\ \A t \in Creates \ {s} : log'[t] = log[t]
      /\ \A t \in Creates \ {s} : create'[t] = create[t]
      /\ create'[s].pc \in {"done", "failed"} /\ create'[s].order = o
      /\ update' = update /\ stale' = stale
  BY <1>1 DEF CreateInsert, HistoryInv, TypeOK
<1> HIDE DEF r
<1>4. Shipments' = Shipments \cup {s}
  BY <1>2, <1>3 DEF Shipments
<1>5. ASSUME NEW t \in Creates
      PROVE  CreateOK(t)'
  <2>1. CASE t = s
    BY <2>1, <1>2, <1>3, <1>4 DEF CreateOK, OfOrder
  <2>2. CASE t # s
    BY <2>2, <1>3, <1>4 DEF HistoryInv, CreateOK, OfOrder
  <2> QED BY <2>1, <2>2
<1>6. \A t, q \in Shipments' : row'[t].order = row'[q].order => t = q
  <2>1. \A t \in Shipments : row[t].order # o
    BY DEF CreateInsert, OfOrder
  <2> QED BY <1>1, <1>2, <1>3, <1>4, <2>1 DEF HistoryInv, Shipments
<1>7. ASSUME NEW u \in Updates, update'[u] # NoRequest
      PROVE  UpdateOK(u)'
  <2>1. UpdateOK(u) /\ update[u].shipment # s /\ update[u].shipment \in Creates
    BY <1>1, <1>3, <1>7 DEF HistoryInv, UpdateOK, Shipments
  <2> QED BY <1>3, <1>4, <2>1 DEF UpdateOK
<1>8. EventsAreCommits'
  <2>1. IsPartOf(<<"pending">>, <<"pending">>)
    <3>1. <<"pending">> \in Seq({"pending"})
      OBVIOUS
    <3> QED BY <3>1, PartOfItself
  <2>2. ASSUME NEW t \in Shipments, t # s
        PROVE  Last(row'[t].events) = Last(log'[t]) /\ IsPartOf(row'[t].events, log'[t])
    BY <2>2, <1>3 DEF HistoryInv, EventsAreCommits, Shipments
  <2> QED BY <1>1, <1>2, <1>3, <1>4, <2>1, <2>2 DEF EventsAreCommits
<1>9. FreshHistoryIsComplete'
  <2>1. Last(<<"pending">>) = "pending"
    BY DEF Last
  <2>2. ASSUME NEW t \in Shipments \ stale, t # s
        PROVE  row'[t].events = log'[t] /\ row'[t].status = Last(log'[t])
    BY <2>2, <1>3 DEF HistoryInv, FreshHistoryIsComplete, Shipments
  <2> QED BY <1>1, <1>2, <1>3, <1>4, <2>1, <2>2 DEF FreshHistoryIsComplete
<1> QED BY <1>5, <1>6, <1>7, <1>8, <1>9 DEF HistoryInv


\* A commit of an update.
LEMMA UpdateWriteHistory ==
    ASSUME HistoryInv, TypeOK', NEW u \in Updates, UpdateWrite(u)
    PROVE  HistoryInv'
<1> DEFINE s == update[u].shipment
           st == update[u].status
           e == Append(update[u].events, st)
           now == IF st = update[u].prev THEN row[s].status ELSE st
<1>1. update[u] # NoRequest /\ update[u] \in Requests /\ update[u].pc = "write" /\ UpdateOK(u)
  BY UpdateFields DEF HistoryInv, UpdateWrite, Commit, NoRequest
<1>2. /\ s \in Shipments /\ s \in Creates /\ st \in Statuses /\ update[u].events \in Seq(Statuses)
      /\ row[s] \in Rows /\ row[s].events \in Seq(Statuses) /\ log[s] \in Seq(Statuses)
  BY <1>1, UpdateFields, RowFields DEF HistoryInv, UpdateOK
<1>3. /\ row'[s] = [row[s] EXCEPT !.status = now, !.events = e]
      /\ \A t \in Creates \ {s} : row'[t] = row[t]
      /\ log'[s] = Append(log[s], st)
      /\ \A t \in Creates \ {s} : log'[t] = log[t]
      /\ create' = create
  <2>1. s \in DOMAIN row /\ s \in DOMAIN log /\ DOMAIN row = Creates /\ DOMAIN log = Creates
    BY <1>2 DEF HistoryInv, TypeOK
  <2>2. /\ row' = [row EXCEPT ![s].status = now, ![s].events = e]
        /\ log' = [log EXCEPT ![s] = Append(@, st)] /\ create' = create
    BY DEF UpdateWrite, Commit
  <2> HIDE DEF s, st, e, now
  <2>3. row'[s] = [row[s] EXCEPT !.status = now, !.events = e] /\ \A t \in Creates \ {s} : row'[t] = row[t]
    BY <2>1, <2>2
  <2>4. log'[s] = Append(log[s], st) /\ \A t \in Creates \ {s} : log'[t] = log[t]
    BY <2>1, <2>2
  <2>5. QED
    BY <2>2, <2>3, <2>4
<1>4. /\ update'[u] = [update[u] EXCEPT !.pc = AfterCommit(u)]
      /\ \A v \in Updates \ {u} : update'[v] = update[v]
  BY DEF UpdateWrite, Commit, HistoryInv, TypeOK
<1>5. /\ stale \subseteq stale'
      /\ s \notin stale' => row[s].events = update[u].events /\ row[s].status = update[u].prev
  BY DEF UpdateWrite, Commit
<1>6. row'[s].order = row[s].order /\ row'[s].status = now /\ row'[s].events = e /\ row'[s] \in Rows
  <2>1. now \in Statuses /\ e \in Seq(Statuses)
    BY <1>2, RowFields DEF HistoryInv
  <2> QED BY <1>2, <1>3, <2>1 DEF Rows
<1>7. Shipments' = Shipments
  BY <1>2, <1>3, <1>6, RowsAreRows DEF Shipments
<1> HIDE DEF s, st, e, now
<1>8. \A t \in Creates : CreateOK(t)'
  BY <1>2, <1>3, <1>6, <1>7, RowsAreRows DEF HistoryInv, CreateOK, OfOrder
<1>9. \A t, q \in Shipments' : row'[t].order = row'[q].order => t = q
  <2>1. \A t \in Shipments : row'[t].order = row[t].order
    BY <1>3, <1>6 DEF Shipments
  <2> QED BY <2>1, <1>7 DEF HistoryInv
<1>10. ASSUME NEW v \in Updates, update'[v] # NoRequest
       PROVE  UpdateOK(v)'
  <2>1. CASE v = u
    <3>1. /\ update'[u].pc = AfterCommit(u) /\ update'[u].shipment = s
          /\ update'[u].put = "none" /\ update'[u].status = st
      BY <1>1, <1>4 DEF Requests, UpdateOK, s, st
    <3>2. AfterCommit(u) = "propagate" => st \in Propagated
      BY DEF AfterCommit, st
    <3>3. AfterCommit(u) # "write"
      BY DEF AfterCommit
    <3> QED BY <2>1, <3>1, <3>2, <3>3, <1>2, <1>7 DEF UpdateOK
  <2>2. CASE v # u
    <3>1. update'[v] = update[v] /\ UpdateOK(v)
      BY <1>4, <1>10, <2>2 DEF HistoryInv
    <3>2. CASE update[v].pc = "write" /\ update[v].shipment = s
      <4>1. update[v].events \in Seq(Statuses) /\ IsPartOf(update[v].events, log[s])
        BY <3>1, <3>2, <1>10, UpdateFields DEF HistoryInv, UpdateOK
      <4>2. IsPartOf(update[v].events, log'[s])
        BY <4>1, <1>2, <1>3, PartAppend
      <4> QED BY <3>1, <3>2, <4>2, <1>7 DEF UpdateOK
    <3>3. CASE ~(update[v].pc = "write" /\ update[v].shipment = s)
      BY <3>1, <3>3, <1>3, <1>7 DEF UpdateOK, Shipments
    <3> QED BY <3>2, <3>3
  <2> QED BY <2>1, <2>2
<1>11. EventsAreCommits'
  <2>1. Last(e) = st /\ Last(log'[s]) = st
    BY <1>2, <1>3 DEF Last, e, st
  <2>2. IsPartOf(e, log'[s])
    BY <1>1, <1>2, <1>3, PartAppend DEF UpdateOK, e, st, s
  <2> QED BY <2>1, <2>2, <1>3, <1>6, <1>7 DEF HistoryInv, EventsAreCommits, Shipments
<1>12. FreshHistoryIsComplete'
  <2>1. ASSUME s \notin stale'
        PROVE  row'[s].events = log'[s] /\ row'[s].status = Last(log'[s])
    <3>1. row[s].events = log[s] /\ update[u].events = log[s] /\ row[s].status = update[u].prev
      BY <2>1, <1>2, <1>5 DEF HistoryInv, FreshHistoryIsComplete
    <3>2. Last(log'[s]) = st /\ now = st
      BY <1>2, <1>3, <3>1 DEF Last, now, st
    <3> QED BY <3>1, <3>2, <1>3, <1>6 DEF e, st
  <2> QED BY <2>1, <1>3, <1>5, <1>7 DEF HistoryInv, FreshHistoryIsComplete, Shipments
<1> QED BY <1>8, <1>9, <1>10, <1>11, <1>12 DEF HistoryInv


LEMMA UpdateReadHistory ==
    ASSUME HistoryInv, TypeOK', NEW u \in Updates, NEW s \in Shipments, NEW st \in UpdateStatuses,
           UpdateRead(u, s, st)
    PROVE  HistoryInv'
<1>1. UNCHANGED <<row, log, stale, create>> /\ Shipments' = Shipments
  BY DEF UpdateRead, Shipments
<1>2. /\ \A v \in Updates \ {u} : update'[v] = update[v]
      /\ update'[u].shipment = s /\ update'[u].pc = "write" /\ update'[u].put = "none"
      /\ update'[u].events = row[s].events
  BY DEF UpdateRead, HistoryInv, TypeOK
<1>3. UpdateOK(u)'
  <2>1. IsPartOf(row[s].events, log[s])
    BY DEF HistoryInv, EventsAreCommits
  <2> QED BY <1>1, <1>2, <2>1 DEF UpdateOK
<1>4. \A v \in Updates \ {u} : update'[v] # NoRequest => UpdateOK(v)'
  BY <1>1, <1>2, QuietRequests
<1> QED BY <1>1, <1>3, <1>4, QuietHistory, QuietRequests

LEMMA CallStepHistory ==
    ASSUME HistoryInv, TypeOK', NEW u \in Updates, CallStep(u)
    PROVE  HistoryInv'
<1>1. update[u] # NoRequest => UpdateOK(u)
  BY DEF HistoryInv
<1>2. /\ update[u] \in Requests /\ update[u] # NoRequest
      /\ \A v \in Updates \ {u} : update'[v] = update[v]
      /\ update'[u] \in Requests /\ update'[u] # NoRequest
      /\ update'[u].shipment = update[u].shipment /\ update'[u].status = update[u].status
      /\ update'[u].events = update[u].events
      /\ UNCHANGED <<row, create, cancel, log, stale, overlapped>>
  BY <1>1, CallStepRequest DEF HistoryInv
<1>3. Shipments' = Shipments
  BY <1>2 DEF Shipments
<1>4. UpdateOK(u)'
  <2>1. /\ \/ update'[u].pc \notin {"write", "propagate"}
           \/ update'[u].pc = update[u].pc /\ update'[u].put = update[u].put
        /\ update'[u].put # "none" => update[u].pc = "propagate" \/ update[u].put # "none"
    BY <1>1, <1>2 DEF CallStep, SendPut, AwaitPut, FailUpdate, PutRead, PutWrite, UpdateOK,
                      HistoryInv, TypeOK
  <2> QED BY <1>1, <1>2, <1>3, <2>1 DEF UpdateOK
<1>5. \A v \in Updates \ {u} : update'[v] # NoRequest => UpdateOK(v)'
  BY <1>2, QuietRequests
<1> QED BY <1>2, <1>4, <1>5, QuietHistory, QuietRequests

LEMMA HistoryPreserved ==
    ASSUME HistoryInv, [Next]_vars
    PROVE  HistoryInv'
<1>1. TypeOK'
  BY TypePreserved DEF HistoryInv
<1>2. CASE \E s \in Creates : (\E o \in Orders : CreateCheck(s, o)) \/ CreateInsert(s) \/ CreateFails(s)
  <2>1. PICK s \in Creates : (\E o \in Orders : CreateCheck(s, o)) \/ CreateInsert(s) \/ CreateFails(s)
    BY <1>2
  <2>2. CASE CreateFails(s)
    <3>1. create[s].order \in Orders
      BY <2>2, CreateFields DEF HistoryInv, CreateFails, NoRequest
    <3> QED BY <1>1, <2>2, <3>1, CreateCheckHistory
  <2> QED BY <1>1, <2>1, <2>2, CreateCheckHistory, CreateInsertHistory
<1>3. CASE \E u \in Updates : \/ \E s \in Shipments, st \in UpdateStatuses : UpdateRead(u, s, st)
                              \/ UpdateWrite(u)
                              \/ CallStep(u)
  BY <1>1, <1>3, UpdateReadHistory, UpdateWriteHistory, CallStepHistory
<1>4. CASE (\E d \in Cancels : (\E o \in Orders : CancelRead(d, o)) \/ CancelWrite(d)) \/ UNCHANGED vars
  <2>1. UNCHANGED <<row, create, update, log, stale>>
    BY <1>4 DEF CancelRead, CancelWrite, vars
  <2> QED BY <1>1, <2>1, QuietHistory, QuietRequests
<1> QED BY <1>2, <1>3, <1>4 DEF Next, CallStep

LEMMA HistoryAtInit ==
    ASSUME Init
    PROVE  HistoryInv
<1>1. Shipments = {} /\ \A s \in Creates : row[s] = NoRow
  BY DEF Init, Shipments
<1>2. TypeOK
  BY ShippingAssumption DEF Init, TypeOK, OrderStatuses
<1>3. \A s \in Creates : CreateOK(s)
  BY <1>1 DEF Init, CreateOK, NoRequest
<1>4. \A u \in Updates : update[u] = NoRequest
  BY DEF Init
<1> QED BY <1>1, <1>2, <1>3, <1>4 DEF HistoryInv, EventsAreCommits, FreshHistoryIsComplete

-----------------------------------------------------------------------------
(* The order follows its shipment.                                         *)

\* No cancellation of the order is under way or done.
Uncancelled(o) == \A d \in Cancels : cancel[d].pc \in {"write", "done"} => cancel[d].order # o

Calling(u) == update[u] # NoRequest /\ (update[u].pc = "propagate" \/ update[u].put \in {"sent", "read"})

\* No update stands between its commit and the commit of the order service.
Settled(s) ==
    \A u \in Updates : Busy(u) /\ update[u].shipment = s => update[u].pc = "write" \/ update[u].put = "done"

\* The order stands where the commits put it, or the update on its way there
\* is the latest one and has seen the order as it is.
Follows(s) ==
    /\ Settled(s) => order[row[s].order] = LatestPropagated(log[s])
    /\ \A u \in Updates : Calling(u) /\ update[u].shipment = s =>
          /\ update[u].status = LatestPropagated(log[s])
          /\ update[u].put = "read" => update[u].putPrev = order[row[s].order]

OneAtATime ==
    \A u, v \in Updates :
        /\ Busy(u) /\ Busy(v) /\ update[u].shipment = update[v].shipment
        /\ update[u].shipment \notin overlapped
        => u = v

\* No handler has ended before the order service has.
Answered == \A u \in Updates : update[u].pc \in {"done", "failed"} => update[u].put \notin {"sent", "read"}

Untouched == \A o \in Orders : OfOrder(o) = {} /\ Uncancelled(o) => order[o] = "confirmed"

OrderInv ==
    /\ OneAtATime
    /\ faults = 0 =>
          /\ Answered
          /\ Untouched
          /\ \A s \in Shipments \ overlapped : Uncancelled(row[s].order) => Follows(s)

\* A status added to a sequence puts the order there if it is propagated.
LEMMA LatestOfAppend ==
    ASSUME NEW l \in Seq(Statuses), NEW st \in Statuses
    PROVE  LatestPropagated(Append(l, st)) = IF st \in Propagated THEN st ELSE LatestPropagated(l)
<1> DEFINE n == Len(l)
           L == Append(l, st)
           I == {i \in 1 .. Len(l) : l[i] \in Propagated}
           J == {i \in 1 .. Len(L) : L[i] \in Propagated}
<1>1. n \in Nat /\ Len(L) = n + 1 /\ L[n + 1] = st /\ \A i \in 1 .. n : L[i] = l[i]
  OBVIOUS
<1>2. SelectLastInSeq(L, LAMBDA x : x \in Propagated) = IF J = {} THEN 0 ELSE Max(J)
  BY DEF SelectLastInSeq
<1>3. SelectLastInSeq(l, LAMBDA x : x \in Propagated) = IF I = {} THEN 0 ELSE Max(I)
  BY DEF SelectLastInSeq
<1>4. LatestPropagated(L) = IF J = {} THEN "confirmed" ELSE L[Max(J)]
  <2>1. J \subseteq 1 .. n + 1 /\ n + 1 \in Nat
    BY <1>1
  <2>2. J # {} => Max(J) # 0
    <3> HIDE DEF J
    <3>1. J # {} => Max(J) \in J
      BY <2>1, MaxOfBounded
    <3> QED BY <2>1, <3>1
  <2> QED BY <1>2, <2>2 DEF LatestPropagated
<1>5. LatestPropagated(l) = IF I = {} THEN "confirmed" ELSE l[Max(I)]
  <2>1. I \subseteq 1 .. n
    OBVIOUS
  <2>2. I # {} => Max(I) # 0
    <3> HIDE DEF I
    <3>1. I # {} => Max(I) \in I
      BY <1>1, <2>1, MaxOfBounded
    <3> QED BY <2>1, <3>1
  <2> QED BY <1>3, <2>2 DEF LatestPropagated
<1>6. CASE st \in Propagated
  <2>1. n + 1 \in J /\ \A i \in J : n + 1 >= i /\ i \in Nat
    BY <1>1, <1>6
  <2>2. Max(J) = n + 1
    BY <2>1, <1>1 DEF Max
  <2> QED BY <1>1, <1>4, <1>6, <2>1, <2>2
<1>7. CASE st \notin Propagated
  <2>1. I = J
    BY <1>1, <1>7
  <2>2. I # {} => Max(I) \in 1 .. n
    BY <1>1, MaxOfBounded
  <2> QED BY <1>1, <1>4, <1>5, <1>7, <2>1, <2>2
<1> QED BY <1>6, <1>7


\* What a step of an update makes of the requests that are busy.
LEMMA BusySteps ==
    ASSUME HistoryInv, NEW u \in Updates, UpdateWrite(u) \/ CallStep(u)
    PROVE  /\ Busy(u) /\ update[u] # NoRequest /\ update'[u] # NoRequest
           /\ update'[u].shipment = update[u].shipment /\ update'[u].status = update[u].status
           /\ \A v \in Updates \ {u} : update'[v] = update[v]
           /\ overlapped' = overlapped
<1>1. CASE UpdateWrite(u)
  <2>1. update[u] \in Requests /\ update[u].pc = "write"
    BY <1>1, UpdateFields DEF HistoryInv, UpdateWrite, Commit, NoRequest
  <2>2. /\ update'[u] = [update[u] EXCEPT !.pc = AfterCommit(u)]
        /\ \A v \in Updates \ {u} : update'[v] = update[v]
        /\ overlapped' = overlapped
    BY <1>1 DEF UpdateWrite, Commit, HistoryInv, TypeOK
  <2>3. [update[u] EXCEPT !.pc = AfterCommit(u)] \in Requests
    BY <2>1 DEF AfterCommit, Requests, UpdateActive
  <2> QED BY <2>1, <2>2, <2>3, RequestsAreRequests DEF Requests, Busy, UpdateActive
<1>2. CASE CallStep(u)
  <2>1. update[u] # NoRequest => UpdateOK(u)
    BY DEF HistoryInv
  <2>2. Busy(u)
    BY <1>2 DEF CallStep, SendPut, AwaitPut, FailUpdate, PutRead, PutWrite, Busy, UpdateActive
  <2> QED BY <1>2, <2>1, <2>2, CallStepRequest DEF HistoryInv
<1> QED BY <1>1, <1>2

LEMMA UpdateReadStep ==
    ASSUME HistoryInv, NEW u \in Updates, NEW s \in Shipments, NEW st \in UpdateStatuses,
           UpdateRead(u, s, st)
    PROVE  /\ update[u] = NoRequest /\ ~ Busy(u) /\ update'[u].pc = "write" /\ update'[u].put = "none"
           /\ update'[u].shipment = s
           /\ \A v \in Updates \ {u} : update'[v] = update[v]
           /\ UNCHANGED <<row, order, create, cancel, log, stale, faults>>
           /\ overlapped \subseteq overlapped'
           /\ s \notin overlapped' => \A v \in Updates : Busy(v) => update[v].shipment # s
BY DEF UpdateRead, HistoryInv, TypeOK, Busy, NoRequest, UpdateActive

LEMMA OneAtATimePreserved ==
    ASSUME HistoryInv, OneAtATime, [Next]_vars
    PROVE  OneAtATime'
<1>1. CASE update' = update /\ overlapped' = overlapped
  BY <1>1 DEF OneAtATime, Busy
<1>2. ASSUME NEW u \in Updates, UpdateWrite(u) \/ CallStep(u)
      PROVE  OneAtATime'
  <2>1. \A v \in Updates : Busy(v)' => Busy(v)
    BY <1>2, BusySteps DEF Busy
  <2>2. \A v \in Updates : update'[v].shipment = update[v].shipment
    BY <1>2, BusySteps
  <2> QED BY <1>2, <2>1, <2>2, BusySteps DEF OneAtATime
<1>3. ASSUME NEW u \in Updates, NEW s \in Shipments, NEW st \in UpdateStatuses, UpdateRead(u, s, st)
      PROVE  OneAtATime'
  <2>1. \A v \in Updates \ {u} : Busy(v)' <=> Busy(v)
    BY <1>3, UpdateReadStep DEF Busy
  <2> QED BY <1>3, <2>1, UpdateReadStep DEF OneAtATime
<1>4. CASE \/ \E s \in Creates : (\E o \in Orders : CreateCheck(s, o)) \/ CreateInsert(s) \/ CreateFails(s)
           \/ \E d \in Cancels : (\E o \in Orders : CancelRead(d, o)) \/ CancelWrite(d)
           \/ UNCHANGED vars
  BY <1>1, <1>4 DEF CreateCheck, CreateInsert, CreateFails, CancelRead, CancelWrite, vars
<1> QED BY <1>2, <1>3, <1>4 DEF Next, CallStep

\* Nothing that counts for a shipment has changed.
LEMMA FollowsKept ==
    ASSUME NEW s, Follows(s),
           row'[s].order = row[s].order, log'[s] = log[s], order'[row[s].order] = order[row[s].order],
           Settled(s)' => Settled(s),
           \A u \in Updates : Calling(u)' /\ update'[u].shipment = s =>
              /\ Calling(u) /\ update[u].shipment = s /\ update'[u].status = update[u].status
              /\ update'[u].put = "read" => update[u].put = "read" /\ update'[u].putPrev = update[u].putPrev
    PROVE  Follows(s)'
BY DEF Follows

\* A step of u does not count for a shipment u is not about.
LEMMA OtherShipment ==
    ASSUME NEW s, NEW u \in Updates, Follows(s),
           \A v \in Updates \ {u} : update'[v] = update[v],
           update[u] # NoRequest => update[u].shipment # s,
           update'[u].shipment # s,
           row'[s].order = row[s].order, log'[s] = log[s], order'[row[s].order] = order[row[s].order]
    PROVE  Follows(s)'
<1>1. \A v \in Updates \ {u} : (Busy(v)' <=> Busy(v)) /\ (Calling(v)' <=> Calling(v))
  BY DEF Busy, Calling
<1>2. ~ (Busy(u) /\ update[u].shipment = s)
  BY DEF Busy, UpdateActive, NoRequest
<1>3. Settled(s)' => Settled(s)
  BY <1>1, <1>2 DEF Settled
<1> QED BY <1>1, <1>3, FollowsKept


LEMMA FaultsGrow ==
    ASSUME HistoryInv, [Next]_vars, faults' = 0
    PROVE  faults = 0 /\ faults' = faults
<1>1. faults \in Nat
  BY ShippingAssumption DEF HistoryInv, TypeOK
<1>2. faults' = faults \/ faults' = faults + 1
  BY DEF Next, vars, CreateCheck, CreateInsert, CreateFails, UpdateRead, UpdateWrite, Commit, SendPut,
         AwaitPut, FailUpdate, PutRead, PutWrite, CancelRead, CancelWrite, Fault
<1> QED BY <1>1, <1>2

\* A step that leaves the shipments, the orders and the updates alone, and
\* withdraws no cancellation.
LEMMA QuietOrders ==
    ASSUME HistoryInv, OrderInv, OneAtATime', faults' = 0 => faults = 0,
           UNCHANGED <<row, log, order, update, overlapped>>,
           \A o \in Orders : Uncancelled(o)' => Uncancelled(o)
    PROVE  OrderInv'
<1>1. Shipments' = Shipments
  BY DEF Shipments
<1>2. Answered => Answered'
  BY DEF Answered
<1>3. Untouched => Untouched'
  BY <1>1 DEF Untouched, OfOrder
<1>4. \A s : Follows(s) => Follows(s)'
  BY FollowsKept DEF Settled, Busy, Calling
<1>5. \A s \in Shipments : row[s].order \in Orders
  BY RowFields DEF HistoryInv, Shipments
<1> QED BY <1>1, <1>2, <1>3, <1>4, <1>5 DEF OrderInv

LEMMA CreateInsertOrder ==
    ASSUME HistoryInv, OrderInv, OneAtATime', HistoryInv', faults' = 0 => faults' = faults,
           NEW s \in Creates, CreateInsert(s)
    PROVE  OrderInv'
<1> SUFFICES ASSUME faults' = 0
             PROVE  Answered' /\ Untouched'
                    /\ \A t \in Shipments' \ overlapped' : Uncancelled(row[t].order)' => Follows(t)'
  BY DEF OrderInv
<1> DEFINE o == create[s].order
<1>1. faults = 0 /\ Answered /\ Untouched /\ OfOrder(o) = {} /\ o \in Orders
  <2>1. create[s] # NoRequest
    BY DEF CreateInsert, NoRequest
  <2> QED BY <2>1, CreateFields DEF HistoryInv, OrderInv, CreateInsert
<1>2. /\ UNCHANGED <<order, update, cancel, overlapped>>
      /\ row'[s].order = o /\ \A t \in Creates \ {s} : row'[t] = row[t]
      /\ log'[s] = <<"pending">> /\ \A t \in Creates \ {s} : log'[t] = log[t]
      /\ s \notin Shipments
  BY DEF CreateInsert, HistoryInv, TypeOK, CreateOK, Shipments
<1>3. \A q : Uncancelled(q)' <=> Uncancelled(q)
  BY <1>2 DEF Uncancelled
<1>4. Answered'
  BY <1>1, <1>2 DEF Answered
<1>5. \A t \in Shipments : t \in Shipments' /\ row'[t].order = row[t].order
  BY <1>2 DEF Shipments
<1>6. Untouched'
  BY <1>1, <1>2, <1>3, <1>5 DEF Untouched, OfOrder
<1>7. ASSUME Uncancelled(o)
      PROVE  Follows(s)'
  <2>1. order[o] = "confirmed"
    BY <1>1, <1>7 DEF Untouched
  <2>2. LatestPropagated(<<"pending">>) = "confirmed"
    <3>1. SelectLastInSeq(<<"pending">>, LAMBDA x : x \in Propagated) = 0
      BY DEF SelectLastInSeq, Propagated
    <3> QED BY <3>1 DEF LatestPropagated
  <2>3. \A u \in Updates : update[u] # NoRequest => update[u].shipment # s
    BY <1>2 DEF HistoryInv, UpdateOK
  <2> QED BY <1>2, <2>1, <2>2, <2>3 DEF Follows, Calling
<1>8. ASSUME NEW t \in Shipments' \ overlapped', t # s, Uncancelled(row[t].order)'
      PROVE  Follows(t)'
  <2>1. t \in Shipments \ overlapped /\ row'[t] = row[t] /\ log'[t] = log[t]
    BY <1>2, <1>8 DEF Shipments
  <2>2. Follows(t)
    BY <1>1, <1>3, <1>8, <2>1 DEF OrderInv
  <2>3. (Settled(t)' <=> Settled(t)) /\ \A u \in Updates : Calling(u)' <=> Calling(u)
    BY <1>2 DEF Settled, Busy, Calling
  <2> QED BY <1>2, <2>1, <2>2, <2>3, FollowsKept
<1> QED BY <1>2, <1>3, <1>4, <1>6, <1>7, <1>8

LEMMA UpdateReadOrder ==
    ASSUME HistoryInv, OrderInv, OneAtATime', NEW u \in Updates, NEW s \in Shipments,
           NEW st \in UpdateStatuses, UpdateRead(u, s, st)
    PROVE  OrderInv'
<1> SUFFICES ASSUME faults' = 0
             PROVE  Answered' /\ Untouched'
                    /\ \A t \in Shipments' \ overlapped' : Uncancelled(row[t].order)' => Follows(t)'
  BY DEF OrderInv
<1>1. /\ update[u] = NoRequest /\ ~ Busy(u) /\ update'[u].pc = "write" /\ update'[u].put = "none"
      /\ update'[u].shipment = s
      /\ \A v \in Updates \ {u} : update'[v] = update[v]
      /\ UNCHANGED <<row, order, create, cancel, log, stale, faults>>
      /\ overlapped \subseteq overlapped'
  BY UpdateReadStep
<1>2. Shipments' = Shipments /\ \A o : (Uncancelled(o)' <=> Uncancelled(o)) /\ OfOrder(o)' = OfOrder(o)
  BY <1>1 DEF Shipments, Uncancelled, OfOrder
<1>3. Answered' /\ Untouched'
  BY <1>1, <1>2 DEF OrderInv, Answered, Untouched
<1>4. ASSUME NEW t \in Shipments \ overlapped, Follows(t)
      PROVE  Follows(t)'
  <2>1. \A v \in Updates \ {u} : (Busy(v)' <=> Busy(v)) /\ (Calling(v)' <=> Calling(v))
    BY <1>1 DEF Busy, Calling
  <2>2. ~ Calling(u)'
    BY <1>1 DEF Calling
  <2>3. Settled(t)' => Settled(t)
    BY <1>1, <2>1 DEF Settled
  <2> QED BY <1>1, <1>4, <2>1, <2>2, <2>3, FollowsKept
<1> QED BY <1>1, <1>2, <1>3, <1>4 DEF OrderInv


LEMMA UpdateWriteOrder ==
    ASSUME HistoryInv, HistoryInv', OrderInv, OneAtATime', NEW u \in Updates, UpdateWrite(u)
    PROVE  OrderInv'
<1> SUFFICES ASSUME faults' = 0
             PROVE  Answered' /\ Untouched'
                    /\ \A t \in Shipments' \ overlapped' : Uncancelled(row[t].order)' => Follows(t)'
  BY DEF OrderInv
<1>0. PICK s \in Creates, st \in Statuses : s = update[u].shipment /\ st = update[u].status
  BY UpdateFields DEF HistoryInv, UpdateWrite, Commit, NoRequest
<1>1. /\ update[u].pc = "write" /\ update[u] # NoRequest /\ UpdateOK(u) /\ update[u] \in Requests
      /\ update[u].put = "none" /\ s \in Shipments /\ s \in Creates /\ st \in Statuses
      /\ log[s] \in Seq(Statuses) /\ row[s] \in Rows
  BY <1>0, UpdateFields, RowFields DEF HistoryInv, UpdateWrite, Commit, NoRequest, UpdateOK
<1>2. /\ UNCHANGED <<order, create, cancel, overlapped, faults>>
      /\ \A v \in Updates \ {u} : update'[v] = update[v]
      /\ update'[u].pc = AfterCommit(u) /\ update'[u].put = "none"
      /\ update'[u].shipment = s /\ update'[u].status = st
  <2>1. update' = [update EXCEPT ![u] = [update[u] EXCEPT !.pc = AfterCommit(u)]]
    BY DEF UpdateWrite, Commit, HistoryInv, TypeOK
  <2>2. u \in DOMAIN update
    BY <1>1 DEF HistoryInv, TypeOK
  <2>3. /\ \A v \in Updates \ {u} : update'[v] = update[v]
        /\ update'[u] = [update[u] EXCEPT !.pc = AfterCommit(u)]
    BY <2>1, <2>2 DEF HistoryInv, TypeOK
  <2>4. /\ update'[u].pc = AfterCommit(u) /\ update'[u].put = update[u].put
        /\ update'[u].shipment = s /\ update'[u].status = st
    <3>1. /\ DOMAIN update[u] = {"pc", "shipment", "status", "prev", "events", "put", "putPrev"}
          /\ update[u].shipment = s /\ update[u].status = st
      BY <1>0, <1>1 DEF Requests
    <3>2. QED
      BY <2>3, <3>1
  <2>5. UNCHANGED <<order, create, cancel, overlapped, faults>>
    BY <1>0 DEF UpdateWrite, Commit
  <2> QED BY <1>1, <2>3, <2>4, <2>5
<1>3. /\ \A t \in Creates : row'[t].order = row[t].order
      /\ Shipments' = Shipments
      /\ log'[s] = Append(log[s], st) /\ \A t \in Creates \ {s} : log'[t] = log[t]
  <2>1. \E x, e : row'[s] = [row[s] EXCEPT !.status = x, !.events = e]
    BY <1>0, <1>1 DEF UpdateWrite, Commit, HistoryInv, TypeOK
  <2>2. row'[s].order = row[s].order /\ row'[s] # NoRow
    BY <1>1, <2>1 DEF Rows, NoRow
  <2>3. /\ \A t \in Creates \ {s} : row'[t] = row[t]
        /\ log'[s] = Append(log[s], st) /\ \A t \in Creates \ {s} : log'[t] = log[t]
    <3>1. s \in Creates /\ DOMAIN row = Creates /\ DOMAIN log = Creates
      BY <1>1 DEF HistoryInv, TypeOK
    <3>2. /\ \E x, e : row' = [row EXCEPT ![s].status = x, ![s].events = e]
          /\ log' = [log EXCEPT ![s] = Append(@, st)]
      BY <1>0 DEF UpdateWrite, Commit
    <3>3. QED
      BY <3>1, <3>2
  <2>4. Shipments' = Shipments
    BY <1>1, <2>2, <2>3 DEF Shipments
  <2> QED BY <2>2, <2>3, <2>4
<1>4. faults = 0 /\ Answered /\ Untouched
      /\ \A q : (Uncancelled(q)' <=> Uncancelled(q)) /\ OfOrder(q)' = OfOrder(q)
  BY <1>2, <1>3 DEF OrderInv, Uncancelled, OfOrder, Shipments
<1>5. Answered' /\ Untouched'
  BY <1>2, <1>4 DEF Answered, Untouched
<1>6. ASSUME s \notin overlapped, Follows(s)
      PROVE  Follows(s)'
  <2>1. \A v \in Updates : Busy(v) /\ update[v].shipment = s => v = u
    BY <1>0, <1>1, <1>6 DEF OrderInv, OneAtATime, Busy, UpdateActive
  <2>2. order[row[s].order] = LatestPropagated(log[s])
    BY <1>1, <1>6, <2>1 DEF Follows, Settled
  <2>3. LatestPropagated(log'[s]) = IF st \in Propagated THEN st ELSE LatestPropagated(log[s])
    BY <1>1, <1>3, LatestOfAppend
  <2>4. \A v \in Updates : Calling(v)' /\ update'[v].shipment = s => v = u
    BY <1>2, <2>1 DEF Calling, Busy, UpdateActive
  <2>5. CASE st \in Propagated
    <3>1. update'[u].pc = "propagate"
      BY <1>0, <1>2, <2>5 DEF AfterCommit
    <3>2. ~ Settled(s)'
      BY <1>2, <3>1 DEF Settled, Busy, UpdateActive
    <3> QED BY <1>2, <1>3, <2>3, <2>4, <2>5, <3>2 DEF Follows
  <2>6. CASE st \notin Propagated
    <3>1. update'[u].pc = "done"
      BY <1>0, <1>2, <2>6 DEF AfterCommit
    <3>2. ~ Calling(u)'
      BY <1>2, <3>1 DEF Calling
    <3>3. order'[row'[s].order] = LatestPropagated(log'[s])
      BY <1>1, <1>2, <1>3, <2>2, <2>3, <2>6
    <3> QED BY <2>4, <3>2, <3>3 DEF Follows
  <2> QED BY <2>5, <2>6
<1>7. ASSUME NEW t \in Shipments, t # s, Follows(t)
      PROVE  Follows(t)'
  <2>1. t \in Creates
    BY DEF Shipments
  <2> QED BY <1>0, <1>1, <1>2, <1>3, <1>7, <2>1, OtherShipment
<1> QED BY <1>2, <1>3, <1>4, <1>5, <1>6, <1>7 DEF OrderInv, Shipments

LEMMA CallStepOrder ==
    ASSUME HistoryInv, HistoryInv', OrderInv, OneAtATime', faults' = 0 => faults' = faults,
           NEW u \in Updates, CallStep(u)
    PROVE  OrderInv'
<1> SUFFICES ASSUME faults' = 0
             PROVE  Answered' /\ Untouched'
                    /\ \A t \in Shipments' \ overlapped' : Uncancelled(row[t].order)' => Follows(t)'
  BY DEF OrderInv
<1>0. /\ update[u] \in Requests /\ update[u] # NoRequest /\ UpdateOK(u)
      /\ update[u].shipment \in Shipments /\ update[u].shipment \in Creates
      /\ row[update[u].shipment].order \in Orders
  <2>1. update[u] \in Requests /\ update[u] # NoRequest /\ UpdateOK(u)
    BY CallStepRequest DEF HistoryInv
  <2> QED BY <2>1, RowFields DEF HistoryInv, UpdateOK, Shipments
<1> PICK s \in Creates, o \in Orders : s = update[u].shipment /\ o = row[s].order
  BY <1>0
<1>1. /\ update[u] \in Requests /\ update[u] # NoRequest /\ UpdateOK(u)
      /\ \A v \in Updates \ {u} : update'[v] = update[v]
      /\ update'[u] \in Requests /\ update'[u] # NoRequest
      /\ update'[u].shipment = s /\ update'[u].status = update[u].status
      /\ UNCHANGED <<row, create, cancel, log, stale, overlapped>>
  BY <1>0, CallStepRequest DEF HistoryInv
<1>2. /\ faults = 0 /\ faults' = faults /\ Answered /\ Untouched
      /\ s \in Shipments /\ s \in Creates /\ o \in Orders
  BY <1>0 DEF OrderInv
<1>3. /\ Shipments' = Shipments
      /\ \A q : (Uncancelled(q)' <=> Uncancelled(q)) /\ OfOrder(q)' = OfOrder(q)
  BY <1>1 DEF Uncancelled, OfOrder, Shipments
<1>4. \/ /\ update[u].pc = "propagate" /\ update[u].put = "none"
         /\ update'[u].pc = "await" /\ update'[u].put = "sent" /\ order' = order
      \/ /\ update[u].pc = "await" /\ update[u].put = "done"
         /\ update'[u].pc = "done" /\ update'[u].put = "done" /\ order' = order
      \/ /\ update[u].put = "sent" /\ update[u].pc \notin {"write", "propagate"}
         /\ update'[u].pc = update[u].pc /\ update'[u].put = "read"
         /\ update'[u].putPrev = order[o] /\ order' = order
      \/ /\ update[u].put = "read" /\ update[u].pc \notin {"write", "propagate"}
         /\ update'[u].pc = update[u].pc /\ update'[u].put = "done"
         /\ order' = [order EXCEPT ![o] = IF update[u].status = update[u].putPrev
                                          THEN order[o] ELSE update[u].status]
  <2>1. faults \in Nat /\ ~ Fault
    BY <1>2, ShippingAssumption DEF Fault
  <2> QED BY <1>1, <1>2, <2>1 DEF CallStep, SendPut, AwaitPut, FailUpdate, PutRead, PutWrite,
                                  UpdateOK, HistoryInv, TypeOK
<1>5. Answered'
  BY <1>1, <1>2, <1>4 DEF Answered
<1>6. \A q \in Orders \ {o} : order'[q] = order[q]
  BY <1>4 DEF HistoryInv, TypeOK
<1>7. Untouched'
  <2>1. OfOrder(o) # {}
    BY <1>2 DEF OfOrder
  <2> QED BY <1>2, <1>3, <1>6, <2>1 DEF Untouched
<1>8. ASSUME s \notin overlapped, Follows(s)
      PROVE  Follows(s)'
  <2>1. \A v \in Updates : Busy(v) /\ update[v].shipment = s => v = u
    BY <1>8, BusySteps DEF OrderInv, OneAtATime
  <2>2. \A v \in Updates : Calling(v)' /\ update'[v].shipment = s => v = u
    BY <1>1, <2>1 DEF Calling, Busy, UpdateActive
  <2>3. /\ Calling(u) => update[u].status = LatestPropagated(log[s])
        /\ update[u].put = "read" => update[u].putPrev = order[o]
    BY <1>1, <1>8 DEF Follows, Calling
  <2>4. Calling(u)' => Calling(u) /\ (update'[u].put = "read" => update'[u].putPrev = order'[o])
    BY <1>1, <1>4 DEF Calling
  <2>5. \A v \in Updates \ {u} : Busy(v)' => Busy(v)
    BY <1>1 DEF Busy
  <2>6. Settled(s)' => order'[o] = LatestPropagated(log[s])
    <3>1. CASE update[u].put = "read" /\ update'[u].put = "done"
      <4>1. Calling(u)
        BY <1>1, <3>1 DEF Calling
      <4> QED BY <1>2, <1>4, <2>3, <3>1, <4>1 DEF HistoryInv, TypeOK
    <3>2. CASE update'[u].put = "done" /\ update[u].put = "done"
      <4>1. Settled(s)
        BY <2>1, <3>2 DEF Settled
      <4> QED BY <1>4, <1>8, <3>2, <4>1 DEF Follows
    <3>3. CASE update'[u].put \in {"sent", "read"}
      <4>1. ~ Settled(s)'
        BY <1>1, <1>4, <3>3 DEF Settled, Busy
      <4> QED BY <4>1
    <3> QED BY <1>4, <3>1, <3>2, <3>3
  <2> QED BY <1>1, <2>2, <2>3, <2>4, <2>6 DEF Follows
<1>9. ASSUME NEW t \in Shipments, t # s, Follows(t)
      PROVE  Follows(t)'
  <2>1. row[t].order # o /\ row[t].order \in Orders
    BY <1>2, <1>9, RowFields DEF HistoryInv, Shipments
  <2> QED BY <1>1, <1>6, <1>9, <2>1, OtherShipment
<1> QED BY <1>1, <1>2, <1>3, <1>5, <1>7, <1>8, <1>9 DEF OrderInv

LEMMA CancelOrder ==
    ASSUME HistoryInv, HistoryInv', OrderInv, OneAtATime', NEW d \in Cancels,
           (\E o \in Orders : CancelRead(d, o)) \/ CancelWrite(d)
    PROVE  OrderInv'
<1>1. CASE \E o \in Orders : CancelRead(d, o)
  <2>1. UNCHANGED <<row, log, order, update, overlapped, faults>>
    BY <1>1 DEF CancelRead
  <2>2. cancel[d] = NoRequest /\ \A c \in Cancels \ {d} : cancel'[c] = cancel[c]
    BY <1>1 DEF CancelRead, HistoryInv, TypeOK
  <2>3. \A o \in Orders : Uncancelled(o)' => Uncancelled(o)
    BY <2>2 DEF Uncancelled, NoRequest
  <2> QED BY <2>1, <2>3, QuietOrders
<1>2. CASE CancelWrite(d)
  <2> SUFFICES ASSUME faults' = 0
               PROVE  Answered' /\ Untouched'
                      /\ \A t \in Shipments' \ overlapped' : Uncancelled(row[t].order)' => Follows(t)'
    BY DEF OrderInv
  <2> PICK x : x = cancel[d].order
    OBVIOUS
  <2>1. cancel[d] \in [pc : {"write", "done", "refused"}, order : Orders, prev : OrderStatuses]
    BY <1>2 DEF HistoryInv, CancelWrite, TypeOK, NoRequest
  <2>2. /\ UNCHANGED <<row, create, update, log, stale, overlapped, faults>>
        /\ \A q \in Orders \ {x} : order'[q] = order[q]
        /\ \A c \in Cancels \ {d} : cancel'[c] = cancel[c]
        /\ cancel'[d].order = x /\ cancel'[d].pc = "done" /\ cancel[d].pc = "write"
    BY <1>2, <2>1 DEF HistoryInv, CancelWrite, TypeOK
  <2>3. \A q : Uncancelled(q)' => Uncancelled(q) /\ q # x
    BY <2>2 DEF Uncancelled
  <2>4. Shipments' = Shipments /\ \A q : OfOrder(q)' = OfOrder(q)
    BY <2>2 DEF Shipments, OfOrder
  <2>5. Answered' /\ Untouched'
    BY <2>2, <2>3, <2>4 DEF OrderInv, Answered, Untouched
  <2>6. ASSUME NEW t \in Shipments \ overlapped, Uncancelled(row[t].order)'
        PROVE  Follows(t)'
    <3>1. row[t].order \in Orders /\ Uncancelled(row[t].order) /\ row[t].order # x
      BY <2>2, <2>3, <2>6, RowFields DEF HistoryInv, Shipments
    <3>2. Follows(t)
      BY <2>2, <3>1 DEF OrderInv
    <3>3. (Settled(t)' <=> Settled(t)) /\ \A u \in Updates : Calling(u)' <=> Calling(u)
      BY <2>2 DEF Settled, Busy, Calling
    <3> QED BY <2>2, <3>1, <3>2, <3>3, FollowsKept
  <2> QED BY <2>2, <2>4, <2>5, <2>6
<1> QED BY <1>1, <1>2


LEMMA OrderPreserved ==
    ASSUME HistoryInv, OrderInv, [Next]_vars
    PROVE  OrderInv'
<1>1. HistoryInv' /\ OneAtATime'
  BY HistoryPreserved, OneAtATimePreserved DEF OrderInv
<1>2. faults' = 0 => faults = 0 /\ faults' = faults
  BY FaultsGrow
<1>3. ASSUME NEW s \in Creates, (\E o \in Orders : CreateCheck(s, o)) \/ CreateFails(s)
      PROVE  OrderInv'
  <2>1. UNCHANGED <<row, log, order, update, cancel, overlapped>>
    BY <1>3 DEF CreateCheck, CreateFails
  <2> QED BY <1>1, <1>2, <2>1, QuietOrders DEF Uncancelled
<1>4. CASE UNCHANGED vars
  <2>1. UNCHANGED <<row, log, order, update, cancel, overlapped>>
    BY <1>4 DEF vars
  <2> QED BY <1>1, <1>2, <2>1, QuietOrders DEF Uncancelled
<1> QED BY <1>1, <1>2, <1>3, <1>4, CreateInsertOrder, UpdateReadOrder, UpdateWriteOrder,
           CallStepOrder, CancelOrder DEF Next, CallStep

LEMMA OrderAtInit ==
    ASSUME Init
    PROVE  OrderInv
<1>1. Shipments = {} /\ \A u \in Updates : update[u].pc = "none" /\ ~ Busy(u)
  BY DEF Init, Shipments, Busy, UpdateActive, NoRequest
<1>2. \A o \in Orders : order[o] = "confirmed"
  BY DEF Init
<1> QED BY <1>1, <1>2 DEF OrderInv, OneAtATime, Answered, Untouched

-----------------------------------------------------------------------------
(* Theorems.                                                               *)

\* What the table says is explained by the commits made so far
\* (main.py:55-115).
THEOREM HistoryInvariant == Spec => []HistoryInv
<1>1. Init => HistoryInv
  BY HistoryAtInit
<1>2. HistoryInv /\ [Next]_vars => HistoryInv'
  BY HistoryPreserved
<1> QED BY <1>1, <1>2, PTL DEF Spec

\* While nothing fails, the order stands where its shipment has put it, or the
\* one update on its way there will (main.py:105-125).
THEOREM OrderInvariant == Spec => []OrderInv
<1>1. Init => OrderInv
  BY OrderAtInit
<1>2. HistoryInv /\ OrderInv /\ [Next]_vars => OrderInv'
  BY OrderPreserved
<1> QED BY <1>1, <1>2, HistoryInvariant, PTL DEF Spec

\* The variables keep their types: no step writes a status the columns do not know
\* (main.py:53-125).
THEOREM TypeCorrect == Spec => []TypeOK
<1>1. HistoryInv => TypeOK
  BY DEF HistoryInv
<1> QED BY <1>1, HistoryInvariant, PTL

\* Whatever number of confirmations asks for it, an order gets one shipment
\* (create_shipment, main.py:55-67, and the unique index).
THEOREM OneShipment == Spec => []OneShipmentPerOrder
<1>1. HistoryInv => OneShipmentPerOrder
  BY DEF HistoryInv, OneShipmentPerOrder, CreateOK
<1> QED BY <1>1, HistoryInvariant, PTL

\* However many updates overlap, the event list of a shipment is a part of what
\* was committed, in order, and ends in the latest commit (main.py:109-115).
THEOREM EventListIsPartOfCommits == Spec => []EventsAreCommits
<1>1. HistoryInv => EventsAreCommits
  BY DEF HistoryInv
<1> QED BY <1>1, HistoryInvariant, PTL

\* A shipment no commit has written from an old row has all its events
\* (main.py:109-115).
THEOREM FreshHistory == Spec => []FreshHistoryIsComplete
<1>1. HistoryInv => FreshHistoryIsComplete
  BY DEF HistoryInv
<1> QED BY <1>1, HistoryInvariant, PTL

\* Of a shipment whose updates came one after the other, and of an order nobody
\* cancels, the order stands where the shipment has put it once the last update
\* is answered and nothing has failed (main.py:117-122, order main.py:146-153).
THEOREM OrderFollows == Spec => []OrderFollowsShipment
<1>1. ASSUME HistoryInv, OrderInv
      PROVE  OrderFollowsShipment
  <2> SUFFICES ASSUME faults = 0, NEW s \in Shipments \ overlapped,
                      \A u \in Updates : update[u].pc \in UpdateActive => update[u].shipment # s,
                      \A d \in Cancels : cancel[d].pc \in {"write", "done"} => cancel[d].order # row[s].order
               PROVE  order[row[s].order] = LatestPropagated(log[s])
    BY DEF OrderFollowsShipment
  <2>1. Follows(s) /\ Answered
    BY <1>1 DEF OrderInv, Uncancelled
  <2>2. \A u \in Updates : Busy(u) => update[u].shipment # s
    BY <1>1, <2>1, UpdateFields DEF Busy, Answered, HistoryInv
  <2> QED BY <2>1, <2>2 DEF Follows, Settled
<1>2. HistoryInv /\ OrderInv => OrderFollowsShipment
  BY <1>1
<1> QED BY <1>2, HistoryInvariant, OrderInvariant, PTL

=============================================================================
