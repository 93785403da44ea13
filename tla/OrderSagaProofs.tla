--------------------------- MODULE OrderSagaProofs ---------------------------
(***************************************************************************)
(* The stock of orders, proved for any number of orders, calls, products,  *)
(* baskets and faults.  A step of a handler moves at most one order's      *)
(* share of the reserved stock, so the total is followed by what that      *)
(* order's share and the column do in the step; the callers settle each    *)
(* order once, so its share is what one call has left of its items.        *)
(***************************************************************************)
EXTENDS OrderSaga, DataLemmas, TLAPS

-----------------------------------------------------------------------------
(* The inductive invariant.                                                *)

\* The columns: what is reserved is in stock, and has a row.
LedgerOK ==
    /\ listed \subseteq Products
    /\ quantity \in [Products -> Nat]
    /\ reserved \in [Products -> Nat]
    /\ \A p \in Products : reserved[p] <= quantity[p] /\ (reserved[p] # 0 => p \in listed)

\* A POST has inserted its order only if it is past the insert, and its loops
\* are at an item of its basket.
CreateOK(o) ==
    LET h == create[o]
        n == Len(h.items)
    IN  /\ status[o] # "none" => h.pc \in {"clear", "failed", "done"}
        /\ h.pc \in {"validate", "reserve"} => h.i \in 1 .. n
        /\ h.pc = "rollback" => h.kept \in 1 .. n /\ h.i \in 1 .. h.kept

\* A call has read an order that is there; its loops are at an item of that
\* order, and which loop it is in follows from what it asks for.
CallOK(c) ==
    LET q == call[c]
    IN  q # NoCall =>
            /\ status[q.order] # "none"
            /\ q.pc = "write" => q.i = 1
            /\ q.pc \in {"commit", "release"} => q.i \in AllItems(q.order)
            /\ q.pc \in {"commit", "ship"} => q.method = "PUT" /\ q.status = "confirmed"
            /\ q.pc = "release" => q.method = "PUT" /\ q.status = "cancelled" /\ q.prev = "pending"

SagaInv ==
    /\ TypeOK
    /\ LedgerOK
    /\ \A o \in Orders : CreateOK(o)
    /\ \A c \in Calls : CallOK(c)

\* Orders hold no more than is reserved, and without a fault just that.
StockInv ==
    SettledOnce => \A p \in Products :
        /\ TotalHeld(p) <= reserved[p]
        /\ faults = 0 =>
              /\ reserved[p] = TotalHeld(p)
              /\ quantity[p] + TotalSold(p) = IF p \in SeededProducts THEN SeedQuantity[p] ELSE 0

-----------------------------------------------------------------------------
(* Records.                                                                *)

CreateRecords == [pc : CreateActive \cup {"refused", "failed", "done"}, items : Baskets, i : Nat, kept : Nat]
CallRecords ==
    [pc : CallActive \cup {"refused", "failed", "done"}, method : {"PUT", "DELETE"},
     order : Orders, status : Statuses, prev : Statuses, i : Nat]

\* A basket has an item, and each item is a product and a positive quantity.
LEMMA BasketShape ==
    ASSUME NEW items \in Baskets
    PROVE  /\ Len(items) \in Nat \ {0} /\ DOMAIN items = 1 .. Len(items)
           /\ items \in Seq(Items)
           /\ \A i \in 1 .. Len(items) : /\ items[i] \in Items /\ items[i].product \in Products
                                         /\ items[i].quantity \in Nat \ {0}
<1>1. items \in Seq(Items) /\ items # <<>>
  BY OrderAssumption
<1>2. Amounts \subseteq Nat \ {0}
  BY OrderAssumption
<1>3. Len(items) \in Nat /\ Len(items) # 0 /\ DOMAIN items = 1 .. Len(items)
  BY <1>1
<1>4. \A i \in 1 .. Len(items) : items[i] \in Items
  BY <1>1
<1>5. QED
  BY <1>1, <1>2, <1>3, <1>4 DEF Items

LEMMA CreateTyped ==
    ASSUME TypeOK, NEW o \in Orders, create[o].pc # "none"
    PROVE  create[o] \in CreateRecords
  BY DEF TypeOK, NoCreate, CreateRecords

LEMMA CallTyped ==
    ASSUME TypeOK, NEW c \in Calls, call[c] # NoCall
    PROVE  call[c] \in CallRecords
  BY DEF TypeOK, CallRecords

\* A handler's record is one of CreateRecords, whose items it keeps.
CreateIs(o, h, pc, i, kept) ==
    h \in CreateRecords /\ h.items = create[o].items /\ h.pc = pc /\ h.i = i /\ h.kept = kept

\* The steps of a POST that set its pc, or go on with the next item.
LEMMA SetPc ==
    ASSUME TypeOK, NEW o \in Orders, create[o].pc # "none",
           NEW pc \in CreateActive \cup {"refused", "failed", "done"},
           create' = [create EXCEPT ![o].pc = pc]
    PROVE  /\ CreateIs(o, create'[o], pc, create[o].i, create[o].kept)
           /\ create' \in [Orders -> {create'[x] : x \in Orders}]
           /\ \A x \in Orders \ {o} : create'[x] = create[x]
<1>1. create[o] \in CreateRecords
  BY CreateTyped
<1>2. create'[o] = [create[o] EXCEPT !.pc = pc]
  BY DEF TypeOK
<1>3. create' \in [Orders -> {create'[x] : x \in Orders}] /\ \A x \in Orders \ {o} : create'[x] = create[x]
  BY DEF TypeOK
<1> HIDE DEF TypeOK
<1>4. CreateIs(o, create'[o], pc, create[o].i, create[o].kept)
  BY <1>1, <1>2 DEF CreateIs, CreateRecords
<1>5. QED
  BY <1>3, <1>4

LEMMA NextItemEffect ==
    ASSUME TypeOK, NEW o \in Orders, create[o].pc # "none",
           NEW pc \in CreateActive \cup {"refused", "failed", "done"},
           NEW last \in Nat, NextItem(o, last, pc)
    PROVE  /\ IF create[o].i < last
              THEN CreateIs(o, create'[o], create[o].pc, create[o].i + 1, create[o].kept)
              ELSE CreateIs(o, create'[o], pc, 1, create[o].kept)
           /\ create' \in [Orders -> {create'[x] : x \in Orders}]
           /\ \A x \in Orders \ {o} : create'[x] = create[x]
<1>1. create[o] \in CreateRecords
  BY CreateTyped
<1>2. create'[o] = IF create[o].i < last THEN [create[o] EXCEPT !.i = @ + 1]
                                         ELSE [create[o] EXCEPT !.i = 1, !.pc = pc]
  <2>1. DOMAIN create = Orders
    BY DEF TypeOK
  <2>2. QED
    BY <2>1 DEF NextItem
<1>3. create' \in [Orders -> {create'[x] : x \in Orders}] /\ \A x \in Orders \ {o} : create'[x] = create[x]
  BY DEF TypeOK, NextItem
<1>4. CASE create[o].i < last
  <2> DEFINE i == create[o].i + 1
  <2>1. i \in Nat
    BY <1>1 DEF CreateRecords
  <2>2. create'[o] = [create[o] EXCEPT !.i = i]
    BY <1>2, <1>4
  <2> HIDE DEF i
  <2>3. CreateIs(o, create'[o], create[o].pc, i, create[o].kept)
    BY <1>1, <2>1, <2>2 DEF CreateIs, CreateRecords
  <2>4. QED
    BY <1>3, <1>4, <2>3 DEF i
<1>5. CASE ~ (create[o].i < last)
  <2>1. create'[o] = [create[o] EXCEPT !.i = 1, !.pc = pc]
    BY <1>2, <1>5
  <2>2. create'[o] \in CreateRecords
    <3>1. [create[o] EXCEPT !.i = 1] \in CreateRecords
      BY <1>1 DEF CreateRecords
    <3>2. [[create[o] EXCEPT !.i = 1] EXCEPT !.pc = pc] \in CreateRecords
      BY <3>1 DEF CreateRecords
    <3>3. QED
      BY <2>1, <3>2
  <2>3. /\ create'[o].pc = pc /\ create'[o].i = 1 /\ create'[o].kept = create[o].kept
        /\ create'[o].items = create[o].items
    BY <1>1, <2>1 DEF CreateRecords
  <2>4. QED
    BY <1>3, <1>5, <2>2, <2>3 DEF CreateIs
<1>6. QED
  BY <1>4, <1>5

-----------------------------------------------------------------------------
(* The ledger.                                                             *)

\* What an item has of product p.
Of(it, p) == IF it.product = p THEN it.quantity ELSE 0

LEMMA ReserveEffect ==
    ASSUME LedgerOK, NEW it \in Items, it.product \in Products, it.quantity \in Nat \ {0}, Reserve(it)
    PROVE  /\ LedgerOK'
           /\ \A p \in Products : reserved'[p] = reserved[p] + Of(it, p) /\ quantity'[p] = quantity[p]
<1> DEFINE q == it.product
           n == it.quantity
<1>1. /\ q \in listed /\ quantity[q] - reserved[q] >= n
      /\ reserved' = [reserved EXCEPT ![q] = @ + n] /\ UNCHANGED <<listed, quantity>>
  BY DEF Reserve, Ledger!CanReserve, Ledger!Reserve
<1>2. \A p \in Products : reserved'[p] = IF p = q THEN reserved[p] + n ELSE reserved[p]
  BY <1>1 DEF LedgerOK
<1>3. reserved' \in [Products -> Nat]
  BY <1>1 DEF LedgerOK
<1>4. LedgerOK'
  BY <1>1, <1>2, <1>3 DEF LedgerOK
<1>5. QED
  BY <1>1, <1>2, <1>4 DEF Of, LedgerOK

LEMMA TryReleaseEffect ==
    ASSUME LedgerOK, NEW it \in Items, it.product \in Products, it.quantity \in Nat \ {0}, TryRelease(it)
    PROVE  /\ LedgerOK'
           /\ \A p \in Products :
                 /\ reserved'[p] >= reserved[p] - Of(it, p) /\ quantity'[p] = quantity[p]
                 /\ reserved[it.product] >= it.quantity => reserved'[p] = reserved[p] - Of(it, p)
<1> DEFINE q == it.product
           n == it.quantity
<1>1. CASE Ledger!CanRelease(q, n)
  <2>1. /\ q \in listed /\ reserved[q] >= n
        /\ reserved' = [reserved EXCEPT ![q] = @ - n] /\ UNCHANGED <<listed, quantity>>
    BY <1>1 DEF TryRelease, Ledger!CanRelease, Ledger!Release
  <2>2. \A p \in Products : reserved'[p] = IF p = q THEN reserved[p] - n ELSE reserved[p]
    BY <2>1 DEF LedgerOK
  <2>3. reserved' \in [Products -> Nat]
    BY <2>1 DEF LedgerOK
  <2>4. LedgerOK'
    BY <2>1, <2>2, <2>3 DEF LedgerOK
  <2>5. QED
    BY <2>1, <2>2, <2>4 DEF Of, LedgerOK
<1>2. CASE ~Ledger!CanRelease(q, n)
  <2>1. UNCHANGED <<listed, quantity, reserved>>
    BY <1>2 DEF TryRelease, ledgerVars
  <2>2. ~ (reserved[q] >= n)
    BY <1>2 DEF Ledger!CanRelease, LedgerOK
  <2>3. QED
    BY <2>1, <2>2 DEF LedgerOK, Of
<1>3. QED
  BY <1>1, <1>2

LEMMA TryCommitEffect ==
    ASSUME LedgerOK, NEW it \in Items, it.product \in Products, it.quantity \in Nat \ {0}, TryCommit(it)
    PROVE  /\ LedgerOK'
           /\ \A p \in Products :
                 /\ reserved'[p] >= reserved[p] - Of(it, p)
                 /\ reserved[it.product] >= it.quantity =>
                       reserved'[p] = reserved[p] - Of(it, p) /\ quantity'[p] = quantity[p] - Of(it, p)
<1> DEFINE q == it.product
           n == it.quantity
<1>1. CASE Ledger!CanCommit(q, n)
  <2>1. /\ q \in listed /\ reserved[q] >= n /\ quantity[q] >= n
        /\ reserved' = [reserved EXCEPT ![q] = @ - n] /\ quantity' = [quantity EXCEPT ![q] = @ - n]
        /\ UNCHANGED listed
    BY <1>1 DEF TryCommit, Ledger!CanCommit, Ledger!Commit
  <2>2. \A p \in Products : /\ reserved'[p] = IF p = q THEN reserved[p] - n ELSE reserved[p]
                            /\ quantity'[p] = IF p = q THEN quantity[p] - n ELSE quantity[p]
    BY <2>1 DEF LedgerOK
  <2>3. reserved' \in [Products -> Nat] /\ quantity' \in [Products -> Nat]
    BY <2>1 DEF LedgerOK
  <2>4. LedgerOK'
    BY <2>1, <2>2, <2>3 DEF LedgerOK
  <2>5. QED
    BY <2>1, <2>2, <2>4 DEF Of, LedgerOK
<1>2. CASE ~Ledger!CanCommit(q, n)
  <2>1. UNCHANGED <<listed, quantity, reserved>>
    BY <1>2 DEF TryCommit, ledgerVars
  <2>2. ~ (reserved[q] >= n)
    BY <1>2 DEF Ledger!CanCommit, LedgerOK
  <2>3. QED
    BY <2>1, <2>2 DEF LedgerOK, Of
<1>3. QED
  BY <1>1, <1>2

-----------------------------------------------------------------------------
(* The handlers keep their records in order.                               *)

LEMMA TypeParts ==
    ASSUME TypeOK
    PROVE  /\ create \in [Orders -> {NoCreate} \cup CreateRecords]
           /\ status \in [Orders -> {"none"} \cup Statuses]
           /\ call \in [Calls -> {NoCall} \cup CallRecords]
           /\ shipments \subseteq Orders /\ faults \in 0 .. MaxFaults
  BY DEF TypeOK, CreateRecords, CallRecords

\* A step of the POST of o.
LEMMA CreateStep ==
    ASSUME SagaInv, LedgerOK', NEW o \in Orders,
           create' \in [Orders -> {create'[x] : x \in Orders}],
           \A x \in Orders \ {o} : create'[x] = create[x] /\ status'[x] = status[x],
           create'[o] \in CreateRecords,
           status[o] # "none" => create'[o].items = create[o].items,
           status' \in [Orders -> {"none"} \cup Statuses],
           status[o] # "none" => status'[o] # "none",
           CreateOK(o)', UNCHANGED <<call, shipments>>, faults' \in 0 .. MaxFaults
    PROVE  SagaInv'
<1>1. /\ create \in [Orders -> {NoCreate} \cup CreateRecords]
      /\ call \in [Calls -> {NoCall} \cup CallRecords] /\ shipments \subseteq Orders
  BY TypeParts DEF SagaInv
<1>2. create' \in [Orders -> {NoCreate} \cup CreateRecords]
  <2>1. \A x \in Orders : create'[x] \in {NoCreate} \cup CreateRecords
    BY <1>1
  <2>2. QED
    BY <2>1
<1>3. TypeOK'
  BY <1>1, <1>2 DEF TypeOK, CreateRecords, CallRecords, NoCall, NoCreate
<1>4. ASSUME NEW x \in Orders
      PROVE  CreateOK(x)'
  <2>1. CASE x = o
    BY <2>1
  <2>2. CASE x # o
    BY <2>2 DEF SagaInv, CreateOK
  <2>3. QED
    BY <2>1, <2>2
<1>5. ASSUME NEW c \in Calls
      PROVE  CallOK(c)'
  <2>1. SUFFICES ASSUME call[c] # NoCall PROVE CallOK(c)'
    BY DEF CallOK, NoCall
  <2>2. call[c].order \in Orders /\ status[call[c].order] # "none" /\ CallOK(c)
    BY <1>1, <2>1 DEF SagaInv, CallOK, CallRecords
  <2>3. /\ status'[call[c].order] # "none"
        /\ create'[call[c].order].items = create[call[c].order].items
    BY <2>2
  <2>4. QED
    BY <2>1, <2>2, <2>3 DEF CallOK, AllItems, NoCall
<1>6. QED
  BY <1>3, <1>4, <1>5 DEF SagaInv

\* A step of a PUT or a DELETE.
LEMMA CallStep ==
    ASSUME SagaInv, LedgerOK', NEW c \in Calls,
           call' \in [Calls -> {call'[d] : d \in Calls}],
           \A d \in Calls \ {c} : call'[d] = call[d],
           call'[c] \in CallRecords, UNCHANGED create,
           status' \in [Orders -> {"none"} \cup Statuses],
           \A o \in Orders : status'[o] = "none" <=> status[o] = "none",
           CallOK(c)', shipments' \subseteq Orders, faults' \in 0 .. MaxFaults
    PROVE  SagaInv'
<1>1. /\ create \in [Orders -> {NoCreate} \cup CreateRecords]
      /\ call \in [Calls -> {NoCall} \cup CallRecords]
  BY TypeParts DEF SagaInv
<1>2. call' \in [Calls -> {NoCall} \cup CallRecords]
  <2>1. \A d \in Calls : call'[d] \in {NoCall} \cup CallRecords
    BY <1>1
  <2>2. QED
    BY <2>1
<1>3. TypeOK'
  BY <1>1, <1>2 DEF TypeOK, CreateRecords, CallRecords, NoCall, NoCreate
<1>4. \A x \in Orders : CreateOK(x)'
  BY DEF SagaInv, CreateOK
<1>5. ASSUME NEW d \in Calls
      PROVE  CallOK(d)'
  <2>1. CASE d = c
    BY <2>1
  <2>2. CASE d # c
    <3>1. SUFFICES ASSUME call[d] # NoCall PROVE CallOK(d)'
      BY <2>2 DEF CallOK, NoCall
    <3>2. call[d].order \in Orders /\ CallOK(d) /\ call'[d] = call[d]
      BY <1>1, <2>2, <3>1 DEF SagaInv, CallRecords
    <3>3. QED
      BY <3>1, <3>2 DEF CallOK, AllItems, NoCall
  <2>3. QED
    BY <2>1, <2>2
<1>6. QED
  BY <1>3, <1>4, <1>5 DEF SagaInv

\* The item at hand of a POST.
LEMMA ItemAtHand ==
    ASSUME SagaInv, NEW o \in Orders, create[o].pc \in {"validate", "reserve", "rollback"}
    PROVE  /\ create[o] \in CreateRecords /\ create[o].items \in Baskets
           /\ create[o].i \in 1 .. Len(create[o].items)
           /\ Len(create[o].items) \in Nat \ {0}
           /\ Item(o) \in Items /\ Item(o).product \in Products /\ Item(o).quantity \in Nat \ {0}
<1>1. create[o] \in CreateRecords
  BY CreateTyped DEF SagaInv
<1>2. create[o].items \in Baskets
  BY <1>1 DEF CreateRecords
<1>3. Len(create[o].items) \in Nat \ {0}
  BY <1>2, BasketShape
<1>4. create[o].i \in 1 .. Len(create[o].items)
  BY <1>3 DEF SagaInv, CreateOK
<1>5. QED
  BY <1>1, <1>2, <1>3, <1>4, BasketShape DEF Item

\* The item at hand of a call.
LEMMA CallItemAtHand ==
    ASSUME SagaInv, NEW c \in Calls, call[c].pc \in {"commit", "release"}
    PROVE  /\ call[c] \in CallRecords /\ call[c].order \in Orders
           /\ create[call[c].order].items \in Baskets
           /\ Len(create[call[c].order].items) \in Nat \ {0}
           /\ call[c].i \in 1 .. Len(create[call[c].order].items)
           /\ CallItem(c) \in Items /\ CallItem(c).product \in Products
           /\ CallItem(c).quantity \in Nat \ {0}
<1>1. call[c] # NoCall
  BY DEF NoCall
<1>2. call[c] \in CallRecords /\ call[c].order \in Orders /\ status[call[c].order] # "none"
  BY <1>1, CallTyped DEF SagaInv, CallOK, CallRecords
<1>3. create[call[c].order] \in CreateRecords
  <2>1. create[call[c].order].pc \in {"clear", "failed", "done"}
    BY <1>2 DEF SagaInv, CreateOK
  <2>2. QED
    BY <1>2, <2>1, CreateTyped DEF SagaInv
<1>4. create[call[c].order].items \in Baskets
  BY <1>3 DEF CreateRecords
<1>5. Len(create[call[c].order].items) \in Nat \ {0}
  BY <1>4, BasketShape
<1>6. call[c].i \in 1 .. Len(create[call[c].order].items)
  BY <1>1, <1>2 DEF SagaInv, CallOK, AllItems
<1>7. QED
  BY <1>2, <1>4, <1>5, <1>6, BasketShape DEF CallItem

-----------------------------------------------------------------------------
(* Shares of the stock.                                                    *)

\* The units of p among the items of a basket with an index in I.
Units(items, I, p) ==
    SumFunctionOnSet([i \in DOMAIN items |-> items[i].quantity], {i \in I : items[i].product = p})

\* The items of order o that calls have taken, and those that were confirmed.
Gone(o) == UNION {Handled(c) : c \in {d \in Calls : Confirms(d, o) \/ Releases(d, o)}}
Confirmed(o) == UNION {Handled(c) : c \in {d \in Calls : Confirms(d, o)}}

\* The share of an order, from the record of its POST, its status and the items gone.
ShareOf(h, st, gone, p) ==
    CASE st # "none" -> Units(h.items, (1 .. Len(h.items)) \ gone, p)
      [] st = "none" /\ h.pc = "reserve" -> Units(h.items, 1 .. h.i - 1, p)
      [] st = "none" /\ h.pc = "rollback" -> Units(h.items, h.i .. h.kept, p)
      [] st = "none" /\ h.pc = "insert" -> Units(h.items, 1 .. Len(h.items), p)
      [] OTHER -> 0

LEMMA Shares ==
    ASSUME NEW CONSTANT o \in Orders, NEW CONSTANT p
    PROVE  /\ Held(o, p) = ShareOf(create[o], status[o], Gone(o), p)
           /\ Held(o, p)' = ShareOf(create'[o], status'[o], Gone(o)', p)
           /\ Sold(o, p) = Units(create[o].items, Confirmed(o), p)
           /\ Sold(o, p)' = Units(create'[o].items, Confirmed(o)', p)
  BY DEF Held, Sold, ShareOf, Units, Quantity, AllItems, Gone, Confirmed

LEMMA ShareCases ==
    ASSUME NEW h, NEW st, NEW gone, NEW p
    PROVE  /\ st # "none" => ShareOf(h, st, gone, p) = Units(h.items, (1 .. Len(h.items)) \ gone, p)
           /\ st = "none" =>
                 /\ h.pc = "reserve" => ShareOf(h, st, gone, p) = Units(h.items, 1 .. h.i - 1, p)
                 /\ h.pc = "rollback" => ShareOf(h, st, gone, p) = Units(h.items, h.i .. h.kept, p)
                 /\ h.pc = "insert" => ShareOf(h, st, gone, p) = Units(h.items, 1 .. Len(h.items), p)
                 /\ h.pc \notin {"reserve", "rollback", "insert"} => ShareOf(h, st, gone, p) = 0
  BY DEF ShareOf

\* What an order holds, from where its POST is.
LEMMA HeldCases ==
    ASSUME NEW CONSTANT o \in Orders, NEW CONSTANT p
    PROVE  /\ status[o] # "none" => Held(o, p) = Units(create[o].items, (1 .. Len(create[o].items)) \ Gone(o), p)
           /\ status[o] = "none" =>
                 /\ create[o].pc = "reserve" => Held(o, p) = Units(create[o].items, 1 .. create[o].i - 1, p)
                 /\ create[o].pc = "rollback" => Held(o, p) = Units(create[o].items, create[o].i .. create[o].kept, p)
                 /\ create[o].pc = "insert" => Held(o, p) = Units(create[o].items, 1 .. Len(create[o].items), p)
                 /\ create[o].pc \notin {"reserve", "rollback", "insert"} => Held(o, p) = 0
<1> DEFINE share == ShareOf(create[o], status[o], Gone(o), p)
<1>1. Held(o, p) = share
  BY Shares
<1>2. /\ status[o] # "none" => share = Units(create[o].items, (1 .. Len(create[o].items)) \ Gone(o), p)
      /\ status[o] = "none" =>
            /\ create[o].pc = "reserve" => share = Units(create[o].items, 1 .. create[o].i - 1, p)
            /\ create[o].pc = "rollback" => share = Units(create[o].items, create[o].i .. create[o].kept, p)
            /\ create[o].pc = "insert" => share = Units(create[o].items, 1 .. Len(create[o].items), p)
            /\ create[o].pc \notin {"reserve", "rollback", "insert"} => share = 0
  BY ZenonT(30), ShareCases
<1> HIDE DEF share
<1>3. QED
  BY <1>1, <1>2

LEMMA NextHeldCases ==
    ASSUME NEW CONSTANT o \in Orders, NEW CONSTANT p
    PROVE  /\ status'[o] # "none" => Held(o, p)' = Units(create'[o].items, (1 .. Len(create'[o].items)) \ Gone(o)', p)
           /\ status'[o] = "none" =>
                 /\ create'[o].pc = "reserve" => Held(o, p)' = Units(create'[o].items, 1 .. create'[o].i - 1, p)
                 /\ create'[o].pc = "rollback" => Held(o, p)' = Units(create'[o].items, create'[o].i .. create'[o].kept, p)
                 /\ create'[o].pc = "insert" => Held(o, p)' = Units(create'[o].items, 1 .. Len(create'[o].items), p)
                 /\ create'[o].pc \notin {"reserve", "rollback", "insert"} => Held(o, p)' = 0
<1> DEFINE P ==
      /\ status[o] # "none" => Held(o, p) = Units(create[o].items, (1 .. Len(create[o].items)) \ Gone(o), p)
      /\ status[o] = "none" =>
            /\ create[o].pc = "reserve" => Held(o, p) = Units(create[o].items, 1 .. create[o].i - 1, p)
            /\ create[o].pc = "rollback" => Held(o, p) = Units(create[o].items, create[o].i .. create[o].kept, p)
            /\ create[o].pc = "insert" => Held(o, p) = Units(create[o].items, 1 .. Len(create[o].items), p)
            /\ create[o].pc \notin {"reserve", "rollback", "insert"} => Held(o, p) = 0
<1>1. P
  BY HeldCases
<1>2. P'
  BY <1>1, PTL
<1>3. QED
  BY <1>2

LEMMA UnitsNone ==
    ASSUME NEW items, NEW p
    PROVE  Units(items, {}, p) = 0
<1>1. {i \in {} : items[i].product = p} = {}
  OBVIOUS
<1>2. QED
  BY <1>1, FS_EmptySet, SumRecursion DEF Units

LEMMA UnitsNat ==
    ASSUME NEW items \in Baskets, NEW I, I \subseteq 1 .. Len(items), NEW p
    PROVE  Units(items, I, p) \in Nat
<1> DEFINE f == [i \in DOMAIN items |-> items[i].quantity]
           J == {i \in I : items[i].product = p}
<1>1. Len(items) \in Nat
  BY BasketShape
<1>2. IsFiniteSet(1 .. Len(items))
  BY <1>1, FS_Interval
<1>3. IsFiniteSet(J)
  BY <1>2, FS_Subset
<1>4. \A i \in J : f[i] \in Nat
  BY BasketShape
<1> HIDE DEF f, J
<1>5. SumFunctionOnSet(f, J) \in Nat
  BY <1>3, <1>4, SumIsNat
<1>6. QED
  BY <1>5 DEF Units, f, J

LEMMA UnitsAdd ==
    ASSUME NEW items \in Baskets, NEW I \in SUBSET (1 .. Len(items)),
           NEW k \in (1 .. Len(items)) \ I, NEW p
    PROVE  Units(items, I \cup {k}, p) = Units(items, I, p) + Of(items[k], p)
<1> DEFINE f == [i \in DOMAIN items |-> items[i].quantity]
           J == {i \in I : items[i].product = p}
           K == {i \in I \cup {k} : items[i].product = p}
<1>1. Len(items) \in Nat
  BY BasketShape
<1>2. IsFiniteSet(1 .. Len(items))
  BY <1>1, FS_Interval
<1>3. IsFiniteSet(K)
  <2>1. K \subseteq 1 .. Len(items)
    OBVIOUS
  <2> HIDE DEF K
  <2>2. QED
    BY <1>2, <2>1, FS_Subset
<1>4. /\ \A i \in K : f[i] \in Int
      /\ f[k] = items[k].quantity
  BY BasketShape
<1>5. Units(items, I, p) \in Nat
  BY UnitsNat
<1>6. CASE items[k].product = p
  <2>1. k \in K /\ K \ {k} = J
    BY <1>6
  <2> HIDE DEF f, J, K
  <2>2. SumFunctionOnSet(f, K) = f[k] + SumFunctionOnSet(f, J)
    <3>1. k \in K /\ \A i \in K : f[i] \in Int
      BY <1>4, <2>1
    <3>2. SumFunctionOnSet(f, K) = f[k] + SumFunctionOnSet(f, K \ {k})
      BY ZenonT(30), <1>3, <3>1, SumSplit
    <3>3. QED
      BY <2>1, <3>2
  <2>3. SumFunctionOnSet(f, K) = Units(items, I \cup {k}, p) /\ SumFunctionOnSet(f, J) = Units(items, I, p)
    BY DEF Units, f, J, K
  <2>4. items[k].quantity \in Nat
    BY BasketShape
  <2>5. QED
    BY <1>4, <1>5, <1>6, <2>2, <2>3, <2>4 DEF Of
<1>7. CASE items[k].product # p
  <2>1. K = J
    BY <1>7
  <2>2. Units(items, I \cup {k}, p) = Units(items, I, p)
    BY <2>1 DEF Units
  <2>3. QED
    BY <1>5, <1>7, <2>2 DEF Of
<1>8. QED
  BY <1>6, <1>7

\* What calls have handled are items of the order; an order that is not inserted
\* has no call.
LEMMA HandledItems ==
    ASSUME SagaInv, NEW o \in Orders
    PROVE  /\ Gone(o) \subseteq 1 .. Len(create[o].items)
           /\ Confirmed(o) \subseteq 1 .. Len(create[o].items)
           /\ status[o] = "none" => \A c \in Calls : ~Confirms(c, o) /\ ~Releases(c, o)
           /\ status[o] = "none" => Gone(o) = {} /\ Confirmed(o) = {}
<1>1. ASSUME NEW c \in Calls, Confirms(c, o) \/ Releases(c, o)
      PROVE  Handled(c) \subseteq 1 .. Len(create[o].items) /\ status[o] # "none"
  <2>1. call[c] # NoCall /\ call[c].order = o
    BY <1>1 DEF Confirms, Releases, Put
  <2>2. CallOK(c) /\ status[o] # "none"
    BY <2>1 DEF SagaInv, CallOK
  <2>3. CASE call[c].pc \in {"commit", "release"}
    <3>1. call[c].i \in 1 .. Len(create[o].items) /\ Len(create[o].items) \in Nat
      BY <2>1, <2>3, CallItemAtHand
    <3>2. Handled(c) = 1 .. call[c].i - 1
      BY <2>3 DEF Handled
    <3>3. QED
      BY <2>2, <3>1, <3>2
  <2>4. CASE call[c].pc \notin {"commit", "release"}
    BY <2>1, <2>2, <2>4 DEF Handled, AllItems
  <2>5. QED
    BY <2>3, <2>4
<1>2. QED
  BY <1>1 DEF Gone, Confirmed

LEMMA InsertedBasket ==
    ASSUME SagaInv, NEW o \in Orders, status[o] # "none"
    PROVE  create[o] \in CreateRecords /\ create[o].items \in Baskets
<1>1. create[o].pc \in {"clear", "failed", "done"}
  BY DEF SagaInv, CreateOK
<1>2. QED
  BY <1>1, CreateTyped DEF SagaInv, CreateRecords

LEMMA SharesAreNat ==
    ASSUME SagaInv, NEW o \in Orders, NEW p
    PROVE  Held(o, p) \in Nat /\ Sold(o, p) \in Nat
<1> DEFINE h == create[o]
           n == Len(h.items)
<1>1. Gone(o) \subseteq 1 .. n /\ Confirmed(o) \subseteq 1 .. n
  BY HandledItems
<1>2. Held(o, p) = ShareOf(h, status[o], Gone(o), p) /\ Sold(o, p) = Units(h.items, Confirmed(o), p)
  BY Shares
<1> DEFINE share == ShareOf(h, status[o], Gone(o), p)
<1>2a. /\ status[o] # "none" => share = Units(h.items, (1 .. n) \ Gone(o), p)
       /\ status[o] = "none" =>
             /\ h.pc = "reserve" => share = Units(h.items, 1 .. h.i - 1, p)
             /\ h.pc = "rollback" => share = Units(h.items, h.i .. h.kept, p)
             /\ h.pc = "insert" => share = Units(h.items, 1 .. n, p)
             /\ h.pc \notin {"reserve", "rollback", "insert"} => share = 0
  BY ZenonT(30), ShareCases
<1> HIDE DEF share
<1>2b. Held(o, p) = share
  BY <1>2 DEF share
<1>3. CASE status[o] # "none"
  <2>1. h.items \in Baskets
    BY <1>3, InsertedBasket
  <2>2. Units(h.items, (1 .. n) \ Gone(o), p) \in Nat /\ Units(h.items, Confirmed(o), p) \in Nat
    BY <1>1, <2>1, UnitsNat
  <2>3. QED
    BY <1>2, <1>2a, <1>2b, <1>3, <2>2
<1>4. CASE status[o] = "none"
  <2>1. Sold(o, p) = 0
    BY <1>2, <1>4, HandledItems, UnitsNone
  <2>2. CASE h.pc \notin {"reserve", "rollback", "insert"}
    BY <1>2a, <1>2b, <1>4, <2>1, <2>2
  <2>3. CASE h.pc \in {"reserve", "rollback"}
    <3>1. h.items \in Baskets /\ h.i \in 1 .. n /\ n \in Nat
      BY <2>3, ItemAtHand
    <3>2. h.pc = "rollback" => h.kept \in 1 .. n
      BY DEF SagaInv, CreateOK
    <3>3. 1 .. h.i - 1 \subseteq 1 .. n /\ (h.pc = "rollback" => h.i .. h.kept \subseteq 1 .. n)
      BY <3>1, <3>2
    <3>4. Units(h.items, 1 .. h.i - 1, p) \in Nat /\ (h.pc = "rollback" => Units(h.items, h.i .. h.kept, p) \in Nat)
      BY <3>1, <3>3, UnitsNat
    <3>5. QED
      BY <1>2a, <1>2b, <1>4, <2>1, <2>3, <3>4
  <2>4. CASE h.pc = "insert"
    <3>1. h.items \in Baskets
      BY <2>4, CreateTyped DEF SagaInv, CreateRecords
    <3>2. Units(h.items, 1 .. n, p) \in Nat
      BY <3>1, UnitsNat
    <3>3. QED
      BY <1>2a, <1>2b, <1>4, <2>1, <2>4, <3>2
  <2>5. QED
    BY <2>2, <2>3, <2>4
<1>5. QED
  BY <1>3, <1>4

\* The shares in a state and in the next one.
LEMMA SharesTyped ==
    /\ SagaInv => \A o \in Orders : \A p \in Products : Held(o, p) \in Nat /\ Sold(o, p) \in Nat
    /\ SagaInv' => \A o \in Orders : \A p \in Products : Held(o, p)' \in Nat /\ Sold(o, p)' \in Nat
<1> DEFINE P == SagaInv => \A o \in Orders : \A p \in Products : Held(o, p) \in Nat /\ Sold(o, p) \in Nat
<1>1. P
  BY SharesAreNat
<1>2. P'
  BY <1>1, PTL
<1>3. QED
  BY <1>1, <1>2

-----------------------------------------------------------------------------
(* The books.                                                              *)

LEMMA Totals ==
    ASSUME NEW CONSTANT p
    PROVE  /\ TotalHeld(p) = SumFunctionOnSet([x \in Orders |-> Held(x, p)], Orders)
           /\ TotalHeld(p)' = SumFunctionOnSet([x \in Orders |-> Held(x, p)'], Orders)
           /\ TotalSold(p) = SumFunctionOnSet([x \in Orders |-> Sold(x, p)], Orders)
           /\ TotalSold(p)' = SumFunctionOnSet([x \in Orders |-> Sold(x, p)'], Orders)
<1>1. \A f : SumFunction(f) = SumFunctionOnSet(f, DOMAIN f)
  BY DEF SumFunction
<1> DEFINE h == [x \in Orders |-> Held(x, p)]
           s == [x \in Orders |-> Sold(x, p)]
<1>2. DOMAIN h = Orders /\ (DOMAIN h)' = Orders /\ DOMAIN s = Orders /\ (DOMAIN s)' = Orders
  OBVIOUS
<1>3. /\ TotalHeld(p) = SumFunction(h) /\ TotalHeld(p)' = SumFunction(h')
      /\ TotalSold(p) = SumFunction(s) /\ TotalSold(p)' = SumFunction(s')
  BY DEF TotalHeld, TotalSold
<1>4. /\ TotalHeld(p) = SumFunctionOnSet(h, DOMAIN h) /\ TotalHeld(p)' = SumFunctionOnSet(h', DOMAIN h')
      /\ TotalSold(p) = SumFunctionOnSet(s, DOMAIN s) /\ TotalSold(p)' = SumFunctionOnSet(s', DOMAIN s')
  BY <1>1, <1>3
<1>5. QED
  BY <1>2, <1>4

\* The share of each order is covered by what is reserved.
LEMMA HeldCovered ==
    ASSUME SagaInv, StockInv, SettledOnce, NEW CONSTANT o \in Orders, NEW CONSTANT p \in Products
    PROVE  Held(o, p) <= reserved[p]
<1> DEFINE f == [x \in Orders |-> Held(x, p)]
<1>1. IsFiniteSet(Orders)
  BY OrderAssumption
<1>2. \A x \in Orders : f[x] \in Nat
  BY SharesAreNat
<1>3. TotalHeld(p) = SumFunctionOnSet(f, Orders)
  BY Totals
<1>3a. f[o] = Held(o, p)
  OBVIOUS
<1> HIDE DEF f
<1>4. SumFunctionOnSet(f, Orders) \in Nat /\ f[o] <= SumFunctionOnSet(f, Orders)
  BY <1>1, <1>2, SumIsNat
<1>5. TotalHeld(p) <= reserved[p] /\ reserved[p] \in Nat
  BY DEF StockInv, SagaInv, LedgerOK
<1>6. Held(o, p) \in Nat
  BY SharesAreNat
<1>7. QED
  BY <1>3, <1>3a, <1>4, <1>5, <1>6

LEMMA Balance ==
    ASSUME NEW r \in Int, NEW r2 \in Int, NEW q \in Int, NEW q2 \in Int, NEW h \in Int, NEW h2 \in Int,
           NEW s \in Int, NEW s2 \in Int, NEW th \in Int, NEW ts \in Int, NEW th2, NEW ts2, NEW seed,
           th2 = th - h + h2, ts2 = ts - s + s2
    PROVE  /\ th <= r /\ r2 - h2 >= r - h => th2 <= r2
           /\ r = th /\ r2 - h2 = r - h => r2 = th2
           /\ q + ts = seed /\ q2 + s2 = q + s => q2 + ts2 = seed
  OBVIOUS

\* A step moves the share of one order only, and moves the columns with it.
LEMMA StockStep ==
    ASSUME SagaInv, SagaInv', StockInv, NEW CONSTANT o \in Orders,
           SettledOnce' => SettledOnce, faults' = 0 => faults = 0,
           SettledOnce' => \A p \in Products :
              /\ \A x \in Orders \ {o} : Held(x, p)' = Held(x, p) /\ Sold(x, p)' = Sold(x, p)
              /\ reserved'[p] - Held(o, p)' >= reserved[p] - Held(o, p)
              /\ faults' = 0 => /\ reserved'[p] - Held(o, p)' = reserved[p] - Held(o, p)
                                /\ quantity'[p] + Sold(o, p)' = quantity[p] + Sold(o, p)
    PROVE  StockInv'
<1> SUFFICES ASSUME SettledOnce', NEW CONSTANT p \in Products
    PROVE  /\ TotalHeld(p)' <= reserved'[p]
           /\ faults' = 0 =>
                 /\ reserved'[p] = TotalHeld(p)'
                 /\ quantity'[p] + TotalSold(p)' = IF p \in SeededProducts THEN SeedQuantity[p] ELSE 0
  BY DEF StockInv
<1> DEFINE h == [x \in Orders |-> Held(x, p)]
           h2 == [x \in Orders |-> Held(x, p)']
           s == [x \in Orders |-> Sold(x, p)]
           s2 == [x \in Orders |-> Sold(x, p)']
<1>1. \A x \in Orders : h[x] \in Int /\ h2[x] \in Int /\ s[x] \in Int /\ s2[x] \in Int
  BY SharesTyped
<1>2. \A x \in Orders \ {o} : h2[x] = h[x] /\ s2[x] = s[x]
  OBVIOUS
<1>3. /\ TotalHeld(p) = SumFunctionOnSet(h, Orders) /\ TotalHeld(p)' = SumFunctionOnSet(h2, Orders)
      /\ TotalSold(p) = SumFunctionOnSet(s, Orders) /\ TotalSold(p)' = SumFunctionOnSet(s2, Orders)
  BY Totals
<1>4. h[o] = Held(o, p) /\ h2[o] = Held(o, p)' /\ s[o] = Sold(o, p) /\ s2[o] = Sold(o, p)'
  OBVIOUS
<1>5. IsFiniteSet(Orders)
  BY OrderAssumption
<1> DEFINE th == SumFunctionOnSet(h, Orders)
           ts == SumFunctionOnSet(s, Orders)
           th2 == SumFunctionOnSet(h2, Orders)
           ts2 == SumFunctionOnSet(s2, Orders)
           seed == IF p \in SeededProducts THEN SeedQuantity[p] ELSE 0
<1> HIDE DEF h, h2, s, s2
<1>6. /\ \A y \in Orders : h[y] \in Int /\ h2[y] \in Int
      /\ \A y \in Orders : s[y] \in Int /\ s2[y] \in Int
      /\ \A y \in Orders \ {o} : h2[y] = h[y]
      /\ \A y \in Orders \ {o} : s2[y] = s[y]
  BY <1>1, <1>2
<1>7. th2 = th - h[o] + h2[o] /\ ts2 = ts - s[o] + s2[o]
  <2>1. th2 = th - h[o] + h2[o]
    BY <1>5, <1>6, SumChange
  <2>2. ts2 = ts - s[o] + s2[o]
    BY <1>5, <1>6, SumChange
  <2>3. QED
    BY <2>1, <2>2
<1>8. th \in Int /\ ts \in Int
  BY <1>1, <1>5, SumIsInt
<1>9. reserved[p] \in Int /\ reserved'[p] \in Int /\ quantity[p] \in Int /\ quantity'[p] \in Int
  BY DEF SagaInv, LedgerOK
<1>10. /\ reserved'[p] - h2[o] >= reserved[p] - h[o]
       /\ faults' = 0 => /\ reserved'[p] - h2[o] = reserved[p] - h[o]
                         /\ quantity'[p] + s2[o] = quantity[p] + s[o]
  BY <1>4
<1>11. /\ th <= reserved[p]
       /\ faults = 0 => reserved[p] = th /\ quantity[p] + ts = seed
  BY <1>3 DEF StockInv
<1>12. h[o] \in Int /\ h2[o] \in Int /\ s[o] \in Int /\ s2[o] \in Int
  BY <1>1
<1> HIDE DEF th, ts, th2, ts2, seed
<1>13. /\ th <= reserved[p] /\ reserved'[p] - h2[o] >= reserved[p] - h[o] => th2 <= reserved'[p]
       /\ reserved[p] = th /\ reserved'[p] - h2[o] = reserved[p] - h[o] => reserved'[p] = th2
       /\ quantity[p] + ts = seed /\ quantity'[p] + s2[o] = quantity[p] + s[o] => quantity'[p] + ts2 = seed
  BY <1>7, <1>8, <1>9, <1>12, Balance
<1>14. th2 <= reserved'[p]
  BY <1>10, <1>11, <1>13
<1>15. ASSUME faults' = 0
       PROVE  reserved'[p] = th2 /\ quantity'[p] + ts2 = seed
  BY <1>10, <1>11, <1>13, <1>15
<1>16. QED
  BY <1>3, <1>14, <1>15 DEF th2, ts2, seed

-----------------------------------------------------------------------------
(* The steps of a POST.                                                    *)

\* What calls take, from which of them deal with an order and how far they are.
LEMMA GoneAgrees ==
    ASSUME NEW CONSTANT x \in Orders,
           \A c \in Calls : /\ Confirms(c, x)' = Confirms(c, x) /\ Releases(c, x)' = Releases(c, x)
                            /\ Confirms(c, x) \/ Releases(c, x) => Handled(c)' = Handled(c)
    PROVE  Gone(x)' = Gone(x) /\ Confirmed(x)' = Confirmed(x)
<1>1. {d \in Calls : Confirms(d, x)' \/ Releases(d, x)'} = {d \in Calls : Confirms(d, x) \/ Releases(d, x)}
  OBVIOUS
<1>2. {d \in Calls : Confirms(d, x)'} = {d \in Calls : Confirms(d, x)}
  OBVIOUS
<1>3. Gone(x)' = UNION {Handled(c)' : c \in {d \in Calls : Confirms(d, x) \/ Releases(d, x)}}
  BY <1>1 DEF Gone
<1>4. Confirmed(x)' = UNION {Handled(c)' : c \in {d \in Calls : Confirms(d, x)}}
  BY <1>2 DEF Confirmed
<1>5. {Handled(c)' : c \in {d \in Calls : Confirms(d, x) \/ Releases(d, x)}}
        = {Handled(c) : c \in {d \in Calls : Confirms(d, x) \/ Releases(d, x)}}
  OBVIOUS
<1>6. {Handled(c)' : c \in {d \in Calls : Confirms(d, x)}} = {Handled(c) : c \in {d \in Calls : Confirms(d, x)}}
  OBVIOUS
<1>7. QED
  BY <1>3, <1>4, <1>5, <1>6 DEF Gone, Confirmed

LEMMA CreateShares ==
    ASSUME SagaInv, NEW CONSTANT o \in Orders, UNCHANGED call,
           \A x \in Orders \ {o} : create'[x] = create[x] /\ status'[x] = status[x],
           status[o] # "none" => create'[o].items = create[o].items /\ status'[o] = status[o]
    PROVE  /\ SettledOnce' <=> SettledOnce
           /\ \A p \in Products :
                 /\ \A x \in Orders \ {o} : Held(x, p)' = Held(x, p) /\ Sold(x, p)' = Sold(x, p)
                 /\ Sold(o, p)' = Sold(o, p)
                 /\ status[o] # "none" => Held(o, p)' = Held(o, p)
           /\ status[o] = "none" => Gone(o)' = {}
<1>1. \A c \in Calls : \A x \in Orders : /\ Confirms(c, x)' = Confirms(c, x) /\ Releases(c, x)' = Releases(c, x)
  BY DEF Confirms, Releases, Put
<1>2. SettledOnce' <=> SettledOnce
  BY <1>1 DEF SettledOnce
<1>3. ASSUME NEW c \in Calls, NEW x \in Orders, Confirms(c, x) \/ Releases(c, x)
      PROVE  Handled(c)' = Handled(c) /\ status[x] # "none"
  <2>1. call[c] # NoCall /\ call[c].order = x
    BY <1>3 DEF Confirms, Releases, Put
  <2>2. status[x] # "none"
    BY <2>1 DEF SagaInv, CallOK
  <2>3. create'[x].items = create[x].items
    BY <2>2
  <2>4. AllItems(call[c].order)' = AllItems(call[c].order)
    BY <2>1, <2>3 DEF AllItems
  <2>5. QED
    BY <2>2, <2>4 DEF Handled
<1>4. \A x \in Orders : Gone(x)' = Gone(x) /\ Confirmed(x)' = Confirmed(x)
  BY <1>1, <1>3, GoneAgrees
<1>5. status[o] = "none" => Gone(o) = {} /\ Confirmed(o) = {}
  BY HandledItems
<1>6. ASSUME NEW CONSTANT p \in Products, NEW CONSTANT x \in Orders \ {o}
      PROVE  Held(x, p)' = Held(x, p) /\ Sold(x, p)' = Sold(x, p)
  BY <1>4, Shares
<1>7. ASSUME NEW CONSTANT p \in Products
      PROVE  Sold(o, p)' = Sold(o, p) /\ (status[o] # "none" => Held(o, p)' = Held(o, p))
  <2>1. Gone(o)' = Gone(o) /\ Confirmed(o)' = Confirmed(o)
    BY <1>4
  <2>2. Sold(o, p) = Units(create[o].items, Confirmed(o), p) /\ Sold(o, p)' = Units(create'[o].items, Confirmed(o)', p)
    BY Shares
  <2>3. CASE status[o] = "none"
    BY <1>5, <2>1, <2>2, <2>3, UnitsNone
  <2>4. CASE status[o] # "none"
    <3>1. Held(o, p) = Units(create[o].items, (1 .. Len(create[o].items)) \ Gone(o), p)
      BY <2>4, HeldCases
    <3>2. Held(o, p)' = Units(create'[o].items, (1 .. Len(create'[o].items)) \ Gone(o)', p)
      BY <2>4, NextHeldCases
    <3>3. QED
      BY <2>1, <2>2, <2>4, <3>1, <3>2
  <2>5. QED
    BY <2>3, <2>4
<1>8. QED
  BY <1>2, <1>4, <1>5, <1>6, <1>7

LEMMA FaultCounts ==
    ASSUME SagaInv, Fault
    PROVE  faults' \in 0 .. MaxFaults /\ faults' # 0
<1>1. faults \in 0 .. MaxFaults /\ MaxFaults \in Nat
  BY TypeParts, OrderAssumption DEF SagaInv
<1>2. QED
  BY <1>1 DEF Fault

LEMMA LedgerSame ==
    ASSUME LedgerOK, UNCHANGED ledgerVars
    PROVE  LedgerOK' /\ UNCHANGED <<reserved, quantity>>
  BY DEF LedgerOK, ledgerVars

\* The stock is explained after a step of the POST of o, if before the insert the
\* column moves by what its share moves, and after it not at all.
LEMMA CreateStock ==
    ASSUME SagaInv, SagaInv', StockInv, NEW CONSTANT o \in Orders, UNCHANGED call,
           \A x \in Orders \ {o} : create'[x] = create[x] /\ status'[x] = status[x],
           status[o] # "none" => create'[o].items = create[o].items /\ status'[o] = status[o],
           status[o] # "none" => UNCHANGED reserved,
           \A p \in Products : quantity'[p] = quantity[p],
           faults' = 0 => faults = 0,
           status[o] = "none" /\ SettledOnce => \A p \in Products :
              /\ reserved'[p] - Held(o, p)' >= reserved[p] - Held(o, p)
              /\ faults' = 0 => reserved'[p] - Held(o, p)' = reserved[p] - Held(o, p)
    PROVE  StockInv'
<1>1. /\ SettledOnce' <=> SettledOnce
      /\ \A p \in Products :
            /\ \A x \in Orders \ {o} : Held(x, p)' = Held(x, p) /\ Sold(x, p)' = Sold(x, p)
            /\ Sold(o, p)' = Sold(o, p)
            /\ status[o] # "none" => Held(o, p)' = Held(o, p)
  BY CreateShares
<1>2. ASSUME SettledOnce', NEW p \in Products
      PROVE  /\ reserved'[p] - Held(o, p)' >= reserved[p] - Held(o, p)
             /\ faults' = 0 => /\ reserved'[p] - Held(o, p)' = reserved[p] - Held(o, p)
                               /\ quantity'[p] + Sold(o, p)' = quantity[p] + Sold(o, p)
  <2>1. CASE status[o] = "none"
    BY <1>1, <1>2, <2>1
  <2>2. CASE status[o] # "none"
    <3>1. reserved'[p] = reserved[p] /\ Held(o, p)' = Held(o, p) /\ reserved[p] \in Int
      BY <1>1, <2>2 DEF SagaInv, LedgerOK
    <3>2. Held(o, p) \in Int
      BY SharesAreNat
    <3>3. QED
      BY <1>1, <3>1, <3>2
  <2>3. QED
    BY <2>1, <2>2
<1>3. QED
  BY <1>1, <1>2, StockStep

\* A request arrives.
LEMMA PostStep ==
    ASSUME SagaInv, NEW CONSTANT o \in Orders, NEW items \in Baskets, Post(o, items)
    PROVE  SagaInv' /\ (StockInv => StockInv')
<1>1. /\ create[o].pc = "none" /\ UNCHANGED <<status, call, shipments, faults>> /\ UNCHANGED ledgerVars
      /\ create' = [create EXCEPT ![o] = [pc |-> "validate", items |-> items, i |-> 1, kept |-> 0]]
  BY DEF Post
<1>2. DOMAIN create = Orders /\ status \in [Orders -> {"none"} \cup Statuses] /\ faults \in 0 .. MaxFaults
  BY TypeParts DEF SagaInv
<1>3. /\ create' \in [Orders -> {create'[x] : x \in Orders}]
      /\ \A x \in Orders \ {o} : create'[x] = create[x]
      /\ create'[o] = [pc |-> "validate", items |-> items, i |-> 1, kept |-> 0]
  BY <1>1, <1>2
<1>4. /\ create'[o].pc = "validate" /\ create'[o].items = items /\ create'[o].i = 1
      /\ create'[o] \in CreateRecords
  BY <1>3 DEF CreateRecords, CreateActive
<1>5. status[o] = "none" /\ status'[o] = "none"
  BY <1>1 DEF SagaInv, CreateOK
<1>6. LedgerOK' /\ UNCHANGED <<reserved, quantity>>
  BY <1>1, LedgerSame DEF SagaInv
<1>7. CreateOK(o)'
  <2>1. 1 \in 1 .. Len(items)
    BY BasketShape
  <2>2. QED
    BY <1>4, <1>5, <2>1 DEF CreateOK
<1>8. SagaInv'
  BY <1>1, <1>2, <1>3, <1>4, <1>5, <1>6, <1>7, CreateStep
<1>9. \A p \in Products : Held(o, p) = 0 /\ Held(o, p)' = 0
  BY <1>1, <1>4, <1>5, HeldCases, NextHeldCases
<1>10. StockInv => StockInv'
  <2> SUFFICES ASSUME StockInv PROVE StockInv'
    OBVIOUS
  <2>1. \A p \in Products : reserved[p] \in Int
    BY DEF SagaInv, LedgerOK
  <2>2. QED
    BY <1>1, <1>3, <1>5, <1>6, <1>8, <1>9, <2>1, CreateStock
<1>11. QED
  BY <1>8, <1>10

\* What the steps that go on with the next item, or set the pc, have in common.
LEMMA HandlerRow ==
    ASSUME SagaInv, NEW o \in Orders, create[o].pc # "none"
    PROVE  /\ create[o] \in CreateRecords /\ create[o].items \in Baskets
           /\ Len(create[o].items) \in Nat \ {0}
           /\ status \in [Orders -> {"none"} \cup Statuses] /\ faults \in 0 .. MaxFaults
<1>1. create[o] \in CreateRecords
  BY CreateTyped DEF SagaInv
<1>2. create[o].items \in Baskets
  BY <1>1 DEF CreateRecords
<1>3. QED
  BY <1>1, <1>2, BasketShape, TypeParts DEF SagaInv

\* A step of a handler that has not inserted its order, and does not insert it.
LEMMA EarlyStep ==
    ASSUME SagaInv, LedgerOK', NEW CONSTANT o \in Orders, status[o] = "none",
           UNCHANGED <<status, call, shipments>>, \A p \in Products : quantity'[p] = quantity[p],
           NEW pc, NEW i, NEW kept,
           CreateIs(o, create'[o], pc, i, kept),
           create' \in [Orders -> {create'[x] : x \in Orders}],
           \A x \in Orders \ {o} : create'[x] = create[x],
           faults' \in 0 .. MaxFaults, faults' = 0 => faults = 0,
           pc \in {"validate", "reserve"} => i \in 1 .. Len(create[o].items),
           pc = "rollback" => kept \in 1 .. Len(create[o].items) /\ i \in 1 .. kept,
           StockInv /\ SettledOnce => \A p \in Products :
              /\ reserved'[p] - Held(o, p)' >= reserved[p] - Held(o, p)
              /\ faults' = 0 => reserved'[p] - Held(o, p)' = reserved[p] - Held(o, p)
    PROVE  SagaInv' /\ (StockInv => StockInv')
<1>1. status \in [Orders -> {"none"} \cup Statuses]
  BY TypeParts DEF SagaInv
<1>2. CreateOK(o)'
  BY DEF CreateOK, CreateIs
<1>3. SagaInv'
  BY <1>1, <1>2, CreateStep DEF CreateIs
<1>4. ASSUME StockInv
      PROVE  StockInv'
  BY <1>3, <1>4, CreateStock
<1>5. QED
  BY <1>3, <1>4

LEMMA ValidateStep ==
    ASSUME SagaInv, NEW CONSTANT o \in Orders, validate_and_enrich_items(o)
    PROVE  SagaInv' /\ (StockInv => StockInv')
<1> DEFINE n == Len(create[o].items)
<1>1. create[o].pc = "validate" /\ UNCHANGED <<status, call, shipments>> /\ UNCHANGED ledgerVars
  BY DEF validate_and_enrich_items
<1>2. status[o] = "none" /\ create[o].i \in 1 .. n
  BY <1>1 DEF SagaInv, CreateOK
<1>3. create[o] \in CreateRecords /\ create[o].items \in Baskets /\ n \in Nat \ {0} /\ faults \in 0 .. MaxFaults
  BY <1>1, HandlerRow
<1>4. LedgerOK' /\ UNCHANGED <<reserved, quantity>>
  BY <1>1, LedgerSame DEF SagaInv
<1>5. faults' \in 0 .. MaxFaults /\ (faults' = 0 => faults = 0)
  BY <1>3, FaultCounts DEF validate_and_enrich_items
<1>6. \A p \in Products : Held(o, p) = 0 /\ reserved[p] \in Int
  <2>1. \A p \in Products : Held(o, p) = 0
    BY <1>1, <1>2, HeldCases
  <2>2. \A p \in Products : reserved[p] \in Int
    BY DEF SagaInv, LedgerOK
  <2>3. QED
    BY <2>1, <2>2
<1>7. CASE create' = [create EXCEPT ![o].pc = "refused"]
  <2>1. /\ CreateIs(o, create'[o], "refused", create[o].i, create[o].kept)
        /\ create' \in [Orders -> {create'[x] : x \in Orders}]
        /\ \A x \in Orders \ {o} : create'[x] = create[x]
    BY <1>1, <1>7, SetPc DEF SagaInv
  <2>2. create'[o].pc = "refused"
    BY <2>1 DEF CreateIs
  <2>3. \A p \in Products : Held(o, p)' = 0
    BY <1>1, <1>2, <2>2, NextHeldCases
  <2>4. QED
    BY <1>1, <1>2, <1>4, <1>5, <1>6, <2>1, <2>3, EarlyStep
<1>8. CASE NextItem(o, n, "reserve")
  <2>1. /\ IF create[o].i < n
           THEN CreateIs(o, create'[o], "validate", create[o].i + 1, create[o].kept)
           ELSE CreateIs(o, create'[o], "reserve", 1, create[o].kept)
        /\ create' \in [Orders -> {create'[x] : x \in Orders}]
        /\ \A x \in Orders \ {o} : create'[x] = create[x]
    BY <1>1, <1>3, <1>8, NextItemEffect DEF SagaInv, CreateActive
  <2>2. CASE create[o].i < n
    <3>1. CreateIs(o, create'[o], "validate", create[o].i + 1, create[o].kept)
      BY <2>1, <2>2
    <3>2. create'[o].pc = "validate"
      BY <3>1 DEF CreateIs
    <3>3. \A p \in Products : Held(o, p)' = 0
      BY <1>1, <1>2, <3>2, NextHeldCases
    <3>4. create[o].i + 1 \in 1 .. n
      BY <1>2, <1>3, <2>2
    <3>5. QED
      BY <1>1, <1>2, <1>4, <1>5, <1>6, <2>1, <3>1, <3>3, <3>4, EarlyStep
  <2>3. CASE ~ (create[o].i < n)
    <3>1. CreateIs(o, create'[o], "reserve", 1, create[o].kept)
      BY <2>1, <2>3
    <3>2. create'[o].pc = "reserve" /\ create'[o].i = 1
      BY <3>1 DEF CreateIs
    <3>3. \A p \in Products : Held(o, p)' = Units(create'[o].items, 1 .. 1 - 1, p)
      BY <1>1, <1>2, <3>2, NextHeldCases
    <3>4. \A p \in Products : Held(o, p)' = 0
      <4>1. 1 .. 1 - 1 = {}
        OBVIOUS
      <4>2. QED
        BY <3>3, <4>1, UnitsNone
    <3>5. 1 \in 1 .. n
      BY <1>3
    <3>6. QED
      BY <1>1, <1>2, <1>4, <1>5, <1>6, <2>1, <3>1, <3>4, <3>5, EarlyStep
  <2>4. QED
    BY <2>2, <2>3
<1>9. QED
  BY <1>7, <1>8 DEF validate_and_enrich_items

\* One more item, at the end of the items before it or at the front of those after it.
LEMMA UnitsNext ==
    ASSUME NEW items \in Baskets, NEW i \in 1 .. Len(items), NEW p
    PROVE  /\ Units(items, 1 .. i, p) = Units(items, 1 .. i - 1, p) + Of(items[i], p)
           /\ \A k \in i .. Len(items) : Units(items, i .. k, p) = Units(items, i + 1 .. k, p) + Of(items[i], p)
           /\ Units(items, 1 .. i - 1, p) \in Nat
           /\ \A k \in i .. Len(items) : Units(items, i + 1 .. k, p) \in Nat
<1>1. Len(items) \in Nat
  BY BasketShape
<1>2. /\ 1 .. i = (1 .. i - 1) \cup {i} /\ 1 .. i - 1 \subseteq 1 .. Len(items) /\ i \notin 1 .. i - 1
  BY <1>1
<1>3. ASSUME NEW k \in i .. Len(items)
      PROVE  i .. k = (i + 1 .. k) \cup {i} /\ i + 1 .. k \subseteq 1 .. Len(items) /\ i \notin i + 1 .. k
  BY <1>1
<1>3a. ASSUME NEW I \in SUBSET (1 .. Len(items)), i \notin I
       PROVE  Units(items, I \cup {i}, p) = Units(items, I, p) + Of(items[i], p) /\ Units(items, I, p) \in Nat
  <2>1. Units(items, I, p) \in Nat
    BY UnitsNat
  <2>2. i \in (1 .. Len(items)) \ I
    BY <1>3a
  <2>3. Units(items, I \cup {i}, p) = Units(items, I, p) + Of(items[i], p)
    BY <2>2, UnitsAdd
  <2>4. QED
    BY <2>1, <2>3
<1>4. /\ Units(items, (1 .. i - 1) \cup {i}, p) = Units(items, 1 .. i - 1, p) + Of(items[i], p)
      /\ Units(items, 1 .. i - 1, p) \in Nat
  <2> DEFINE I == 1 .. i - 1
  <2>1. I \in SUBSET (1 .. Len(items)) /\ i \notin I
    BY <1>2
  <2> HIDE DEF I
  <2>2. Units(items, I \cup {i}, p) = Units(items, I, p) + Of(items[i], p) /\ Units(items, I, p) \in Nat
    BY <2>1, <1>3a
  <2>3. QED
    BY <2>2 DEF I
<1>5. ASSUME NEW k \in i .. Len(items)
      PROVE  /\ Units(items, (i + 1 .. k) \cup {i}, p) = Units(items, i + 1 .. k, p) + Of(items[i], p)
             /\ Units(items, i + 1 .. k, p) \in Nat
  <2> DEFINE I == i + 1 .. k
  <2>1. I \in SUBSET (1 .. Len(items)) /\ i \notin I
    BY <1>3
  <2> HIDE DEF I
  <2>2. Units(items, I \cup {i}, p) = Units(items, I, p) + Of(items[i], p) /\ Units(items, I, p) \in Nat
    BY <2>1, <1>3a
  <2>3. QED
    BY <2>2 DEF I
<1>6. QED
  BY <1>2, <1>3, <1>4, <1>5

LEMMA ReserveStep ==
    ASSUME SagaInv, NEW CONSTANT o \in Orders, ReserveItem(o)
    PROVE  SagaInv' /\ (StockInv => StockInv')
<1> DEFINE n == Len(create[o].items)
           k == create[o].i
<1>1. create[o].pc = "reserve" /\ UNCHANGED <<status, call, shipments, faults>>
  BY DEF ReserveItem
<1>2. status[o] = "none" /\ k \in 1 .. n
  BY <1>1 DEF SagaInv, CreateOK
<1>3. create[o] \in CreateRecords /\ create[o].items \in Baskets /\ n \in Nat \ {0} /\ faults \in 0 .. MaxFaults
  BY <1>1, HandlerRow
<1>4. /\ LedgerOK'
      /\ \A p \in Products : reserved'[p] = reserved[p] + Of(Item(o), p) /\ quantity'[p] = quantity[p]
  BY <1>1, ItemAtHand, ReserveEffect DEF ReserveItem, SagaInv
<1>5. /\ IF k < n THEN CreateIs(o, create'[o], "reserve", k + 1, create[o].kept)
                  ELSE CreateIs(o, create'[o], "insert", 1, create[o].kept)
      /\ create' \in [Orders -> {create'[x] : x \in Orders}]
      /\ \A x \in Orders \ {o} : create'[x] = create[x]
  BY <1>1, <1>3, NextItemEffect DEF ReserveItem, SagaInv, CreateActive
<1>6. ASSUME NEW p \in Products
      PROVE  /\ Held(o, p) = Units(create[o].items, 1 .. k - 1, p) /\ Held(o, p) \in Int
             /\ reserved'[p] = reserved[p] + Of(Item(o), p) /\ reserved[p] \in Int
             /\ Units(create[o].items, 1 .. k, p) = Held(o, p) + Of(Item(o), p)
             /\ Of(Item(o), p) \in Int
  <2>1. Held(o, p) = Units(create[o].items, 1 .. k - 1, p)
    BY <1>1, <1>2, HeldCases
  <2>2. /\ Units(create[o].items, 1 .. k, p) = Units(create[o].items, 1 .. k - 1, p) + Of(Item(o), p)
        /\ Units(create[o].items, 1 .. k - 1, p) \in Nat
    BY <1>2, <1>3, UnitsNext DEF Item
  <2>3. Of(Item(o), p) \in Int
    BY <1>1, ItemAtHand DEF Of
  <2>4. reserved[p] \in Int
    BY DEF SagaInv, LedgerOK
  <2>5. QED
    BY <1>4, <2>1, <2>2, <2>3, <2>4
<1>7. CASE k < n
  <2>1. CreateIs(o, create'[o], "reserve", k + 1, create[o].kept) /\ k + 1 \in 1 .. n
    BY <1>2, <1>3, <1>5, <1>7
  <2>2. create'[o].pc = "reserve" /\ create'[o].i = k + 1 /\ create'[o].items = create[o].items
    BY <2>1 DEF CreateIs
  <2>3. ASSUME NEW p \in Products
        PROVE  Held(o, p)' = Held(o, p) + Of(Item(o), p)
    <3>1. Held(o, p)' = Units(create'[o].items, 1 .. create'[o].i - 1, p)
      BY <1>1, <1>2, <2>2, NextHeldCases
    <3>2. create'[o].i - 1 = k
      BY <1>2, <1>3, <2>2
    <3>3. QED
      BY <1>6, <2>2, <3>1, <3>2
  <2>4. \A p \in Products : reserved'[p] - Held(o, p)' = reserved[p] - Held(o, p)
                            /\ reserved'[p] - Held(o, p)' >= reserved[p] - Held(o, p)
    BY <1>6, <2>3
  <2>5. QED
    BY <1>1, <1>2, <1>3, <1>4, <1>5, <2>1, <2>4, EarlyStep
<1>8. CASE ~ (k < n)
  <2>1. CreateIs(o, create'[o], "insert", 1, create[o].kept) /\ k = n
    BY <1>2, <1>3, <1>5, <1>8
  <2>2. create'[o].pc = "insert" /\ create'[o].items = create[o].items
    BY <2>1 DEF CreateIs
  <2>3. ASSUME NEW p \in Products
        PROVE  Held(o, p)' = Held(o, p) + Of(Item(o), p)
    <3>1. Held(o, p)' = Units(create'[o].items, 1 .. Len(create'[o].items), p)
      BY <1>1, <1>2, <2>2, NextHeldCases
    <3>2. QED
      BY <1>6, <2>1, <2>2, <3>1
  <2>4. \A p \in Products : reserved'[p] - Held(o, p)' = reserved[p] - Held(o, p)
                            /\ reserved'[p] - Held(o, p)' >= reserved[p] - Held(o, p)
    BY <1>6, <2>3
  <2>5. QED
    BY <1>1, <1>2, <1>3, <1>4, <1>5, <2>1, <2>4, EarlyStep
<1>9. QED
  BY <1>7, <1>8

\* What the inventory service does with a refused request: nothing, or the
\* reserve after all, and then it is a fault.
LEMMA RefusedEffect ==
    ASSUME SagaInv, NEW it \in Items, it.product \in Products, it.quantity \in Nat \ {0}, Refused(it)
    PROVE  /\ LedgerOK' /\ faults' \in 0 .. MaxFaults /\ (faults' = 0 => faults = 0)
           /\ \A p \in Products : /\ quantity'[p] = quantity[p] /\ reserved'[p] >= reserved[p]
                                  /\ faults' = 0 => reserved'[p] = reserved[p]
<1>1. \A p \in Products : reserved[p] \in Int
  BY DEF SagaInv, LedgerOK
<1>2. faults \in 0 .. MaxFaults
  BY TypeParts DEF SagaInv
<1>3. CASE UNCHANGED ledgerVars /\ (UNCHANGED faults \/ Fault)
  <2>1. LedgerOK' /\ UNCHANGED <<reserved, quantity>>
    BY <1>3, LedgerSame DEF SagaInv
  <2>2. faults' \in 0 .. MaxFaults /\ (faults' = 0 => faults = 0)
    BY <1>2, <1>3, FaultCounts
  <2>3. QED
    BY <1>1, <2>1, <2>2
<1>4. CASE Reserve(it) /\ Fault
  <2>1. LedgerOK' /\ \A p \in Products : reserved'[p] = reserved[p] + Of(it, p) /\ quantity'[p] = quantity[p]
    BY <1>4, ReserveEffect DEF SagaInv
  <2>2. faults' \in 0 .. MaxFaults /\ faults' # 0
    BY <1>4, FaultCounts
  <2>3. \A p \in Products : Of(it, p) \in Nat
    BY DEF Of
  <2>4. QED
    BY <1>1, <2>1, <2>2, <2>3
<1>5. QED
  BY <1>3, <1>4 DEF Refused

LEMMA RefuseStep ==
    ASSUME SagaInv, NEW CONSTANT o \in Orders, ReserveRefused(o)
    PROVE  SagaInv' /\ (StockInv => StockInv')
<1> DEFINE n == Len(create[o].items)
           k == create[o].i
           pc == IF k = 1 THEN "refused" ELSE "rollback"
<1>1. create[o].pc = "reserve" /\ UNCHANGED <<status, call, shipments>> /\ Refused(Item(o))
  BY DEF ReserveRefused
<1>2. status[o] = "none" /\ k \in 1 .. n
  BY <1>1 DEF SagaInv, CreateOK
<1>3. create[o] \in CreateRecords /\ create[o].items \in Baskets /\ n \in Nat \ {0}
  BY <1>1, HandlerRow
<1>4. /\ LedgerOK' /\ faults' \in 0 .. MaxFaults /\ (faults' = 0 => faults = 0)
      /\ \A p \in Products : /\ quantity'[p] = quantity[p] /\ reserved'[p] >= reserved[p]
                             /\ faults' = 0 => reserved'[p] = reserved[p]
  BY <1>1, ItemAtHand, RefusedEffect
<1>5. /\ CreateIs(o, create'[o], pc, 1, k - 1)
      /\ create' \in [Orders -> {create'[x] : x \in Orders}]
      /\ \A x \in Orders \ {o} : create'[x] = create[x]
  <2>1. DOMAIN create = Orders
    BY TypeParts DEF SagaInv
  <2>2. /\ create'[o] = [create[o] EXCEPT !.pc = pc, !.kept = k - 1, !.i = 1]
        /\ create' \in [Orders -> {create'[x] : x \in Orders}]
        /\ \A x \in Orders \ {o} : create'[x] = create[x]
    BY <2>1 DEF ReserveRefused
  <2>3. pc \in {"refused", "rollback"} /\ k - 1 \in Nat
    BY <1>2, <1>3
  <2> DEFINE kept == k - 1
  <2> HIDE DEF pc, kept
  <2>4. create'[o] = [create[o] EXCEPT !.pc = pc, !.kept = kept, !.i = 1]
    BY <2>2 DEF kept
  <2>5. create[o] = [pc |-> create[o].pc, items |-> create[o].items, i |-> create[o].i, kept |-> create[o].kept]
    BY <1>3 DEF CreateRecords
  <2>6. create'[o] = [pc |-> pc, items |-> create[o].items, i |-> 1, kept |-> kept]
    BY <2>4, <2>5
  <2>7. create'[o] \in CreateRecords
    BY <1>3, <2>3, <2>6 DEF CreateRecords, CreateActive, kept
  <2>8. CreateIs(o, create'[o], pc, 1, kept)
    BY <2>6, <2>7 DEF CreateIs
  <2>9. QED
    BY <2>2, <2>8 DEF kept
<1>6. ASSUME NEW p \in Products
      PROVE  /\ Held(o, p)' = Held(o, p) /\ Held(o, p) \in Int
             /\ reserved[p] \in Int /\ reserved'[p] \in Int
  <2>1. Held(o, p) = Units(create[o].items, 1 .. k - 1, p)
    BY <1>1, <1>2, HeldCases
  <2>2. create'[o].pc = pc /\ create'[o].i = 1 /\ create'[o].kept = k - 1 /\ create'[o].items = create[o].items
    BY <1>5 DEF CreateIs
  <2>3. CASE k = 1
    <3>1. Held(o, p)' = 0
      BY <1>1, <1>2, <2>2, <2>3, NextHeldCases
    <3>2. 1 .. k - 1 = {}
      BY <2>3
    <3>3. Held(o, p) = 0
      BY <2>1, <3>2, UnitsNone
    <3>4. QED
      BY <1>4, <3>1, <3>3 DEF SagaInv, LedgerOK
  <2>4. CASE k # 1
    <3>1. Held(o, p)' = Units(create'[o].items, create'[o].i .. create'[o].kept, p)
      BY <1>1, <1>2, <2>2, <2>4, NextHeldCases
    <3>2. Held(o, p)' = Held(o, p)
      BY <2>1, <2>2, <3>1
    <3>3. Held(o, p) \in Int
      BY SharesAreNat
    <3>4. QED
      BY <1>4, <3>2, <3>3 DEF SagaInv, LedgerOK
  <2>5. QED
    BY <2>3, <2>4
<1>7. /\ pc \notin {"validate", "reserve"}
      /\ pc = "rollback" => k - 1 \in 1 .. n /\ 1 \in 1 .. (k - 1)
  BY <1>2, <1>3
<1>8. \A p \in Products :
         /\ reserved'[p] - Held(o, p)' >= reserved[p] - Held(o, p)
         /\ faults' = 0 => reserved'[p] - Held(o, p)' = reserved[p] - Held(o, p)
  BY <1>4, <1>6
<1> HIDE DEF pc
<1>9. QED
  BY <1>1, <1>2, <1>4, <1>5, <1>7, <1>8, EarlyStep

\* The handler ends by a fault: what it holds is nobody's any more.
LEMMA EndStep ==
    ASSUME SagaInv, LedgerOK', NEW CONSTANT o \in Orders, create[o].pc \in CreateActive, Fault,
           create' = [create EXCEPT ![o].pc = "failed"], UNCHANGED <<status, call, shipments>>,
           \A p \in Products : quantity'[p] = quantity[p] /\ reserved'[p] >= reserved[p],
           status[o] # "none" => UNCHANGED reserved
    PROVE  SagaInv' /\ (StockInv => StockInv')
<1>1. create[o].pc # "none"
  BY DEF CreateActive
<1>2. /\ CreateIs(o, create'[o], "failed", create[o].i, create[o].kept)
      /\ create' \in [Orders -> {create'[x] : x \in Orders}]
      /\ \A x \in Orders \ {o} : create'[x] = create[x]
  BY <1>1, SetPc DEF SagaInv
<1>3. create'[o].pc = "failed" /\ create'[o].items = create[o].items /\ create'[o] \in CreateRecords
  BY <1>2 DEF CreateIs
<1>4. faults' \in 0 .. MaxFaults /\ faults' # 0
  BY FaultCounts
<1>5. \A p \in Products : Held(o, p) \in Nat /\ reserved[p] \in Int /\ reserved'[p] \in Int
  <2>1. \A p \in Products : Held(o, p) \in Nat
    BY SharesAreNat
  <2>2. QED
    BY <2>1 DEF SagaInv, LedgerOK
<1>6. CASE status[o] = "none"
  <2>1. \A p \in Products : Held(o, p)' = 0
    BY <1>3, <1>6, NextHeldCases
  <2>2. \A p \in Products : reserved'[p] - Held(o, p)' >= reserved[p] - Held(o, p)
    BY <1>5, <2>1
  <2>3. QED
    BY <1>2, <1>4, <1>6, <2>2, EarlyStep
<1>7. CASE status[o] # "none"
  <2>1. status \in [Orders -> {"none"} \cup Statuses]
    BY TypeParts DEF SagaInv
  <2>2. CreateOK(o)'
    BY <1>3 DEF CreateOK
  <2>3. SagaInv'
    BY <1>2, <1>3, <1>4, <2>1, <2>2, CreateStep
  <2>4. ASSUME StockInv
        PROVE  StockInv'
    BY <1>2, <1>3, <1>4, <1>7, <2>3, <2>4, CreateStock
  <2>5. QED
    BY <2>3, <2>4
<1>8. QED
  BY <1>6, <1>7

LEMMA AnswerLostStep ==
    ASSUME SagaInv, NEW CONSTANT o \in Orders, ReserveAnswerLost(o)
    PROVE  SagaInv' /\ (StockInv => StockInv')
<1>1. /\ create[o].pc = "reserve" /\ Reserve(Item(o)) /\ Fault
      /\ create' = [create EXCEPT ![o].pc = "failed"] /\ UNCHANGED <<status, call, shipments>>
  BY DEF ReserveAnswerLost
<1>2. status[o] = "none" /\ create[o].pc \in CreateActive
  BY <1>1 DEF SagaInv, CreateOK, CreateActive
<1>3. /\ LedgerOK'
      /\ \A p \in Products : reserved'[p] = reserved[p] + Of(Item(o), p) /\ quantity'[p] = quantity[p]
  BY <1>1, ItemAtHand, ReserveEffect DEF SagaInv
<1>4. \A p \in Products : Of(Item(o), p) \in Nat
  BY <1>1, ItemAtHand DEF Of
<1>5. \A p \in Products : reserved[p] \in Int
  BY DEF SagaInv, LedgerOK
<1>6. \A p \in Products : quantity'[p] = quantity[p] /\ reserved'[p] >= reserved[p]
  BY <1>3, <1>4, <1>5
<1>7. QED
  BY <1>1, <1>2, <1>3, <1>6, EndStep

LEMMA FailCreateStep ==
    ASSUME SagaInv, NEW CONSTANT o \in Orders, FailCreate(o)
    PROVE  SagaInv' /\ (StockInv => StockInv')
<1>1. /\ create[o].pc \in CreateActive /\ Fault /\ UNCHANGED ledgerVars
      /\ create' = [create EXCEPT ![o].pc = "failed"] /\ UNCHANGED <<status, call, shipments>>
  BY DEF FailCreate
<1>2. LedgerOK' /\ UNCHANGED <<reserved, quantity>>
  BY <1>1, LedgerSame DEF SagaInv
<1>3. \A p \in Products : quantity'[p] = quantity[p] /\ reserved'[p] >= reserved[p]
  BY <1>2 DEF SagaInv, LedgerOK
<1>4. QED
  BY <1>1, <1>2, <1>3, EndStep

LEMMA RollbackStep ==
    ASSUME SagaInv, NEW CONSTANT o \in Orders, RollbackItem(o)
    PROVE  SagaInv' /\ (StockInv => StockInv')
<1> DEFINE n == Len(create[o].items)
           k == create[o].i
           kept == create[o].kept
<1>1. /\ create[o].pc = "rollback" /\ UNCHANGED <<status, call, shipments>>
      /\ NextItem(o, kept, "refused")
  BY DEF RollbackItem
<1>2. create[o] \in CreateRecords /\ create[o].items \in Baskets /\ n \in Nat \ {0} /\ faults \in 0 .. MaxFaults
  BY <1>1, HandlerRow
<1>3. status[o] = "none" /\ kept \in 1 .. n /\ k \in 1 .. kept /\ k \in 1 .. n
  BY <1>1, <1>2 DEF SagaInv, CreateOK
<1>4. /\ LedgerOK' /\ faults' \in 0 .. MaxFaults /\ (faults' = 0 => faults = 0)
      /\ \A p \in Products :
            /\ quantity'[p] = quantity[p]
            /\ reserved'[p] >= reserved[p] - Of(Item(o), p)
            /\ faults' = 0 /\ reserved[Item(o).product] >= Item(o).quantity =>
                  reserved'[p] = reserved[p] - Of(Item(o), p)
  <2>1. CASE TryRelease(Item(o)) /\ UNCHANGED faults
    BY <1>1, <1>2, <2>1, ItemAtHand, TryReleaseEffect DEF SagaInv
  <2>2. CASE UNCHANGED ledgerVars /\ Fault
    <3>1. LedgerOK' /\ UNCHANGED <<reserved, quantity>>
      BY <2>2, LedgerSame DEF SagaInv
    <3>2. faults' \in 0 .. MaxFaults /\ faults' # 0
      BY <2>2, FaultCounts
    <3>3. \A p \in Products : Of(Item(o), p) \in Nat
      BY <1>1, ItemAtHand DEF Of
    <3>4. \A p \in Products : reserved[p] \in Int
      BY DEF SagaInv, LedgerOK
    <3>5. QED
      BY <3>1, <3>2, <3>3, <3>4
  <2>3. QED
    BY <2>1, <2>2 DEF RollbackItem
<1>5. /\ IF k < kept THEN CreateIs(o, create'[o], "rollback", k + 1, kept)
                     ELSE CreateIs(o, create'[o], "refused", 1, kept)
      /\ create' \in [Orders -> {create'[x] : x \in Orders}]
      /\ \A x \in Orders \ {o} : create'[x] = create[x]
  <2>1. kept \in Nat
    BY <1>2, <1>3
  <2>2. QED
    BY <1>1, <2>1, NextItemEffect DEF SagaInv, CreateActive
<1>6. ASSUME NEW p \in Products
      PROVE  /\ Held(o, p) = Units(create[o].items, k .. kept, p)
             /\ Held(o, p) = Units(create[o].items, k + 1 .. kept, p) + Of(Item(o), p)
             /\ Units(create[o].items, k + 1 .. kept, p) \in Nat /\ Of(Item(o), p) \in Nat
  <2>1. Held(o, p) = Units(create[o].items, k .. kept, p)
    BY <1>1, <1>3, HeldCases
  <2>2. kept \in k .. n
    BY <1>2, <1>3
  <2>3. /\ Units(create[o].items, k .. kept, p) = Units(create[o].items, k + 1 .. kept, p) + Of(Item(o), p)
        /\ Units(create[o].items, k + 1 .. kept, p) \in Nat
    BY <1>2, <1>3, <2>2, UnitsNext DEF Item
  <2>4. Of(Item(o), p) \in Nat
    BY <1>1, ItemAtHand DEF Of
  <2>5. QED
    BY <2>1, <2>3, <2>4
<1>7. ASSUME NEW p \in Products
      PROVE  Held(o, p)' = Units(create[o].items, k + 1 .. kept, p)
  <2>1. CASE k < kept
    <3>1. create'[o].pc = "rollback" /\ create'[o].i = k + 1 /\ create'[o].kept = kept /\ create'[o].items = create[o].items
      BY <1>5, <2>1 DEF CreateIs
    <3>2. QED
      BY <1>1, <1>3, <3>1, NextHeldCases
  <2>2. CASE ~ (k < kept)
    <3>1. create'[o].pc = "refused"
      BY <1>5, <2>2 DEF CreateIs
    <3>2. Held(o, p)' = 0
      BY <1>1, <1>3, <3>1, NextHeldCases
    <3>3. k + 1 .. kept = {}
      BY <1>2, <1>3, <2>2
    <3>4. Units(create[o].items, k + 1 .. kept, p) = 0
      BY <3>3, UnitsNone
    <3>5. QED
      BY <3>2, <3>4
  <2>3. QED
    BY <2>1, <2>2
<1>8. ASSUME StockInv, SettledOnce, NEW p \in Products
      PROVE  /\ reserved'[p] - Held(o, p)' >= reserved[p] - Held(o, p)
             /\ faults' = 0 => reserved'[p] - Held(o, p)' = reserved[p] - Held(o, p)
  <2>1. reserved[Item(o).product] >= Item(o).quantity
    <3> DEFINE q == Item(o).product
    <3>1. q \in Products /\ Item(o).quantity \in Nat
      BY <1>1, ItemAtHand
    <3>2. Held(o, q) <= reserved[q]
      BY <1>8, <3>1, HeldCovered
    <3>3. /\ Held(o, q) = Units(create[o].items, k + 1 .. kept, q) + Of(Item(o), q)
          /\ Units(create[o].items, k + 1 .. kept, q) \in Nat
      BY <1>6, <3>1
    <3>4. Of(Item(o), q) = Item(o).quantity
      BY DEF Of
    <3>5. reserved[q] \in Int
      BY <3>1 DEF SagaInv, LedgerOK
    <3>6. QED
      BY <3>1, <3>2, <3>3, <3>4, <3>5
  <2>2. /\ reserved'[p] >= reserved[p] - Of(Item(o), p)
        /\ faults' = 0 => reserved'[p] = reserved[p] - Of(Item(o), p)
    BY <1>4, <2>1
  <2>3. reserved[p] \in Int /\ reserved'[p] \in Int
    BY <1>4 DEF SagaInv, LedgerOK
  <2> DEFINE rest == Units(create[o].items, k + 1 .. kept, p)
             of == Of(Item(o), p)
  <2>4. Held(o, p) = rest + of /\ Held(o, p)' = rest /\ rest \in Int /\ of \in Int
    BY <1>6, <1>7
  <2>5. /\ reserved'[p] >= reserved[p] - of
        /\ faults' = 0 => reserved'[p] = reserved[p] - of
    BY <2>2
  <2> HIDE DEF rest, of
  <2>6. QED
    BY <2>3, <2>4, <2>5
<1>9. \A p \in Products : quantity'[p] = quantity[p]
  BY <1>4
<1>10. CASE k < kept
  <2>1. CreateIs(o, create'[o], "rollback", k + 1, kept) /\ k + 1 \in 1 .. kept
    BY <1>2, <1>3, <1>5, <1>10
  <2>2. QED
    BY <1>1, <1>3, <1>4, <1>5, <1>8, <1>9, <2>1, EarlyStep
<1>11. CASE ~ (k < kept)
  <2>1. CreateIs(o, create'[o], "refused", 1, kept)
    BY <1>5, <1>11
  <2>2. QED
    BY <1>1, <1>3, <1>4, <1>5, <1>8, <1>9, <2>1, EarlyStep
<1>12. QED
  BY <1>10, <1>11

LEMMA InsertStep ==
    ASSUME SagaInv, NEW CONSTANT o \in Orders, InsertOrder(o)
    PROVE  SagaInv' /\ (StockInv => StockInv')
<1>1. /\ create[o].pc = "insert" /\ UNCHANGED <<call, shipments, faults>> /\ UNCHANGED ledgerVars
      /\ create' = [create EXCEPT ![o].pc = "clear"] /\ status' = [status EXCEPT ![o] = "pending"]
  BY DEF InsertOrder
<1>2. status[o] = "none"
  BY <1>1 DEF SagaInv, CreateOK
<1>3. status \in [Orders -> {"none"} \cup Statuses] /\ faults \in 0 .. MaxFaults
  BY TypeParts DEF SagaInv
<1>4. /\ status' \in [Orders -> {"none"} \cup Statuses] /\ status'[o] = "pending"
      /\ \A x \in Orders \ {o} : status'[x] = status[x]
  BY <1>1, <1>3 DEF Statuses
<1>5. /\ CreateIs(o, create'[o], "clear", create[o].i, create[o].kept)
      /\ create' \in [Orders -> {create'[x] : x \in Orders}]
      /\ \A x \in Orders \ {o} : create'[x] = create[x]
  BY <1>1, SetPc DEF SagaInv, CreateActive
<1>6. create'[o].pc = "clear" /\ create'[o].items = create[o].items /\ create'[o] \in CreateRecords
  BY <1>5 DEF CreateIs
<1>7. LedgerOK' /\ UNCHANGED <<reserved, quantity>>
  BY <1>1, LedgerSame DEF SagaInv
<1>8. CreateOK(o)'
  BY <1>6 DEF CreateOK
<1>9. SagaInv'
  BY <1>1, <1>2, <1>3, <1>4, <1>5, <1>6, <1>7, <1>8, CreateStep
<1>10. Gone(o)' = {}
  BY <1>1, <1>2, <1>4, <1>5, CreateShares
<1>11. ASSUME NEW p \in Products
       PROVE  Held(o, p)' = Held(o, p) /\ Held(o, p) \in Int /\ reserved[p] \in Int
  <2>1. Held(o, p) = Units(create[o].items, 1 .. Len(create[o].items), p)
    BY <1>1, <1>2, HeldCases
  <2>2. Held(o, p)' = Units(create'[o].items, (1 .. Len(create'[o].items)) \ Gone(o)', p)
    BY <1>4, NextHeldCases
  <2>3. (1 .. Len(create[o].items)) \ {} = 1 .. Len(create[o].items)
    OBVIOUS
  <2>4. Held(o, p) \in Int
    BY SharesAreNat
  <2>5. QED
    BY <1>6, <1>10, <2>1, <2>2, <2>3, <2>4 DEF SagaInv, LedgerOK
<1>12. \A p \in Products :
          /\ reserved'[p] - Held(o, p)' >= reserved[p] - Held(o, p)
          /\ reserved'[p] - Held(o, p)' = reserved[p] - Held(o, p)
  BY <1>7, <1>11
<1>13. ASSUME StockInv
       PROVE  StockInv'
  BY <1>1, <1>2, <1>4, <1>5, <1>7, <1>9, <1>12, <1>13, CreateStock
<1>14. QED
  BY <1>9, <1>13

LEMMA ClearStep ==
    ASSUME SagaInv, NEW CONSTANT o \in Orders, ClearCart(o)
    PROVE  SagaInv' /\ (StockInv => StockInv')
<1>1. /\ create[o].pc = "clear" /\ UNCHANGED <<status, call, shipments, faults>> /\ UNCHANGED ledgerVars
      /\ create' = [create EXCEPT ![o].pc = "done"]
  BY DEF ClearCart
<1>2. status \in [Orders -> {"none"} \cup Statuses] /\ faults \in 0 .. MaxFaults
  BY TypeParts DEF SagaInv
<1>3. /\ CreateIs(o, create'[o], "done", create[o].i, create[o].kept)
      /\ create' \in [Orders -> {create'[x] : x \in Orders}]
      /\ \A x \in Orders \ {o} : create'[x] = create[x]
  BY <1>1, SetPc DEF SagaInv
<1>4. create'[o].pc = "done" /\ create'[o].items = create[o].items /\ create'[o] \in CreateRecords
  BY <1>3 DEF CreateIs
<1>5. LedgerOK' /\ UNCHANGED <<reserved, quantity>>
  BY <1>1, LedgerSame DEF SagaInv
<1>6. CreateOK(o)'
  BY <1>4 DEF CreateOK
<1>7. SagaInv'
  BY <1>1, <1>2, <1>3, <1>4, <1>5, <1>6, CreateStep
<1>8. \A p \in Products : reserved[p] \in Int
  BY DEF SagaInv, LedgerOK
<1>9. status[o] = "none" => \A p \in Products : Held(o, p) = 0 /\ Held(o, p)' = 0
  <2> SUFFICES ASSUME status[o] = "none", NEW p \in Products PROVE Held(o, p) = 0 /\ Held(o, p)' = 0
    OBVIOUS
  <2>1. Held(o, p) = 0
    BY <1>1, HeldCases
  <2>2. Held(o, p)' = 0
    BY <1>1, <1>4, NextHeldCases
  <2>3. QED
    BY <2>1, <2>2
<1>10. status[o] = "none" => \A p \in Products :
          /\ reserved'[p] - Held(o, p)' >= reserved[p] - Held(o, p)
          /\ reserved'[p] - Held(o, p)' = reserved[p] - Held(o, p)
  BY <1>5, <1>8, <1>9
<1>11. ASSUME StockInv
       PROVE  StockInv'
  BY <1>1, <1>3, <1>4, <1>5, <1>7, <1>10, <1>11, CreateStock
<1>12. QED
  BY <1>7, <1>11

-----------------------------------------------------------------------------
(* The steps of a PUT and of a DELETE.                                     *)

\* The items gone of an order that is settled once are those one call has handled.
LEMMA GoneByCall ==
    SettledOnce => \A c \in Calls : \A o \in Orders :
        /\ Confirms(c, o) \/ Releases(c, o) => Gone(o) = Handled(c)
        /\ Confirms(c, o) => Confirmed(o) = Handled(c)
        /\ Releases(c, o) => Confirmed(o) = {}
<1> SUFFICES ASSUME SettledOnce, NEW c \in Calls, NEW o \in Orders, Confirms(c, o) \/ Releases(c, o)
    PROVE  /\ Gone(o) = Handled(c)
           /\ Confirms(c, o) => Confirmed(o) = Handled(c)
           /\ Releases(c, o) => Confirmed(o) = {}
  OBVIOUS
<1>1. {d \in Calls : Confirms(d, o) \/ Releases(d, o)} = {c}
  BY DEF SettledOnce
<1>2. Gone(o) = UNION {Handled(d) : d \in {c}}
  BY <1>1 DEF Gone
<1>3. Gone(o) = Handled(c)
  BY <1>2
<1>4. Confirms(c, o) => {d \in Calls : Confirms(d, o)} = {c}
  BY <1>1
<1>5. Confirms(c, o) => Confirmed(o) = UNION {Handled(d) : d \in {c}}
  BY <1>4 DEF Confirmed
<1>6. Confirms(c, o) => Confirmed(o) = Handled(c)
  BY <1>5
<1>7. Releases(c, o) => ~ Confirms(c, o)
  BY DEF Releases, Confirms, Put
<1>8. Releases(c, o) => {d \in Calls : Confirms(d, o)} = {}
  BY <1>1, <1>7
<1>9. Releases(c, o) => Confirmed(o) = {}
  BY <1>8 DEF Confirmed
<1>10. QED
  BY <1>3, <1>6, <1>9

LEMMA NextGoneByCall ==
    SettledOnce' => \A c \in Calls : \A o \in Orders :
        /\ Confirms(c, o)' \/ Releases(c, o)' => Gone(o)' = Handled(c)'
        /\ Confirms(c, o)' => Confirmed(o)' = Handled(c)'
        /\ Releases(c, o)' => Confirmed(o)' = {}
<1> DEFINE P == SettledOnce => \A c \in Calls : \A o \in Orders :
                    /\ Confirms(c, o) \/ Releases(c, o) => Gone(o) = Handled(c)
                    /\ Confirms(c, o) => Confirmed(o) = Handled(c)
                    /\ Releases(c, o) => Confirmed(o) = {}
<1>1. P
  BY GoneByCall
<1>2. P'
  BY <1>1, PTL
<1>3. QED
  BY <1>2

\* A call goes on: it still asks for the same of the same order.
CallIs(c, q, pc, i) ==
    /\ q \in CallRecords /\ q.pc = pc /\ q.i = i
    /\ q.method = call[c].method /\ q.order = call[c].order
    /\ q.status = call[c].status /\ q.prev = call[c].prev

LEMMA CallShares ==
    ASSUME SagaInv, NEW CONSTANT c \in Calls, call[c] # NoCall, NEW pc, NEW i,
           CallIs(c, call'[c], pc, i), \A d \in Calls \ {c} : call'[d] = call[d], UNCHANGED create,
           \A x \in Orders : status'[x] = "none" <=> status[x] = "none"
    PROVE  /\ SettledOnce' <=> SettledOnce
           /\ \A x \in Orders : Confirms(c, x)' = Confirms(c, x) /\ Releases(c, x)' = Releases(c, x)
           /\ \A p \in Products : \A x \in Orders :
                 (Confirms(c, x) \/ Releases(c, x) => Handled(c)' = Handled(c)) =>
                     Held(x, p)' = Held(x, p) /\ Sold(x, p)' = Sold(x, p)
<1>1. call'[c] # NoCall
  BY DEF CallIs, CallRecords, NoCall, CallActive
<1>2. \A d \in Calls : \A x \in Orders : Confirms(d, x)' = Confirms(d, x) /\ Releases(d, x)' = Releases(d, x)
  BY <1>1 DEF Confirms, Releases, Put, CallIs
<1>3. SettledOnce' <=> SettledOnce
  BY <1>2 DEF SettledOnce
<1>4. \A d \in Calls \ {c} : Handled(d)' = Handled(d)
  BY DEF Handled, AllItems
<1>5. ASSUME NEW CONSTANT p \in Products, NEW CONSTANT x \in Orders,
             Confirms(c, x) \/ Releases(c, x) => Handled(c)' = Handled(c)
      PROVE  Held(x, p)' = Held(x, p) /\ Sold(x, p)' = Sold(x, p)
  <2>1. Gone(x)' = Gone(x) /\ Confirmed(x)' = Confirmed(x)
    BY <1>2, <1>4, <1>5, GoneAgrees
  <2>2. Sold(x, p) = Units(create[x].items, Confirmed(x), p) /\ Sold(x, p)' = Units(create'[x].items, Confirmed(x)', p)
    BY Shares
  <2>3. CASE status[x] = "none"
    <3>1. Held(x, p) = ShareOf(create[x], "none", Gone(x), p) /\ Held(x, p)' = ShareOf(create'[x], "none", Gone(x)', p)
      BY <2>3, Shares
    <3>2. QED
      BY <2>1, <2>2, <3>1
  <2>4. CASE status[x] # "none"
    <3>1. Held(x, p) = Units(create[x].items, (1 .. Len(create[x].items)) \ Gone(x), p)
      BY <2>4, HeldCases
    <3>2. Held(x, p)' = Units(create'[x].items, (1 .. Len(create'[x].items)) \ Gone(x)', p)
      BY <2>4, NextHeldCases
    <3>3. QED
      BY <2>1, <2>2, <3>1, <3>2
  <2>5. QED
    BY <2>3, <2>4
<1>6. QED
  BY <1>2, <1>3, <1>5

\* The order whose stock a call takes: what is left to it is what the call has not
\* handled, and what is sold of it is what the call has confirmed.
LEMMA SettlingShares ==
    ASSUME SagaInv, NEW CONSTANT c \in Calls, call[c] # NoCall, NEW pc, NEW i,
           CallIs(c, call'[c], pc, i), \A d \in Calls \ {c} : call'[d] = call[d], UNCHANGED create,
           \A x \in Orders : status'[x] = "none" <=> status[x] = "none",
           SettledOnce, NEW CONSTANT o \in Orders, Confirms(c, o) \/ Releases(c, o), NEW CONSTANT p \in Products
    PROVE  /\ o = call[c].order /\ create[o].items \in Baskets
           /\ Held(o, p) = Units(create[o].items, (1 .. Len(create[o].items)) \ Handled(c), p)
           /\ Held(o, p)' = Units(create[o].items, (1 .. Len(create[o].items)) \ Handled(c)', p)
           /\ Confirms(c, o) => /\ Sold(o, p) = Units(create[o].items, Handled(c), p)
                                /\ Sold(o, p)' = Units(create[o].items, Handled(c)', p)
           /\ ~Confirms(c, o) => Sold(o, p) = 0 /\ Sold(o, p)' = 0
           /\ \A x \in Orders \ {o} : Held(x, p)' = Held(x, p) /\ Sold(x, p)' = Sold(x, p)
<1>1. o = call[c].order
  BY DEF Confirms, Releases
<1>2. status[o] # "none" /\ status'[o] # "none"
  BY <1>1 DEF SagaInv, CallOK
<1>3. create[o].items \in Baskets
  BY <1>2, InsertedBasket
<1>4. /\ SettledOnce'
      /\ Confirms(c, o)' = Confirms(c, o) /\ Releases(c, o)' = Releases(c, o)
      /\ \A x \in Orders : (Confirms(c, x) \/ Releases(c, x) => Handled(c)' = Handled(c)) =>
                     Held(x, p)' = Held(x, p) /\ Sold(x, p)' = Sold(x, p)
  BY CallShares
<1>5. /\ Gone(o) = Handled(c) /\ Gone(o)' = Handled(c)'
      /\ Confirms(c, o) => Confirmed(o) = Handled(c) /\ Confirmed(o)' = Handled(c)'
      /\ Releases(c, o) => Confirmed(o) = {} /\ Confirmed(o)' = {}
  BY <1>4, GoneByCall, NextGoneByCall
<1>6. Held(o, p) = Units(create[o].items, (1 .. Len(create[o].items)) \ Handled(c), p)
  BY <1>2, <1>5, HeldCases
<1>7. Held(o, p)' = Units(create[o].items, (1 .. Len(create[o].items)) \ Handled(c)', p)
  <2>1. Held(o, p)' = Units(create'[o].items, (1 .. Len(create'[o].items)) \ Gone(o)', p)
    BY <1>2, NextHeldCases
  <2>2. QED
    BY <1>5, <2>1
<1>8. Sold(o, p) = Units(create[o].items, Confirmed(o), p) /\ Sold(o, p)' = Units(create'[o].items, Confirmed(o)', p)
  BY Shares
<1>9. \A x \in Orders \ {o} : ~ (Confirms(c, x) \/ Releases(c, x))
  BY <1>1 DEF Confirms, Releases
<1>10. \A x \in Orders \ {o} : Held(x, p)' = Held(x, p) /\ Sold(x, p)' = Sold(x, p)
  BY <1>4, <1>9
<1>11. Confirms(c, o) => /\ Sold(o, p) = Units(create[o].items, Handled(c), p)
                         /\ Sold(o, p)' = Units(create[o].items, Handled(c)', p)
  BY <1>5, <1>8
<1>12. ~Confirms(c, o) => Sold(o, p) = 0 /\ Sold(o, p)' = 0
  BY <1>5, <1>8, UnitsNone
<1>13. QED
  BY <1>1, <1>3, <1>6, <1>7, <1>10, <1>11, <1>12

\* A step of a call that leaves the stock alone.
LEMMA QuietStep ==
    ASSUME SagaInv, NEW CONSTANT c \in Calls, call[c] # NoCall, NEW pc, NEW i,
           CallIs(c, call'[c], pc, i), \A d \in Calls \ {c} : call'[d] = call[d],
           call' \in [Calls -> {call'[d] : d \in Calls}], UNCHANGED create, UNCHANGED ledgerVars,
           status' \in [Orders -> {"none"} \cup Statuses],
           \A x \in Orders : status'[x] = "none" <=> status[x] = "none",
           CallOK(c)', shipments' \subseteq Orders, faults' \in 0 .. MaxFaults, faults' = 0 => faults = 0,
           \A x \in Orders : Confirms(c, x) \/ Releases(c, x) => Handled(c)' = Handled(c)
    PROVE  SagaInv' /\ (StockInv => StockInv')
<1>1. LedgerOK' /\ UNCHANGED <<reserved, quantity>>
  BY LedgerSame DEF SagaInv
<1>2. SagaInv'
  BY <1>1, CallStep DEF CallIs
<1>3. /\ SettledOnce' <=> SettledOnce
      /\ \A p \in Products : \A x \in Orders : Held(x, p)' = Held(x, p) /\ Sold(x, p)' = Sold(x, p)
  BY CallShares
<1>4. \A p \in Products : reserved[p] \in Int /\ quantity[p] \in Int
  BY DEF SagaInv, LedgerOK
<1>5. ASSUME StockInv
      PROVE  StockInv'
  <2>1. call[c].order \in Orders
    BY CallTyped DEF SagaInv, CallRecords
  <2>2. PICK o \in Orders : o = call[c].order
    BY <2>1
  <2>3. ASSUME NEW p \in Products
        PROVE  /\ \A x \in Orders \ {o} : Held(x, p)' = Held(x, p) /\ Sold(x, p)' = Sold(x, p)
               /\ reserved'[p] - Held(o, p)' >= reserved[p] - Held(o, p)
               /\ reserved'[p] - Held(o, p)' = reserved[p] - Held(o, p)
               /\ quantity'[p] + Sold(o, p)' = quantity[p] + Sold(o, p)
    <3>1. Held(o, p) \in Int
      BY SharesAreNat
    <3>2. QED
      BY <1>1, <1>3, <1>4, <3>1
  <2>4. QED
    BY <1>2, <1>3, <1>5, <2>3, StockStep
<1>6. QED
  BY <1>2, <1>5

\* The steps of a call that set its pc, or go on with the next item.
LEMMA SetCallPc ==
    ASSUME SagaInv, NEW c \in Calls, call[c] # NoCall,
           NEW pc \in CallActive \cup {"refused", "failed", "done"},
           call' = [call EXCEPT ![c].pc = pc]
    PROVE  /\ CallIs(c, call'[c], pc, call[c].i)
           /\ call' \in [Calls -> {call'[d] : d \in Calls}]
           /\ \A d \in Calls \ {c} : call'[d] = call[d]
<1>1. call[c] \in CallRecords /\ DOMAIN call = Calls
  <2>1. call[c] \in CallRecords
    BY CallTyped DEF SagaInv
  <2>2. DOMAIN call = Calls
    BY TypeParts DEF SagaInv
  <2>3. QED
    BY <2>1, <2>2
<1>2. /\ call'[c] = [call[c] EXCEPT !.pc = pc]
      /\ call' \in [Calls -> {call'[d] : d \in Calls}] /\ \A d \in Calls \ {c} : call'[d] = call[d]
  BY <1>1
<1>3. CallIs(c, call'[c], pc, call[c].i)
  BY <1>1, <1>2 DEF CallIs, CallRecords
<1>4. QED
  BY <1>2, <1>3

LEMMA NextCallEffect ==
    ASSUME SagaInv, NEW c \in Calls, call[c].pc \in {"commit", "release"},
           NEW pc \in CallActive, NextCallItem(c, pc)
    PROVE  /\ IF call[c].i < Len(create[call[c].order].items)
              THEN CallIs(c, call'[c], call[c].pc, call[c].i + 1)
              ELSE CallIs(c, call'[c], pc, call[c].i)
           /\ call' \in [Calls -> {call'[d] : d \in Calls}]
           /\ \A d \in Calls \ {c} : call'[d] = call[d]
<1> DEFINE n == Len(create[call[c].order].items)
<1>1. /\ call[c] \in CallRecords /\ call[c].i \in Nat /\ call[c] # NoCall
      /\ DOMAIN call = Calls
  <2>1. call[c] \in CallRecords
    BY CallItemAtHand
  <2>2. DOMAIN call = Calls
    BY TypeParts DEF SagaInv
  <2>3. QED
    BY <2>1, <2>2 DEF CallRecords, NoCall
<1>2. call' = [call EXCEPT ![c] = IF call[c].i < n THEN [call[c] EXCEPT !.i = call[c].i + 1]
                                                  ELSE [call[c] EXCEPT !.pc = pc]]
  BY DEF NextCallItem
<1>3. /\ call'[c] = IF call[c].i < n THEN [call[c] EXCEPT !.i = call[c].i + 1] ELSE [call[c] EXCEPT !.pc = pc]
      /\ call' \in [Calls -> {call'[d] : d \in Calls}] /\ \A d \in Calls \ {c} : call'[d] = call[d]
  BY <1>1, <1>2
<1>4. CASE call[c].i < n
  <2> DEFINE i == call[c].i + 1
  <2>1. call'[c] = [call[c] EXCEPT !.i = i] /\ i \in Nat
    BY <1>1, <1>3, <1>4
  <2> HIDE DEF i
  <2>2. CallIs(c, call'[c], call[c].pc, i)
    BY <1>1, <2>1 DEF CallIs, CallRecords
  <2>3. QED
    BY <1>3, <1>4, <2>2 DEF i
<1>5. CASE ~ (call[c].i < n)
  <2>1. call'[c] = [call[c] EXCEPT !.pc = pc]
    BY <1>3, <1>5
  <2>2. CallIs(c, call'[c], pc, call[c].i)
    BY <1>1, <2>1 DEF CallIs, CallRecords
  <2>3. QED
    BY <1>3, <1>5, <2>2
<1>6. QED
  BY <1>4, <1>5

\* How far a call is in the next state.
LEMMA NextHandled ==
    ASSUME NEW CONSTANT c \in Calls, NEW pc, NEW i, CallIs(c, call'[c], pc, i), UNCHANGED create
    PROVE  /\ pc = "write" => Handled(c)' = {}
           /\ pc \in {"commit", "release"} => Handled(c)' = 1 .. i - 1
           /\ pc \notin {"write", "commit", "release"} => Handled(c)' = 1 .. Len(create[call[c].order].items)
<1>1. Handled(c)' = CASE call'[c].pc = "write" -> {}
                      [] call'[c].pc \in {"commit", "release"} -> 1 .. call'[c].i - 1
                      [] OTHER -> 1 .. Len(create[call'[c].order].items)
  BY DEF Handled, AllItems
<1>2. call'[c].pc = pc /\ call'[c].i = i /\ call'[c].order = call[c].order
  BY DEF CallIs
<1>3. QED
  BY <1>1, <1>2

LEMMA NextCallOK ==
    ASSUME SagaInv, NEW CONSTANT c \in Calls, call[c] # NoCall, NEW pc, NEW i,
           CallIs(c, call'[c], pc, i), UNCHANGED create,
           \A x \in Orders : status'[x] = "none" <=> status[x] = "none",
           pc = "write" => i = 1,
           pc \in {"commit", "release"} => i \in 1 .. Len(create[call[c].order].items),
           pc \in {"commit", "ship"} => call[c].method = "PUT" /\ call[c].status = "confirmed",
           pc = "release" => call[c].method = "PUT" /\ call[c].status = "cancelled" /\ call[c].prev = "pending"
    PROVE  CallOK(c)'
<1>1. status[call[c].order] # "none" /\ call[c].order \in Orders
  BY CallTyped DEF SagaInv, CallOK, CallRecords
<1>2. status'[call'[c].order] # "none"
  BY <1>1 DEF CallIs
<1>3. QED
  BY <1>2 DEF CallOK, AllItems, CallIs

\* What is known of a call that is under way.
LEMMA CallRow ==
    ASSUME SagaInv, NEW c \in Calls, call[c].pc \in CallActive
    PROVE  /\ call[c] # NoCall /\ call[c] \in CallRecords /\ call[c].order \in Orders
           /\ status[call[c].order] # "none" /\ call[c].status \in Statuses
           /\ Len(create[call[c].order].items) \in Nat \ {0} /\ create[call[c].order].items \in Baskets
           /\ status \in [Orders -> {"none"} \cup Statuses] /\ shipments \subseteq Orders /\ faults \in 0 .. MaxFaults
           /\ call[c].pc = "write" => call[c].i = 1
           /\ call[c].pc \in {"commit", "release"} => call[c].i \in 1 .. Len(create[call[c].order].items)
           /\ call[c].pc \in {"commit", "ship"} => call[c].method = "PUT" /\ call[c].status = "confirmed"
           /\ call[c].pc = "release" =>
                 call[c].method = "PUT" /\ call[c].status = "cancelled" /\ call[c].prev = "pending"
<1>1. call[c] # NoCall
  BY DEF NoCall, CallActive
<1>2. call[c] \in CallRecords
  BY <1>1, CallTyped DEF SagaInv
<1>3. call[c].order \in Orders /\ call[c].status \in Statuses
  BY <1>2 DEF CallRecords
<1>4. CallOK(c)
  BY DEF SagaInv
<1>5. create[call[c].order].items \in Baskets
  BY <1>1, <1>3, <1>4, InsertedBasket DEF CallOK
<1>6. Len(create[call[c].order].items) \in Nat \ {0}
  BY <1>5, BasketShape
<1>7. status \in [Orders -> {"none"} \cup Statuses] /\ shipments \subseteq Orders /\ faults \in 0 .. MaxFaults
  BY TypeParts DEF SagaInv
<1>8. QED
  BY <1>1, <1>2, <1>3, <1>4, <1>5, <1>6, <1>7 DEF CallOK, AllItems

LEMMA PutWriteStep ==
    ASSUME SagaInv, NEW CONSTANT c \in Calls, PutWrite(c)
    PROVE  SagaInv' /\ (StockInv => StockInv')
<1> DEFINE q == call[c]
           pc == CASE q.status = "confirmed" -> "commit"
                   [] q.status = "cancelled" /\ q.prev = "pending" -> "release"
                   [] OTHER -> "notify"
<1>1. /\ q.pc = "write" /\ q.method = "PUT"
      /\ status' = [status EXCEPT ![q.order] = IF q.status = q.prev THEN @ ELSE q.status]
      /\ call' = [call EXCEPT ![c].pc = pc]
      /\ UNCHANGED <<create, shipments, faults>> /\ UNCHANGED ledgerVars
  BY DEF PutWrite
<1>2. /\ q # NoCall /\ q \in CallRecords /\ q.order \in Orders /\ status[q.order] # "none" /\ q.status \in Statuses
      /\ Len(create[q.order].items) \in Nat \ {0} /\ q.i = 1
      /\ status \in [Orders -> {"none"} \cup Statuses] /\ shipments \subseteq Orders /\ faults \in 0 .. MaxFaults
  BY <1>1, CallRow DEF CallActive
<1>3. "none" \notin Statuses
  BY DEF Statuses
<1>4. /\ status' \in [Orders -> {"none"} \cup Statuses]
      /\ \A x \in Orders : status'[x] = "none" <=> status[x] = "none"
  <2>1. \A x \in Orders : status'[x] = IF x = q.order /\ q.status # q.prev THEN q.status ELSE status[x]
    BY <1>1, <1>2
  <2>2. \A x \in Orders : status'[x] = "none" <=> status[x] = "none"
    BY <1>2, <1>3, <2>1
  <2>3. status' \in [Orders -> {"none"} \cup Statuses]
    BY <1>1, <1>2
  <2>4. QED
    BY <2>2, <2>3
<1>5. /\ pc \in {"commit", "release", "notify"}
      /\ pc = "commit" => q.status = "confirmed"
      /\ pc = "release" => q.status = "cancelled" /\ q.prev = "pending"
      /\ pc = "notify" => ~ (q.status = "confirmed") /\ ~ (q.status = "cancelled" /\ q.prev = "pending")
  OBVIOUS
<1> HIDE DEF pc
<1>6. /\ CallIs(c, call'[c], pc, q.i)
      /\ call' \in [Calls -> {call'[d] : d \in Calls}] /\ \A d \in Calls \ {c} : call'[d] = call[d]
  <2>1. pc \in CallActive \cup {"refused", "failed", "done"}
    BY <1>5 DEF CallActive
  <2>2. QED
    BY <1>1, <1>2, <2>1, SetCallPc
<1>7. CallOK(c)'
  <2>1. /\ pc = "write" => q.i = 1
        /\ pc \in {"commit", "release"} => q.i \in 1 .. Len(create[q.order].items)
        /\ pc \in {"commit", "ship"} => q.method = "PUT" /\ q.status = "confirmed"
        /\ pc = "release" => q.method = "PUT" /\ q.status = "cancelled" /\ q.prev = "pending"
    BY <1>1, <1>2, <1>5
  <2>2. QED
    BY <1>1, <1>2, <1>4, <1>6, <2>1, NextCallOK
<1>8. ASSUME NEW x \in Orders, Confirms(c, x) \/ Releases(c, x)
      PROVE  Handled(c)' = Handled(c)
  <2>1. pc \in {"commit", "release"}
    BY <1>5, <1>8 DEF Confirms, Releases, Put
  <2>2. Handled(c)' = 1 .. q.i - 1
    BY <1>1, <1>6, <2>1, NextHandled
  <2>3. Handled(c) = {}
    BY <1>1 DEF Handled
  <2>4. 1 .. 1 - 1 = {}
    OBVIOUS
  <2>5. QED
    BY <1>2, <2>2, <2>3, <2>4
<1>9. QED
  BY <1>1, <1>2, <1>4, <1>6, <1>7, <1>8, QuietStep

LEMMA ShipmentStep ==
    ASSUME SagaInv, NEW CONSTANT c \in Calls, CreateShipment(c)
    PROVE  SagaInv' /\ (StockInv => StockInv')
<1>1. /\ call[c].pc = "ship" /\ call' = [call EXCEPT ![c].pc = "notify"]
      /\ UNCHANGED <<create, status>> /\ UNCHANGED ledgerVars
      /\ shipments' \in {shipments, shipments \cup {call[c].order}}
      /\ UNCHANGED faults \/ Fault
  BY DEF CreateShipment
<1>2. /\ call[c] # NoCall /\ call[c].order \in Orders
      /\ status \in [Orders -> {"none"} \cup Statuses] /\ shipments \subseteq Orders /\ faults \in 0 .. MaxFaults
  BY <1>1, CallRow DEF CallActive
<1>3. faults' \in 0 .. MaxFaults /\ (faults' = 0 => faults = 0)
  BY <1>1, <1>2, FaultCounts
<1>4. /\ CallIs(c, call'[c], "notify", call[c].i)
      /\ call' \in [Calls -> {call'[d] : d \in Calls}] /\ \A d \in Calls \ {c} : call'[d] = call[d]
  BY <1>1, <1>2, SetCallPc DEF CallActive
<1>5. CallOK(c)'
  BY <1>1, <1>2, <1>4, NextCallOK
<1>6. Handled(c)' = Handled(c)
  <2>1. Handled(c) = 1 .. Len(create[call[c].order].items)
    BY <1>1 DEF Handled, AllItems
  <2>2. UNCHANGED create /\ "notify" \notin {"write", "commit", "release"}
    BY <1>1
  <2>3. Handled(c)' = 1 .. Len(create[call[c].order].items)
    BY <1>4, <2>2, NextHandled
  <2>4. QED
    BY <2>1, <2>3
<1>7. shipments' \subseteq Orders
  BY <1>1, <1>2
<1>8. QED
  BY <1>1, <1>2, <1>3, <1>4, <1>5, <1>6, <1>7, QuietStep

LEMMA NotifyStep ==
    ASSUME SagaInv, NEW CONSTANT c \in Calls, Notify(c)
    PROVE  SagaInv' /\ (StockInv => StockInv')
<1>1. /\ call[c].pc = "notify" /\ call' = [call EXCEPT ![c].pc = "done"]
      /\ UNCHANGED <<create, status, shipments, faults>> /\ UNCHANGED ledgerVars
  BY DEF Notify
<1>2. /\ call[c] # NoCall
      /\ status \in [Orders -> {"none"} \cup Statuses] /\ shipments \subseteq Orders /\ faults \in 0 .. MaxFaults
  BY <1>1, CallRow DEF CallActive
<1>3. /\ CallIs(c, call'[c], "done", call[c].i)
      /\ call' \in [Calls -> {call'[d] : d \in Calls}] /\ \A d \in Calls \ {c} : call'[d] = call[d]
  BY <1>1, <1>2, SetCallPc
<1>4. CallOK(c)'
  BY <1>1, <1>2, <1>3, NextCallOK
<1>5. Handled(c)' = Handled(c)
  <2>1. Handled(c) = 1 .. Len(create[call[c].order].items)
    BY <1>1 DEF Handled, AllItems
  <2>2. UNCHANGED create /\ "done" \notin {"write", "commit", "release"}
    BY <1>1
  <2>3. Handled(c)' = 1 .. Len(create[call[c].order].items)
    BY <1>3, <2>2, NextHandled
  <2>4. QED
    BY <2>1, <2>3
<1>6. QED
  BY <1>1, <1>2, <1>3, <1>4, <1>5, QuietStep

LEMMA DeleteWriteStep ==
    ASSUME SagaInv, NEW CONSTANT c \in Calls, DeleteWrite(c)
    PROVE  SagaInv' /\ (StockInv => StockInv')
<1> DEFINE q == call[c]
<1>1. /\ q.pc = "write" /\ q.method = "DELETE" /\ call' = [call EXCEPT ![c].pc = "done"]
      /\ status' = [status EXCEPT ![q.order] = IF q.prev = "cancelled" THEN @ ELSE "cancelled"]
      /\ UNCHANGED <<create, shipments, faults>> /\ UNCHANGED ledgerVars
  BY DEF DeleteWrite
<1>2. /\ q # NoCall /\ q.order \in Orders /\ status[q.order] # "none"
      /\ status \in [Orders -> {"none"} \cup Statuses] /\ shipments \subseteq Orders /\ faults \in 0 .. MaxFaults
  BY <1>1, CallRow DEF CallActive
<1>3. /\ CallIs(c, call'[c], "done", q.i)
      /\ call' \in [Calls -> {call'[d] : d \in Calls}] /\ \A d \in Calls \ {c} : call'[d] = call[d]
  BY <1>1, <1>2, SetCallPc
<1>4. /\ status' \in [Orders -> {"none"} \cup Statuses]
      /\ \A x \in Orders : status'[x] = "none" <=> status[x] = "none"
  BY <1>1, <1>2 DEF Statuses
<1>5. CallOK(c)'
  BY <1>1, <1>2, <1>3, <1>4, NextCallOK
<1>6. \A x \in Orders : ~ (Confirms(c, x) \/ Releases(c, x))
  BY <1>1 DEF Confirms, Releases, Put
<1>7. QED
  BY <1>1, <1>2, <1>3, <1>4, <1>5, <1>6, QuietStep

\* One item of a confirmed or of a cancelled order: the request takes from the
\* columns what the order holds of it no longer.
LEMMA SettleItem ==
    ASSUME SagaInv, NEW CONSTANT c \in Calls, call[c].pc \in {"commit", "release"},
           NextCallItem(c, IF call[c].pc = "commit" THEN "ship" ELSE "notify"),
           UNCHANGED <<create, status, shipments>>, LedgerOK',
           faults' \in 0 .. MaxFaults, faults' = 0 => faults = 0,
           \A p \in Products :
              /\ reserved'[p] >= reserved[p] - Of(CallItem(c), p)
              /\ faults' = 0 /\ reserved[CallItem(c).product] >= CallItem(c).quantity =>
                    /\ reserved'[p] = reserved[p] - Of(CallItem(c), p)
                    /\ quantity'[p] = IF call[c].pc = "commit" THEN quantity[p] - Of(CallItem(c), p) ELSE quantity[p]
    PROVE  SagaInv' /\ (StockInv => StockInv')
<1> DEFINE q == call[c]
           k == q.i
           n == Len(create[q.order].items)
           next == IF q.pc = "commit" THEN "ship" ELSE "notify"
<1>1. /\ q # NoCall /\ q \in CallRecords /\ q.order \in Orders /\ status[q.order] # "none"
      /\ n \in Nat \ {0} /\ create[q.order].items \in Baskets /\ k \in 1 .. n
      /\ status \in [Orders -> {"none"} \cup Statuses] /\ shipments \subseteq Orders
      /\ q.pc = "commit" => q.method = "PUT" /\ q.status = "confirmed"
      /\ q.pc = "release" => q.method = "PUT" /\ q.status = "cancelled" /\ q.prev = "pending"
  BY CallRow DEF CallActive
<1>2. next \in CallActive /\ next \notin {"write", "commit", "release"}
  BY DEF CallActive
<1>3. /\ k < n => CallIs(c, call'[c], q.pc, k + 1)
      /\ ~ (k < n) => CallIs(c, call'[c], next, k)
      /\ call' \in [Calls -> {call'[d] : d \in Calls}] /\ \A d \in Calls \ {c} : call'[d] = call[d]
  BY <1>2, NextCallEffect
<1>4. PICK pc, i : /\ CallIs(c, call'[c], pc, i)
                   /\ k < n => pc = q.pc /\ i = k + 1
                   /\ ~ (k < n) => pc = next /\ i = k
  BY <1>3
<1>5. CallOK(c)'
  <2>1. /\ pc # "write" /\ (pc \in {"commit", "release"} => i \in 1 .. n)
        /\ pc \in {"commit", "ship"} => q.pc = "commit"
        /\ pc = "release" => q.pc = "release"
    BY <1>1, <1>2, <1>4
  <2> HIDE DEF next
  <2>2. QED
    BY <1>1, <1>4, <2>1, NextCallOK
<1>6. SagaInv'
  BY <1>1, <1>3, <1>4, <1>5, CallStep DEF CallIs
<1>7. Handled(c) = 1 .. k - 1
  BY DEF Handled
<1>8. Handled(c)' = 1 .. k
  <2>1. /\ pc \in {"commit", "release"} => Handled(c)' = 1 .. i - 1
        /\ pc \notin {"write", "commit", "release"} => Handled(c)' = 1 .. n
    BY <1>4, NextHandled
  <2>2. CASE k < n
    <3>1. pc \in {"commit", "release"} /\ i - 1 = k
      BY <1>1, <1>4, <2>2
    <3>2. QED
      BY <2>1, <3>1
  <2>3. CASE ~ (k < n)
    <3>1. pc \notin {"write", "commit", "release"} /\ k = n
      BY <1>1, <1>2, <1>4, <2>3
    <3>2. QED
      BY <2>1, <3>1
  <2>4. QED
    BY <2>2, <2>3
<1>9. ASSUME StockInv
      PROVE  StockInv'
  <2>1. PICK o \in Orders : o = q.order
    BY <1>1
  <2>2. /\ q.pc = "commit" => Confirms(c, o)
        /\ q.pc = "release" => Releases(c, o) /\ ~ Confirms(c, o)
    BY <1>1, <2>1 DEF Confirms, Releases, Put
  <2>3. SettledOnce' <=> SettledOnce
    BY <1>1, <1>3, <1>4, CallShares
  <2> DEFINE items == create[o].items
             it == CallItem(c)
  <2>4. items \in Baskets /\ k \in 1 .. Len(items) /\ Len(items) = n /\ it = items[k]
    BY <1>1, <2>1 DEF CallItem
  <2>5. ASSUME SettledOnce, NEW p \in Products
        PROVE  /\ \A x \in Orders \ {o} : Held(x, p)' = Held(x, p) /\ Sold(x, p)' = Sold(x, p)
               /\ Held(o, p) = Held(o, p)' + Of(it, p) /\ Held(o, p)' \in Nat
               /\ q.pc = "commit" => Sold(o, p)' = Sold(o, p) + Of(it, p) /\ Sold(o, p) \in Nat
               /\ q.pc = "release" => Sold(o, p)' = 0 /\ Sold(o, p) = 0
    <3>1. /\ Held(o, p) = Units(items, (1 .. Len(items)) \ Handled(c), p)
          /\ Held(o, p)' = Units(items, (1 .. Len(items)) \ Handled(c)', p)
          /\ Confirms(c, o) => /\ Sold(o, p) = Units(items, Handled(c), p)
                               /\ Sold(o, p)' = Units(items, Handled(c)', p)
          /\ ~Confirms(c, o) => Sold(o, p) = 0 /\ Sold(o, p)' = 0
          /\ \A x \in Orders \ {o} : Held(x, p)' = Held(x, p) /\ Sold(x, p)' = Sold(x, p)
      BY <1>1, <1>3, <1>4, <2>2, <2>5, SettlingShares
    <3>2. (1 .. Len(items)) \ (1 .. k - 1) = k .. n /\ (1 .. Len(items)) \ (1 .. k) = k + 1 .. n /\ n \in k .. n
      BY <1>1, <2>4
    <3>3. Held(o, p) = Units(items, k .. n, p) /\ Held(o, p)' = Units(items, k + 1 .. n, p)
      BY <1>7, <1>8, <3>1, <3>2
    <3>4. Confirms(c, o) => Sold(o, p) = Units(items, 1 .. k - 1, p) /\ Sold(o, p)' = Units(items, 1 .. k, p)
      BY <1>7, <1>8, <3>1
    <3>5. /\ Units(items, 1 .. k, p) = Units(items, 1 .. k - 1, p) + Of(items[k], p)
          /\ \A j \in k .. Len(items) : Units(items, k .. j, p) = Units(items, k + 1 .. j, p) + Of(items[k], p)
          /\ Units(items, 1 .. k - 1, p) \in Nat
          /\ \A j \in k .. Len(items) : Units(items, k + 1 .. j, p) \in Nat
      BY <2>4, UnitsNext
    <3>6. Units(items, k .. n, p) = Units(items, k + 1 .. n, p) + Of(items[k], p) /\ Units(items, k + 1 .. n, p) \in Nat
      BY <2>4, <3>2, <3>5
    <3>7. QED
      BY <2>2, <2>4, <3>1, <3>3, <3>4, <3>5, <3>6
  <2>6. \A p \in Products : Of(it, p) \in Nat
    BY CallItemAtHand DEF Of
  <2>7. \A p \in Products : /\ reserved[p] \in Int /\ reserved'[p] \in Int
                            /\ quantity[p] \in Int /\ quantity'[p] \in Int
    BY DEF SagaInv, LedgerOK
  <2>8. ASSUME SettledOnce
        PROVE  reserved[it.product] >= it.quantity
    <3>1. it.product \in Products /\ it.quantity \in Nat
      BY CallItemAtHand
    <3>1a. PICK r \in Products : r = it.product
      BY <3>1
    <3>2. Held(o, r) <= reserved[r]
      BY <1>9, <2>8, HeldCovered
    <3>3. Held(o, r) = Held(o, r)' + Of(it, r) /\ Held(o, r)' \in Nat
      BY <2>5, <2>8
    <3>4. Of(it, r) = it.quantity
      BY <3>1a DEF Of
    <3>5. reserved[r] \in Int
      BY <2>7
    <3>6. QED
      BY <3>1, <3>1a, <3>2, <3>3, <3>4, <3>5
  <2>9. ASSUME SettledOnce, NEW p \in Products
        PROVE  /\ reserved'[p] - Held(o, p)' >= reserved[p] - Held(o, p)
               /\ faults' = 0 => /\ reserved'[p] - Held(o, p)' = reserved[p] - Held(o, p)
                                 /\ quantity'[p] + Sold(o, p)' = quantity[p] + Sold(o, p)
    <3>1. /\ reserved'[p] >= reserved[p] - Of(it, p)
          /\ faults' = 0 => reserved'[p] = reserved[p] - Of(it, p)
          /\ faults' = 0 => quantity'[p] = IF q.pc = "commit" THEN quantity[p] - Of(it, p) ELSE quantity[p]
      BY <2>8, <2>9
    <3> DEFINE of == Of(it, p)
               h == Held(o, p)
               h2 == Held(o, p)'
    <3>2. h = h2 + of /\ h2 \in Int /\ of \in Int
      BY <2>5, <2>6, <2>9
    <3>3. /\ reserved'[p] >= reserved[p] - of
          /\ faults' = 0 => reserved'[p] = reserved[p] - of
      BY <3>1
    <3>4. reserved[p] \in Int /\ reserved'[p] \in Int
      BY <2>7
    <3>5. faults' = 0 => quantity'[p] + Sold(o, p)' = quantity[p] + Sold(o, p)
      <4>1. CASE q.pc = "commit"
        <5>1. Sold(o, p)' = Sold(o, p) + of /\ Sold(o, p) \in Nat
          BY <2>5, <2>9, <4>1
        <5>2. faults' = 0 => quantity'[p] = quantity[p] - of
          BY <3>1, <4>1
        <5>3. quantity[p] \in Int
          BY <2>7
        <5> HIDE DEF of
        <5>4. QED
          BY <3>2, <5>1, <5>2, <5>3
      <4>2. CASE q.pc = "release"
        BY <2>5, <2>9, <3>1, <4>2
      <4>3. QED
        BY <4>1, <4>2
    <3> HIDE DEF of, h, h2
    <3>6. /\ reserved'[p] - h2 >= reserved[p] - h
          /\ faults' = 0 => reserved'[p] - h2 = reserved[p] - h
      BY <3>2, <3>3, <3>4
    <3>7. QED
      BY <3>5, <3>6 DEF h, h2
  <2>10. \A p \in Products : SettledOnce => \A x \in Orders \ {o} : Held(x, p)' = Held(x, p) /\ Sold(x, p)' = Sold(x, p)
    BY <2>5
  <2>11. QED
    BY <1>6, <1>9, <2>3, <2>9, <2>10, StockStep
<1>10. QED
  BY <1>6, <1>9

LEMMA CommitStep ==
    ASSUME SagaInv, NEW CONSTANT c \in Calls, CommitItem(c)
    PROVE  SagaInv' /\ (StockInv => StockInv')
<1>1. /\ call[c].pc = "commit" /\ UNCHANGED <<create, status, shipments>> /\ NextCallItem(c, "ship")
  BY DEF CommitItem
<1>2. faults \in 0 .. MaxFaults /\ \A p \in Products : reserved[p] \in Int /\ quantity[p] \in Int
  BY TypeParts DEF SagaInv, LedgerOK
<1>3. \A p \in Products : Of(CallItem(c), p) \in Nat
  BY <1>1, CallItemAtHand DEF Of
<1>4. /\ LedgerOK' /\ faults' \in 0 .. MaxFaults /\ (faults' = 0 => faults = 0)
      /\ \A p \in Products :
            /\ reserved'[p] >= reserved[p] - Of(CallItem(c), p)
            /\ faults' = 0 /\ reserved[CallItem(c).product] >= CallItem(c).quantity =>
                  /\ reserved'[p] = reserved[p] - Of(CallItem(c), p)
                  /\ quantity'[p] = quantity[p] - Of(CallItem(c), p)
  <2>1. CASE TryCommit(CallItem(c)) /\ UNCHANGED faults
    BY <1>1, <1>2, <2>1, CallItemAtHand, TryCommitEffect DEF SagaInv
  <2>2. CASE UNCHANGED ledgerVars /\ Fault
    <3>1. LedgerOK' /\ UNCHANGED <<reserved, quantity>>
      BY <2>2, LedgerSame DEF SagaInv
    <3>2. faults' \in 0 .. MaxFaults /\ faults' # 0
      BY <2>2, FaultCounts
    <3>3. QED
      BY <1>2, <1>3, <3>1, <3>2
  <2>3. QED
    BY <2>1, <2>2 DEF CommitItem
<1>5. QED
  BY <1>1, <1>4, SettleItem

LEMMA ReleaseStep ==
    ASSUME SagaInv, NEW CONSTANT c \in Calls, ReleaseItem(c)
    PROVE  SagaInv' /\ (StockInv => StockInv')
<1>1. /\ call[c].pc = "release" /\ UNCHANGED <<create, status, shipments>> /\ NextCallItem(c, "notify")
  BY DEF ReleaseItem
<1>2. faults \in 0 .. MaxFaults /\ \A p \in Products : reserved[p] \in Int /\ quantity[p] \in Int
  BY TypeParts DEF SagaInv, LedgerOK
<1>3. \A p \in Products : Of(CallItem(c), p) \in Nat
  BY <1>1, CallItemAtHand DEF Of
<1>4. /\ LedgerOK' /\ faults' \in 0 .. MaxFaults /\ (faults' = 0 => faults = 0)
      /\ \A p \in Products :
            /\ reserved'[p] >= reserved[p] - Of(CallItem(c), p)
            /\ faults' = 0 /\ reserved[CallItem(c).product] >= CallItem(c).quantity =>
                  reserved'[p] = reserved[p] - Of(CallItem(c), p) /\ quantity'[p] = quantity[p]
  <2>1. CASE TryRelease(CallItem(c)) /\ UNCHANGED faults
    BY <1>1, <1>2, <2>1, CallItemAtHand, TryReleaseEffect DEF SagaInv
  <2>2. CASE UNCHANGED ledgerVars /\ Fault
    <3>1. LedgerOK' /\ UNCHANGED <<reserved, quantity>>
      BY <2>2, LedgerSame DEF SagaInv
    <3>2. faults' \in 0 .. MaxFaults /\ faults' # 0
      BY <2>2, FaultCounts
    <3>3. QED
      BY <1>2, <1>3, <3>1, <3>2
  <2>3. QED
    BY <2>1, <2>2 DEF ReleaseItem
<1>5. QED
  BY <1>1, <1>4, SettleItem

\* A call that dies holds what it has not handled; nobody takes that any more.
LEMMA FailCallStep ==
    ASSUME SagaInv, NEW CONSTANT c \in Calls, FailCall(c)
    PROVE  SagaInv' /\ (StockInv => StockInv')
<1>1. /\ call[c].pc \in CallActive /\ call' = [call EXCEPT ![c].pc = "failed"] /\ Fault
      /\ UNCHANGED <<create, status, shipments>> /\ UNCHANGED ledgerVars
  BY DEF FailCall
<1>2. /\ call[c] # NoCall /\ call[c].order \in Orders
      /\ status \in [Orders -> {"none"} \cup Statuses] /\ shipments \subseteq Orders
  BY <1>1, CallRow
<1>3. faults' \in 0 .. MaxFaults /\ faults' # 0
  BY <1>1, FaultCounts
<1>4. /\ CallIs(c, call'[c], "failed", call[c].i)
      /\ call' \in [Calls -> {call'[d] : d \in Calls}] /\ \A d \in Calls \ {c} : call'[d] = call[d]
  BY <1>1, <1>2, SetCallPc
<1>5. UNCHANGED create /\ \A x \in Orders : status'[x] = "none" <=> status[x] = "none"
  BY <1>1
<1>6. CallOK(c)'
  BY <1>2, <1>4, <1>5, NextCallOK
<1>7. LedgerOK' /\ UNCHANGED <<reserved, quantity>>
  BY <1>1, LedgerSame DEF SagaInv
<1>8. SagaInv'
  BY <1>1, <1>2, <1>3, <1>4, <1>5, <1>6, <1>7, CallStep DEF CallIs
<1>9. PICK o \in Orders : o = call[c].order
  BY <1>2
<1>10. Handled(c)' = 1 .. Len(create[o].items)
  <2>1. "failed" \notin {"write", "commit", "release"}
    OBVIOUS
  <2>2. QED
    BY <1>4, <1>5, <1>9, <2>1, NextHandled
<1>11. ASSUME SettledOnce, NEW p \in Products
       PROVE  /\ \A x \in Orders \ {o} : Held(x, p)' = Held(x, p) /\ Sold(x, p)' = Sold(x, p)
              /\ reserved'[p] - Held(o, p)' >= reserved[p] - Held(o, p)
  <2>1. Held(o, p) \in Nat /\ reserved[p] \in Int
    BY SharesAreNat DEF SagaInv, LedgerOK
  <2>2. CASE Confirms(c, o) \/ Releases(c, o)
    <3>1. /\ Held(o, p)' = Units(create[o].items, (1 .. Len(create[o].items)) \ Handled(c)', p)
          /\ \A x \in Orders \ {o} : Held(x, p)' = Held(x, p) /\ Sold(x, p)' = Sold(x, p)
      BY <1>2, <1>4, <1>5, <1>11, <2>2, SettlingShares
    <3>2. (1 .. Len(create[o].items)) \ Handled(c)' = {}
      BY <1>10
    <3>3. Held(o, p)' = 0
      BY <3>1, <3>2, UnitsNone
    <3>4. QED
      BY <1>7, <2>1, <3>1, <3>3
  <2>3. CASE ~ (Confirms(c, o) \/ Releases(c, o))
    <3>1. \A x \in Orders : ~ (Confirms(c, x) \/ Releases(c, x))
      BY <1>9, <2>3 DEF Confirms, Releases
    <3>2. \A x \in Orders : Held(x, p)' = Held(x, p) /\ Sold(x, p)' = Sold(x, p)
      BY <1>2, <1>4, <1>5, <3>1, CallShares
    <3>3. QED
      BY <1>7, <2>1, <3>2
  <2>4. QED
    BY <2>2, <2>3
<1>12. SettledOnce' <=> SettledOnce
  BY <1>2, <1>4, <1>5, CallShares
<1>13. ASSUME StockInv
       PROVE  StockInv'
  BY <1>3, <1>8, <1>11, <1>12, <1>13, StockStep
<1>14. QED
  BY <1>8, <1>13

\* A call arrives: it has taken nothing yet.
LEMMA NewCall ==
    ASSUME SagaInv, NEW CONSTANT c \in Calls, call[c].pc = "none",
           call'[c] \in CallRecords, call'[c].pc \in {"write", "refused"}, call'[c].i = 1,
           call'[c].method = "PUT" => call'[c].pc = "write", status[call'[c].order] # "none",
           call' \in [Calls -> {call'[d] : d \in Calls}], \A d \in Calls \ {c} : call'[d] = call[d],
           UNCHANGED <<create, status, shipments, faults>>, UNCHANGED ledgerVars
    PROVE  SagaInv' /\ (StockInv => StockInv')
<1>1. call[c] = NoCall
  BY TypeParts DEF SagaInv, CallRecords, CallActive
<1>2. /\ status \in [Orders -> {"none"} \cup Statuses] /\ shipments \subseteq Orders /\ faults \in 0 .. MaxFaults
  BY TypeParts DEF SagaInv
<1>3. LedgerOK' /\ UNCHANGED <<reserved, quantity>>
  BY LedgerSame DEF SagaInv
<1>4. CallOK(c)'
  BY DEF CallOK
<1>5. SagaInv'
  BY <1>2, <1>3, <1>4, CallStep
<1>6. \A d \in Calls \ {c} : /\ Handled(d)' = Handled(d)
                             /\ \A x \in Orders : Confirms(d, x)' = Confirms(d, x) /\ Releases(d, x)' = Releases(d, x)
  BY DEF Handled, AllItems, Confirms, Releases, Put
<1>7. \A x \in Orders : ~ Confirms(c, x) /\ ~ Releases(c, x)
  BY <1>1 DEF Confirms, Releases, Put
<1>8. SettledOnce' => SettledOnce
  BY <1>6, <1>7 DEF SettledOnce
<1>9. \A x \in Orders : Confirms(c, x)' \/ Releases(c, x)' => Handled(c)' = {}
  <2>1. ASSUME NEW x \in Orders, Confirms(c, x)' \/ Releases(c, x)'
        PROVE  call'[c].pc = "write"
    BY <2>1 DEF Confirms, Releases, Put
  <2>2. call'[c].pc = "write" => Handled(c)' = {}
    BY DEF Handled
  <2>3. QED
    BY <2>1, <2>2
<1>10. ASSUME NEW CONSTANT x \in Orders
       PROVE  Gone(x)' = Gone(x) /\ Confirmed(x)' = Confirmed(x)
  <2>1. Gone(x)' = UNION {Handled(d)' : d \in {e \in Calls : Confirms(e, x)' \/ Releases(e, x)'}}
    BY DEF Gone
  <2>2. Confirmed(x)' = UNION {Handled(d)' : d \in {e \in Calls : Confirms(e, x)'}}
    BY DEF Confirmed
  <2>3. Gone(x)' \subseteq Gone(x) /\ Confirmed(x)' \subseteq Confirmed(x)
    BY <1>6, <1>9, <2>1, <2>2 DEF Gone, Confirmed
  <2>4. Gone(x) \subseteq Gone(x)' /\ Confirmed(x) \subseteq Confirmed(x)'
    BY <1>6, <1>7, <2>1, <2>2 DEF Gone, Confirmed
  <2>5. QED
    BY <2>3, <2>4
<1>11. ASSUME NEW CONSTANT x \in Orders, NEW CONSTANT p \in Products
       PROVE  Held(x, p)' = Held(x, p) /\ Sold(x, p)' = Sold(x, p)
  <2>1. Gone(x)' = Gone(x) /\ Confirmed(x)' = Confirmed(x)
    BY <1>10
  <2>2. create'[x] = create[x] /\ status'[x] = status[x]
    OBVIOUS
  <2>3. QED
    BY <2>1, <2>2, Shares
<1>12. ASSUME StockInv, Orders # {}
       PROVE  StockInv'
  <2>1. PICK o \in Orders : TRUE
    BY <1>12
  <2>2. \A p \in Products : /\ reserved'[p] - Held(o, p)' >= reserved[p] - Held(o, p)
                            /\ reserved'[p] - Held(o, p)' = reserved[p] - Held(o, p)
                            /\ quantity'[p] + Sold(o, p)' = quantity[p] + Sold(o, p)
    <3>1. \A p \in Products : Held(o, p) \in Int /\ reserved[p] \in Int
      BY SharesAreNat DEF SagaInv, LedgerOK
    <3>2. QED
      BY <1>3, <1>11, <3>1
  <2>3. QED
    BY <1>5, <1>8, <1>11, <1>12, <2>2, StockStep
<1>13. Orders # {}
  BY DEF CallRecords
<1>14. QED
  BY <1>5, <1>12, <1>13

LEMMA PutReadStep ==
    ASSUME SagaInv, NEW CONSTANT c \in Calls, NEW CONSTANT o \in Orders, NEW CONSTANT st \in PutStatuses,
           PutRead(c, o, st)
    PROVE  SagaInv' /\ (StockInv => StockInv')
<1>1. /\ call[c].pc = "none" /\ status[o] # "none" /\ UNCHANGED <<create, status, shipments, faults>>
      /\ UNCHANGED ledgerVars
      /\ call' = [call EXCEPT ![c] = [pc |-> "write", method |-> "PUT", order |-> o,
                                      status |-> st, prev |-> status[o], i |-> 1]]
  BY DEF PutRead
<1>2. DOMAIN call = Calls /\ status[o] \in Statuses /\ st \in Statuses
  BY <1>1, TypeParts, OrderAssumption DEF SagaInv
<1>3. /\ call'[c] = [pc |-> "write", method |-> "PUT", order |-> o, status |-> st, prev |-> status[o], i |-> 1]
      /\ call' \in [Calls -> {call'[d] : d \in Calls}] /\ \A d \in Calls \ {c} : call'[d] = call[d]
  BY <1>1, <1>2
<1>4. call'[c] \in CallRecords
  BY <1>2, <1>3 DEF CallRecords, CallActive
<1>5. call'[c].pc = "write" /\ call'[c].i = 1 /\ call'[c].order = o
  BY <1>3
<1>6. QED
  BY <1>1, <1>3, <1>4, <1>5, NewCall

LEMMA DeleteReadStep ==
    ASSUME SagaInv, NEW CONSTANT c \in Calls, NEW CONSTANT o \in Orders, DeleteRead(c, o)
    PROVE  SagaInv' /\ (StockInv => StockInv')
<1> DEFINE pc == IF status[o] \in {"shipped", "delivered"} THEN "refused" ELSE "write"
<1>1. /\ call[c].pc = "none" /\ status[o] # "none" /\ UNCHANGED <<create, status, shipments, faults>>
      /\ UNCHANGED ledgerVars
      /\ call' = [call EXCEPT ![c] = [pc |-> pc, method |-> "DELETE", order |-> o,
                                      status |-> "cancelled", prev |-> status[o], i |-> 1]]
  BY DEF DeleteRead
<1>2. DOMAIN call = Calls /\ status[o] \in Statuses /\ pc \in {"write", "refused"}
  BY <1>1, TypeParts DEF SagaInv
<1> HIDE DEF pc
<1>3. /\ call'[c] = [pc |-> pc, method |-> "DELETE", order |-> o, status |-> "cancelled", prev |-> status[o], i |-> 1]
      /\ call' \in [Calls -> {call'[d] : d \in Calls}] /\ \A d \in Calls \ {c} : call'[d] = call[d]
  BY <1>1, <1>2
<1>4. call'[c] \in CallRecords
  BY <1>2, <1>3 DEF CallRecords, CallActive, Statuses
<1>5. call'[c].pc = pc /\ call'[c].method = "DELETE" /\ call'[c].i = 1 /\ call'[c].order = o
  BY <1>3
<1>6. QED
  BY <1>1, <1>2, <1>3, <1>4, <1>5, NewCall

-----------------------------------------------------------------------------
(* The theorems.                                                           *)

LEMMA InitSaga == Init => SagaInv
<1> SUFFICES ASSUME Init PROVE SagaInv
  OBVIOUS
<1>1. /\ listed = SeededProducts /\ reserved = [p \in Products |-> 0]
      /\ quantity = [p \in Products |-> IF p \in SeededProducts THEN SeedQuantity[p] ELSE 0]
      /\ create = [o \in Orders |-> NoCreate] /\ status = [o \in Orders |-> "none"]
      /\ call = [c \in Calls |-> NoCall] /\ shipments = {} /\ faults = 0
  BY DEF Init, Ledger!Init
<1>2. LedgerOK
  <2>1. \A p \in Products : reserved[p] = 0 /\ quantity[p] \in Nat /\ SeedQuantity[p] \in Nat
    BY <1>1, OrderAssumption
  <2>2. quantity \in [Products -> Nat] /\ reserved \in [Products -> Nat]
    BY <1>1, OrderAssumption
  <2>3. listed \subseteq Products
    BY <1>1, OrderAssumption
  <2>4. QED
    BY <2>1, <2>2, <2>3 DEF LedgerOK
<1>3. TypeOK
  <2>1. 0 \in 0 .. MaxFaults
    BY OrderAssumption
  <2>2. QED
    BY <1>1, <2>1 DEF TypeOK
<1>4. \A o \in Orders : CreateOK(o)
  BY <1>1 DEF CreateOK, NoCreate
<1>5. \A c \in Calls : CallOK(c)
  BY <1>1 DEF CallOK
<1>6. QED
  BY <1>2, <1>3, <1>4, <1>5 DEF SagaInv

LEMMA InitStock == Init => StockInv
<1> SUFFICES ASSUME Init, NEW p \in Products
    PROVE  /\ TotalHeld(p) <= reserved[p]
           /\ reserved[p] = TotalHeld(p)
           /\ quantity[p] + TotalSold(p) = IF p \in SeededProducts THEN SeedQuantity[p] ELSE 0
  BY DEF StockInv
<1>1. /\ reserved[p] = 0 /\ quantity[p] = IF p \in SeededProducts THEN SeedQuantity[p] ELSE 0
      /\ quantity[p] \in Int
      /\ \A o \in Orders : create[o] = NoCreate /\ status[o] = "none"
  BY OrderAssumption DEF Init, Ledger!Init
<1>2. SagaInv
  BY InitSaga
<1>3. ASSUME NEW o \in Orders
      PROVE  Held(o, p) = 0 /\ Sold(o, p) = 0
  <2>1. create[o].pc = "none" /\ status[o] = "none"
    BY <1>1 DEF NoCreate
  <2>2. Held(o, p) = 0
    BY <2>1, HeldCases
  <2>3. Confirmed(o) = {}
    BY <1>2, <2>1, HandledItems
  <2>4. QED
    BY <2>2, <2>3, Shares, UnitsNone
<1> DEFINE h == [x \in Orders |-> Held(x, p)]
           s == [x \in Orders |-> Sold(x, p)]
<1>4. \A x \in Orders : h[x] = 0 /\ s[x] = 0
  BY <1>3
<1>5. TotalHeld(p) = SumFunctionOnSet(h, Orders) /\ TotalSold(p) = SumFunctionOnSet(s, Orders)
  BY Totals
<1>6. IsFiniteSet(Orders)
  BY OrderAssumption
<1> HIDE DEF h, s
<1>7. SumFunctionOnSet(h, Orders) = 0 /\ SumFunctionOnSet(s, Orders) = 0
  BY <1>4, <1>6, SumOfZeros
<1>8. QED
  BY <1>1, <1>5, <1>7

LEMMA NextInv == SagaInv /\ [Next]_vars => SagaInv' /\ (StockInv => StockInv')
<1> SUFFICES ASSUME SagaInv, [Next]_vars PROVE SagaInv' /\ (StockInv => StockInv')
  OBVIOUS
<1>1. ASSUME NEW o \in Orders, NEW items \in Baskets, Post(o, items)
      PROVE  SagaInv' /\ (StockInv => StockInv')
  BY <1>1, PostStep
<1>2. ASSUME NEW o \in Orders, create_order(o)
      PROVE  SagaInv' /\ (StockInv => StockInv')
  BY <1>2, ValidateStep, ReserveStep, RefuseStep, RollbackStep, InsertStep, ClearStep DEF create_order
<1>3. ASSUME NEW o \in Orders, ReserveAnswerLost(o) \/ FailCreate(o)
      PROVE  SagaInv' /\ (StockInv => StockInv')
  BY <1>3, AnswerLostStep, FailCreateStep
<1>4. ASSUME NEW c \in Calls, NEW o \in Orders, NEW st \in PutStatuses, PutRead(c, o, st)
      PROVE  SagaInv' /\ (StockInv => StockInv')
  BY <1>4, PutReadStep
<1>5. ASSUME NEW c \in Calls, NEW o \in Orders, DeleteRead(c, o)
      PROVE  SagaInv' /\ (StockInv => StockInv')
  BY <1>5, DeleteReadStep
<1>6. ASSUME NEW c \in Calls, update_status(c) \/ cancel_order(c)
      PROVE  SagaInv' /\ (StockInv => StockInv')
  BY <1>6, PutWriteStep, CommitStep, ShipmentStep, ReleaseStep, NotifyStep, DeleteWriteStep
     DEF update_status, cancel_order
<1>7. ASSUME NEW c \in Calls, FailCall(c)
      PROVE  SagaInv' /\ (StockInv => StockInv')
  BY <1>7, FailCallStep
<1>8. CASE UNCHANGED vars
  <2>1. UNCHANGED <<listed, quantity, reserved, create, status, call, shipments, faults>>
    BY <1>8 DEF vars
  <2>2. SagaInv'
    BY <2>1 DEF SagaInv, TypeOK, LedgerOK, CreateOK, CallOK, AllItems
  <2>3. \A c \in Calls : /\ Handled(c)' = Handled(c)
                         /\ \A x \in Orders : Confirms(c, x)' = Confirms(c, x) /\ Releases(c, x)' = Releases(c, x)
    BY <2>1 DEF Handled, AllItems, Confirms, Releases, Put
  <2>4. SettledOnce' <=> SettledOnce
    BY <2>3 DEF SettledOnce
  <2>5. ASSUME NEW CONSTANT x \in Orders, NEW CONSTANT p \in Products
        PROVE  Held(x, p)' = Held(x, p) /\ Sold(x, p)' = Sold(x, p)
    <3>1. Gone(x)' = Gone(x) /\ Confirmed(x)' = Confirmed(x)
      BY <2>3, GoneAgrees
    <3>2. create'[x] = create[x] /\ status'[x] = status[x]
      BY <2>1
    <3>3. QED
      BY <3>1, <3>2, Shares
  <2>6. ASSUME NEW CONSTANT p \in Products
        PROVE  TotalHeld(p)' = TotalHeld(p) /\ TotalSold(p)' = TotalSold(p)
    <3>1. /\ [x \in Orders |-> Held(x, p)'] = [x \in Orders |-> Held(x, p)]
          /\ [x \in Orders |-> Sold(x, p)'] = [x \in Orders |-> Sold(x, p)]
      BY <2>5
    <3>2. QED
      BY <3>1, Totals
  <2>7. StockInv => StockInv'
    BY <2>1, <2>4, <2>6 DEF StockInv
  <2>8. QED
    BY <2>2, <2>7
<1>9. QED
  BY <1>1, <1>2, <1>3, <1>4, <1>5, <1>6, <1>7, <1>8 DEF Next

\* The handlers keep their records in order, and their loops stay inside their items
\* (create_order, update_status and cancel_order, order main.py:86-191).
THEOREM SagaInOrder == Spec => []SagaInv
<1>1. Init => SagaInv
  BY InitSaga
<1>2. SagaInv /\ [Next]_vars => SagaInv'
  BY NextInv
<1>3. QED
  BY <1>1, <1>2, PTL DEF Spec

\* Every variable keeps its type: no column goes negative, no handler leaves its
\* items, whatever calls are lost (order main.py:86-191).
THEOREM TypeCorrect == Spec => []TypeOK
<1>1. SagaInv => TypeOK
  BY DEF SagaInv
<1>2. QED
  BY <1>1, SagaInOrder, PTL

\* Orders never hold more than is reserved, and without a fault just that
\* (the calls of order main.py:98-106 and 160-173 to the inventory).
THEOREM BooksInOrder == Spec => []StockInv
<1>1. Init => StockInv
  BY InitStock
<1>2. SagaInv /\ StockInv /\ [Next]_vars => StockInv'
  BY NextInv
<1>3. QED
  BY <1>1, <1>2, SagaInOrder, PTL DEF Spec

\* Whatever is lost and whoever dies, the stock an order holds is reserved for it
\* until its own PUT takes it: a fault leaves too much reserved, never too
\* little (order main.py:93-107, 157-175).
THEOREM HeldIsReserved == Spec => []HeldStockIsReserved
<1>1. StockInv => HeldStockIsReserved
  BY DEF StockInv, HeldStockIsReserved
<1>2. QED
  BY <1>1, BooksInOrder, PTL

\* Without a fault the books balance at every step of every interleaving
\* (order main.py:93-191).
THEOREM Explained == Spec => []StockExplained
<1>1. SagaInv /\ StockInv => StockExplained
  <2> SUFFICES ASSUME SagaInv, StockInv, SettledOnce, faults = 0, NEW p \in Products
      PROVE  /\ reserved[p] = TotalHeld(p)
             /\ quantity[p] = (IF p \in SeededProducts THEN SeedQuantity[p] ELSE 0) - TotalSold(p)
    BY DEF StockExplained
  <2> DEFINE s == [x \in Orders |-> Sold(x, p)]
  <2>1. reserved[p] = TotalHeld(p)
        /\ quantity[p] + TotalSold(p) = IF p \in SeededProducts THEN SeedQuantity[p] ELSE 0
    BY DEF StockInv
  <2>2. IsFiniteSet(Orders) /\ \A x \in Orders : s[x] \in Int
    BY SharesAreNat, OrderAssumption
  <2>3. TotalSold(p) = SumFunctionOnSet(s, Orders)
    BY Totals
  <2> HIDE DEF s
  <2>4. TotalSold(p) \in Int
    BY <2>2, <2>3, SumIsInt
  <2>5. quantity[p] \in Int
    BY DEF SagaInv, LedgerOK
  <2>6. QED
    BY <2>1, <2>4, <2>5
<1>2. QED
  BY <1>1, SagaInOrder, BooksInOrder, PTL

=============================================================================
