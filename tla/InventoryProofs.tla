--------------------------- MODULE InventoryProofs ---------------------------
(***************************************************************************)
(* Proofs about Inventory.tla, for every set of products and sessions and  *)
(* every interleaving of their handlers.                                   *)
(***************************************************************************)
EXTENDS Inventory, TLAPS

\* What a session holds between its SELECT and its commit.
SnapshotOK(s) ==
    session[s] # Idle =>
        /\ session[s].quantity >= 0
        /\ session[s].reserved >= 0
        /\ session[s].op = "adjust" => session[s].amount \in Deltas
        /\ session[s].op # "adjust" => session[s].amount \in Amounts
        /\ session[s].found => session[s].product \in listed
        /\ ~session[s].found => session[s].quantity = 0 /\ session[s].reserved = 0
        /\ session[s].pc = "flushed" => session[s].op = "adjust" /\ ~session[s].found

Snapshots == \A s \in Sessions : SnapshotOK(s)

\* A product without a row cannot have been written from an old snapshot.
StaleAreListed == stale \subseteq listed

\* The inductive invariant.
IInv ==
    /\ TypeOK
    /\ NonNegative
    /\ Snapshots
    /\ StaleAreListed
    /\ OneRowPerProduct
    /\ LogExplainsRow
    /\ ReservedWithinStock

-----------------------------------------------------------------------------
(* The commit of a request, seen from the tables.                          *)

\* A session that is not idle holds a well-formed request.
LEMMA ActiveSession ==
    ASSUME TypeOK, NEW s \in Sessions, session[s] # Idle
    PROVE  session[s] \in Requests
BY DEF TypeOK

\* What Write does to the row of its product and what it leaves alone: a
\* product that is fresh after it was fresh before and gets the new values.
LEMMA WriteEffect ==
    ASSUME TypeOK, InventoryAssumption, NEW s \in Sessions, session[s] \in Requests,
           NEW q \in Int, NEW r \in Int, NEW d \in Int, Write(s, q, r, d),
           NEW p, p = session[s].product
    PROVE  /\ p \in Products
           /\ quantity' \in [Products -> Int] /\ reserved' \in [Products -> Int]
           /\ movements' \in [Products -> [Operations -> Int]]
           /\ stale' \in SUBSET Products /\ stale \subseteq stale' /\ stale' \subseteq stale \cup {p}
           /\ session' = [session EXCEPT ![s] = Idle]
           /\ \A x \in Products \ {p} :
                 quantity'[x] = quantity[x] /\ reserved'[x] = reserved[x] /\ movements'[x] = movements[x]
           /\ quantity'[p] \in {quantity[p], q}
           /\ reserved'[p] \in {reserved[p], r}
           /\ q # session[s].quantity => quantity'[p] = q
           /\ r # session[s].reserved => reserved'[p] = r
           /\ movements'[p] = [movements[p] EXCEPT ![session[s].op] = @ + d]
           /\ Fresh(s) => stale' = stale
           /\ p \notin stale' =>
                /\ p \notin stale
                /\ Fresh(s)
                /\ quantity'[p] = q
                /\ reserved'[p] = r
<1> DEFINE req == session[s]
<1>1. /\ p \in Products
      /\ req.op \in Operations
      /\ req.quantity \in Int
      /\ req.reserved \in Int
  BY DEF Requests
<1>2. /\ quantity' = [quantity EXCEPT ![p] = IF q = req.quantity THEN @ ELSE q]
      /\ reserved' = [reserved EXCEPT ![p] = IF r = req.reserved THEN @ ELSE r]
      /\ movements' = [movements EXCEPT ![p][req.op] = @ + d]
      /\ stale' = IF Fresh(s) THEN stale ELSE stale \cup {p}
      /\ session' = [session EXCEPT ![s] = Idle]
  BY DEF Write
<1>3. /\ quantity \in [Products -> Int] /\ reserved \in [Products -> Int]
      /\ movements \in [Products -> [Operations -> Int]] /\ stale \subseteq Products
  BY DEF TypeOK
<1>4. Fresh(s) <=> req.quantity = quantity[p] /\ req.reserved = reserved[p]
  BY DEF Fresh
<1> HIDE DEF req
<1>5. quantity' \in [Products -> Int] /\ reserved' \in [Products -> Int]
  BY <1>1, <1>2, <1>3
<1>6. movements' \in [Products -> [Operations -> Int]]
  BY <1>1, <1>2, <1>3
<1>7. stale' \in SUBSET Products /\ stale \subseteq stale' /\ stale' \subseteq stale \cup {p}
  BY <1>1, <1>2, <1>3
<1>8. \A x \in Products \ {p} :
         quantity'[x] = quantity[x] /\ reserved'[x] = reserved[x] /\ movements'[x] = movements[x]
  BY <1>1, <1>2, <1>3
<1>9. /\ quantity'[p] \in {quantity[p], q}
      /\ reserved'[p] \in {reserved[p], r}
      /\ q # req.quantity => quantity'[p] = q
      /\ r # req.reserved => reserved'[p] = r
  BY <1>1, <1>2, <1>3
<1>10. movements'[p] = [movements[p] EXCEPT ![req.op] = @ + d]
  BY <1>1, <1>2, <1>3
<1>11. ASSUME p \notin stale'
       PROVE  /\ p \notin stale /\ Fresh(s)
              /\ quantity'[p] = q
              /\ reserved'[p] = r
  <2>1. p \notin stale /\ Fresh(s)
    BY <1>2, <1>11
  <2>2. req.quantity = quantity[p] /\ req.reserved = reserved[p]
    BY <2>1, <1>4
  <2>3. quantity' = [quantity EXCEPT ![p] = q] /\ reserved' = [reserved EXCEPT ![p] = r]
    BY <1>2, <2>2
  <2> QED BY <2>1, <2>3, <1>1, <1>3
<1> QED BY <1>1, <1>2, <1>5, <1>6, <1>7, <1>8, <1>9, <1>10, <1>11 DEF req

\* A commit keeps the invariant when its values are not negative, leave no more
\* reserved than there is in stock, and differ from the snapshot by what is logged.
LEMMA WritePreserves ==
    ASSUME InventoryAssumption, IInv, NEW s \in Sessions, session[s] \in Requests,
           NEW q \in Int, NEW r \in Int, NEW d \in Int, Write(s, q, r, d),
           listed' = listed \cup {session[s].product},
           q >= 0, r >= 0,
           Fresh(s) /\ session[s].product \notin stale => r <= q,
           q = session[s].quantity + (IF session[s].op \in {"adjust", "commit"} THEN d ELSE 0),
           r = session[s].reserved + (IF session[s].op = "commit" THEN d
                                      ELSE IF session[s].op = "adjust" THEN 0 ELSE -d),
           \A t \in Sessions \ {s} :
               session[t].pc = "flushed" => session[t].product # session[s].product
    PROVE  IInv'
<1> DEFINE p == session[s].product
<1> DEFINE op == session[s].op
<1>a. TypeOK
  BY DEF IInv
<1>w. /\ p \in Products
      /\ quantity' \in [Products -> Int] /\ reserved' \in [Products -> Int]
      /\ movements' \in [Products -> [Operations -> Int]]
      /\ stale' \in SUBSET Products /\ stale \subseteq stale' /\ stale' \subseteq stale \cup {p}
      /\ session' = [session EXCEPT ![s] = Idle]
      /\ \A x \in Products \ {p} :
            quantity'[x] = quantity[x] /\ reserved'[x] = reserved[x] /\ movements'[x] = movements[x]
      /\ quantity'[p] \in {quantity[p], q}
      /\ reserved'[p] \in {reserved[p], r}
      /\ movements'[p] = [movements[p] EXCEPT ![op] = @ + d]
      /\ p \notin stale' =>
           /\ p \notin stale
           /\ Fresh(s)
           /\ quantity'[p] = q
           /\ reserved'[p] = r
  BY <1>a, WriteEffect
<1>o. op \in Operations
  BY DEF Requests
<1>m. /\ movements[p] \in [Operations -> Int]
      /\ quantity[p] \in Int /\ reserved[p] \in Int
  BY <1>a, <1>w DEF TypeOK
<1> HIDE DEF p, op
<1>1. TypeOK'
  <2>1. listed' \subseteq Products
    BY <1>a, <1>w DEF TypeOK, p
  <2>2. session' \in [Sessions -> {Idle} \cup Requests]
    BY <1>a, <1>w DEF TypeOK
  <2> QED BY <2>1, <2>2, <1>w DEF TypeOK
<1>2. NonNegative'
  BY <1>w, <1>m DEF IInv, NonNegative, TypeOK
<1>3. Snapshots'
  <2> SUFFICES ASSUME NEW t \in Sessions PROVE SnapshotOK(t)'
    BY DEF Snapshots
  <2>1. CASE t = s
    BY <2>1, <1>w, <1>a DEF SnapshotOK, TypeOK
  <2>2. CASE t # s
    <3>1. session'[t] = session[t] /\ listed \subseteq listed'
      BY <2>2, <1>w, <1>a DEF TypeOK
    <3>2. SnapshotOK(t)
      BY DEF IInv, Snapshots
    <3> QED BY <3>1, <3>2 DEF SnapshotOK
  <2> QED BY <2>1, <2>2
<1>4. StaleAreListed'
  BY <1>w DEF IInv, StaleAreListed, p
<1>5. OneRowPerProduct'
  <2>1. ASSUME NEW t \in Sessions, session'[t].pc = "flushed"
        PROVE  /\ t # s /\ session'[t] = session[t]
               /\ session[t].product \notin listed'
    <3>1. t # s
      BY <2>1, <1>w, <1>a DEF TypeOK, Idle
    <3>2. session'[t] = session[t]
      BY <3>1, <1>w, <1>a DEF TypeOK
    <3>3. session[t].product # session[s].product
      BY <3>1, <3>2, <2>1
    <3>4. session[t].product \notin listed
      BY <3>2, <2>1 DEF IInv, OneRowPerProduct
    <3> QED BY <3>1, <3>2, <3>3, <3>4
  <2>2. ASSUME NEW x \in Products \ listed'
        PROVE  quantity'[x] = 0 /\ reserved'[x] = 0 /\ \A o \in Operations : movements'[x][o] = 0
    <3>1. x \in Products \ listed /\ x \in Products \ {p}
      BY <2>2 DEF p
    <3> QED BY <3>1, <1>w DEF IInv, OneRowPerProduct
  <2>3. ASSUME NEW t \in Sessions, session'[t].pc = "flushed",
               NEW u \in Sessions \ {t}, session'[u].pc = "flushed"
        PROVE  session'[u].product # session'[t].product
    <3>1. session'[t] = session[t] /\ session'[u] = session[u]
      BY <2>1, <2>3
    <3> QED BY <3>1, <2>3 DEF IInv, OneRowPerProduct
  <2>4. \A t \in Sessions : session'[t].pc = "flushed" => session'[t].product \notin listed'
    BY <2>1
  <2> QED BY <2>2, <2>3, <2>4 DEF OneRowPerProduct
<1>6. LogExplainsRow'
  <2> SUFFICES ASSUME NEW x \in Products \ stale'
      PROVE  /\ quantity'[x] = (IF x \in SeededProducts THEN SeedQuantity[x] ELSE 0)
                                  + movements'[x]["adjust"] + movements'[x]["commit"]
             /\ reserved'[x] = movements'[x]["commit"] - movements'[x]["reserve"]
                                  - movements'[x]["release"]
    BY DEF LogExplainsRow
  <2>1. x \in Products \ stale
    BY <1>w
  <2> DEFINE base == IF x \in SeededProducts THEN SeedQuantity[x] ELSE 0
  <2>2. /\ quantity[x] = base + movements[x]["adjust"] + movements[x]["commit"]
        /\ reserved[x] = movements[x]["commit"] - movements[x]["reserve"] - movements[x]["release"]
    BY <2>1 DEF IInv, LogExplainsRow
  <2>3. base \in Int
    BY <2>1 DEF InventoryAssumption
  <2>4. CASE x # p
    BY <2>4, <2>1, <2>2, <1>w
  <2>5. CASE x = p
    <3>1. /\ q = quantity[p] + (IF op \in {"adjust", "commit"} THEN d ELSE 0)
          /\ r = reserved[p] + (IF op = "commit" THEN d ELSE IF op = "adjust" THEN 0 ELSE -d)
      BY <2>5, <1>w DEF Fresh, p, op
    <3>2. quantity'[p] = q /\ reserved'[p] = r
      BY <2>5, <1>w
    <3>3. Operations = {"adjust", "reserve", "release", "commit"}
      BY DEF Operations, Ledger!Operations
    <3> DEFINE Explained ==
          /\ quantity'[p] = base + movements'[p]["adjust"] + movements'[p]["commit"]
          /\ reserved'[p] = movements'[p]["commit"] - movements'[p]["reserve"] - movements'[p]["release"]
    <3>9. /\ quantity[p] = base + movements[p]["adjust"] + movements[p]["commit"]
          /\ reserved[p] = movements[p]["commit"] - movements[p]["reserve"] - movements[p]["release"]
      BY <2>2, <2>5
    <3>10. /\ movements'[p] = [movements[p] EXCEPT ![op] = @ + d]
           /\ \A o \in Operations : movements[p][o] \in Int
      BY <1>w, <1>m
    <3> HIDE DEF base
    <3>4. ASSUME op = "adjust" PROVE Explained
      BY <3>1, <3>2, <3>3, <3>4, <3>9, <3>10, <2>3, <1>m
    <3>5. ASSUME op = "reserve" PROVE Explained
      BY <3>1, <3>2, <3>3, <3>5, <3>9, <3>10, <2>3, <1>m
    <3>6. ASSUME op = "release" PROVE Explained
      BY <3>1, <3>2, <3>3, <3>6, <3>9, <3>10, <2>3, <1>m
    <3>7. ASSUME op = "commit" PROVE Explained
      BY <3>1, <3>2, <3>3, <3>7, <3>9, <3>10, <2>3, <1>m
    <3>8. Explained
      BY <3>3, <3>4, <3>5, <3>6, <3>7, <1>o
    <3> QED BY <3>8, <2>5 DEF base
  <2> QED BY <2>4, <2>5
<1>7. ReservedWithinStock'
  <2> SUFFICES ASSUME NEW x \in Products \ stale' PROVE reserved'[x] <= quantity'[x]
    BY DEF ReservedWithinStock
  <2>1. x \in Products \ stale
    BY <1>w
  <2>2. CASE x # p
    BY <2>1, <2>2, <1>w DEF IInv, ReservedWithinStock
  <2>3. CASE x = p
    BY <2>3, <1>w DEF p
  <2> QED BY <2>2, <2>3
<1> QED BY <1>1, <1>2, <1>3, <1>4, <1>5, <1>6, <1>7 DEF IInv

\* A step that touches no table keeps the invariant when every session that is
\* not idle afterwards holds a request in order.
LEMMA QuietPreserves ==
    ASSUME IInv, UNCHANGED <<listed, quantity, reserved, movements, stale>>,
           session' \in [Sessions -> {Idle} \cup Requests],
           \A s \in Sessions : SnapshotOK(s)',
           \A s \in Sessions : session'[s].pc = "flushed" =>
               /\ session'[s].product \notin listed
               /\ \A t \in Sessions \ {s} :
                     session'[t].pc = "flushed" => session'[t].product # session'[s].product
    PROVE  IInv'
<1>1. TypeOK'
  BY DEF IInv, TypeOK
<1>2. NonNegative' /\ StaleAreListed' /\ LogExplainsRow' /\ ReservedWithinStock'
  BY DEF IInv, NonNegative, StaleAreListed, LogExplainsRow, ReservedWithinStock
<1>3. Snapshots'
  BY DEF Snapshots
<1>4. OneRowPerProduct'
  BY DEF IInv, OneRowPerProduct
<1> QED BY <1>1, <1>2, <1>3, <1>4 DEF IInv

LEMMA LoadPreserves ==
    ASSUME InventoryAssumption, IInv, NEW s \in Sessions, NEW op \in Operations,
           NEW p \in Products, NEW n \in Int,
           op = "adjust" => n \in Deltas, op # "adjust" => n \in Amounts,
           Load(s, op, p, n)
    PROVE  IInv'
<1> DEFINE req == [pc |-> "loaded", op |-> op, product |-> p, amount |-> n,
                   found |-> p \in listed, quantity |-> quantity[p], reserved |-> reserved[p]]
<1>1. /\ session' = [session EXCEPT ![s] = req]
      /\ UNCHANGED <<listed, quantity, reserved, movements, stale>>
  BY DEF Load
<1>2. req \in Requests
  BY DEF Requests, IInv, TypeOK
<1>3. session' \in [Sessions -> {Idle} \cup Requests]
  BY <1>1, <1>2 DEF IInv, TypeOK
<1>4. session'[s] = req /\ \A t \in Sessions \ {s} : session'[t] = session[t]
  BY <1>1 DEF IInv, TypeOK
<1>5. ASSUME NEW t \in Sessions PROVE SnapshotOK(t)'
  <2>1. CASE t = s
    <3>1. quantity[p] >= 0 /\ reserved[p] >= 0
      BY DEF IInv, NonNegative
    <3>2. p \notin listed => quantity[p] = 0 /\ reserved[p] = 0
      BY DEF IInv, OneRowPerProduct
    <3>3. /\ req.quantity = quantity[p] /\ req.reserved = reserved[p] /\ req.op = op
          /\ req.amount = n /\ req.product = p /\ req.pc = "loaded"
          /\ req.found <=> p \in listed
      OBVIOUS
    <3>4. session'[t] = req /\ listed' = listed
      BY <2>1, <1>1, <1>4
    <3> HIDE DEF req
    <3> QED BY <3>1, <3>2, <3>3, <3>4 DEF SnapshotOK
  <2>2. CASE t # s
    <3>1. SnapshotOK(t)
      BY DEF IInv, Snapshots
    <3>2. session'[t] = session[t] /\ listed' = listed
      BY <2>2, <1>1, <1>4
    <3> QED BY <3>1, <3>2 DEF SnapshotOK
  <2> QED BY <2>1, <2>2
<1>6. ASSUME NEW t \in Sessions, session'[t].pc = "flushed"
      PROVE  session'[t] = session[t] /\ t # s
  BY <1>4, <1>6
<1>7. ASSUME NEW t \in Sessions, session'[t].pc = "flushed"
      PROVE  /\ session'[t].product \notin listed
             /\ \A u \in Sessions \ {t} :
                   session'[u].pc = "flushed" => session'[u].product # session'[t].product
  BY <1>6, <1>7 DEF IInv, OneRowPerProduct
<1> QED BY <1>1, <1>3, <1>5, <1>7, QuietPreserves

LEMMA ClosePreserves ==
    ASSUME IInv, NEW s \in Sessions, Close(s)
    PROVE  IInv'
<1>1. /\ session' = [session EXCEPT ![s] = Idle]
      /\ UNCHANGED <<listed, quantity, reserved, movements, stale>>
  BY DEF Close
<1>2. session' \in [Sessions -> {Idle} \cup Requests]
  BY <1>1 DEF IInv, TypeOK
<1>3. session'[s] = Idle /\ \A t \in Sessions \ {s} : session'[t] = session[t]
  BY <1>1 DEF IInv, TypeOK
<1>4. ASSUME NEW t \in Sessions PROVE SnapshotOK(t)'
  <2>1. CASE t = s
    BY <2>1, <1>3 DEF SnapshotOK
  <2>2. CASE t # s
    <3>1. SnapshotOK(t)
      BY DEF IInv, Snapshots
    <3> QED BY <3>1, <2>2, <1>1, <1>3 DEF SnapshotOK
  <2> QED BY <2>1, <2>2
<1>5. ASSUME NEW t \in Sessions, session'[t].pc = "flushed"
      PROVE  session'[t] = session[t]
  BY <1>3, <1>5 DEF Idle
<1>6. ASSUME NEW t \in Sessions, session'[t].pc = "flushed"
      PROVE  /\ session'[t].product \notin listed
             /\ \A u \in Sessions \ {t} :
                   session'[u].pc = "flushed" => session'[u].product # session'[t].product
  BY <1>5, <1>6 DEF IInv, OneRowPerProduct
<1> QED BY <1>1, <1>2, <1>4, <1>6, QuietPreserves

LEMMA FlushPreserves ==
    ASSUME IInv, NEW s \in Sessions, FlushInsert(s)
    PROVE  IInv'
<1>1. /\ session' = [session EXCEPT ![s].pc = "flushed"]
      /\ UNCHANGED <<listed, quantity, reserved, movements, stale>>
      /\ session[s].pc = "loaded" /\ session[s].op = "adjust" /\ ~session[s].found
      /\ session[s].product \notin listed
      /\ \A t \in Sessions : session[t].pc = "flushed" => session[t].product # session[s].product
  BY DEF FlushInsert
<1>2. session[s] \in Requests
  BY <1>1 DEF IInv, TypeOK, Idle
<1>3. [session[s] EXCEPT !.pc = "flushed"] \in Requests
  BY <1>2 DEF Requests
<1>4. /\ session' \in [Sessions -> {Idle} \cup Requests]
      /\ session'[s] = [session[s] EXCEPT !.pc = "flushed"]
      /\ \A t \in Sessions \ {s} : session'[t] = session[t]
  BY <1>1, <1>3 DEF IInv, TypeOK
<1>5. /\ session'[s].op = session[s].op /\ session'[s].found = session[s].found
      /\ session'[s].product = session[s].product /\ session'[s].amount = session[s].amount
      /\ session'[s].quantity = session[s].quantity /\ session'[s].reserved = session[s].reserved
  BY <1>2, <1>4 DEF Requests
<1>6. ASSUME NEW t \in Sessions PROVE SnapshotOK(t)'
  <2>1. SnapshotOK(t)
    BY DEF IInv, Snapshots
  <2>2. CASE t = s
    BY <2>1, <2>2, <1>1, <1>5 DEF SnapshotOK, Idle
  <2>3. CASE t # s
    BY <2>1, <2>3, <1>1, <1>4 DEF SnapshotOK
  <2> QED BY <2>2, <2>3
<1>7. ASSUME NEW t \in Sessions, session'[t].pc = "flushed"
      PROVE  /\ session'[t].product \notin listed
             /\ \A u \in Sessions \ {t} :
                   session'[u].pc = "flushed" => session'[u].product # session'[t].product
  <2>1. CASE t = s
    BY <2>1, <1>1, <1>4, <1>5
  <2>2. CASE t # s
    BY <2>2, <1>1, <1>4, <1>5, <1>7 DEF IInv, OneRowPerProduct
  <2> QED BY <2>1, <2>2
<1> QED BY <1>1, <1>4, <1>6, <1>7, QuietPreserves

-----------------------------------------------------------------------------
(* The four commits keep the invariant.                                    *)

\* The values adjust_stock and the others write are integers.
LEMMA RequestTypes ==
    ASSUME NEW r \in Requests
    PROVE  /\ r.quantity \in Int /\ r.reserved \in Int /\ r.amount \in Int
           /\ r.product \in Products /\ r.op \in Operations /\ r.found \in BOOLEAN
BY DEF Requests

LEMMA AdjustPreserves ==
    ASSUME InventoryAssumption, IInv, NEW s \in Sessions, adjust_stock(s)
    PROVE  IInv'
<1> DEFINE req == session[s]
<1>1. /\ req.pc = "flushed" \/ (req.pc = "loaded" /\ req.found)
      /\ req.op = "adjust"
      /\ AdjustAllowed(req)
      /\ Write(s, req.quantity + req.amount, req.reserved, req.amount)
      /\ listed' = listed \cup {req.product}
  BY DEF adjust_stock
<1>2. req # Idle
  BY <1>1 DEF Idle
<1>3. req \in Requests
  BY <1>2, ActiveSession DEF IInv
<1>4. SnapshotOK(s)
  BY DEF IInv, Snapshots
<1>5. /\ req.quantity \in Int /\ req.reserved \in Int /\ req.amount \in Int
      /\ req.reserved >= 0
  BY <1>2, <1>3, <1>4, RequestTypes DEF SnapshotOK
<1>6. /\ req.quantity + req.amount >= req.reserved
      /\ req.quantity + req.amount >= 0
  BY <1>1 DEF AdjustAllowed
<1>7. ASSUME NEW t \in Sessions \ {s}, session[t].pc = "flushed"
      PROVE  session[t].product # session[s].product
  <2>1. CASE req.pc = "flushed"
    BY <2>1, <1>7 DEF IInv, OneRowPerProduct
  <2>2. CASE req.pc = "loaded" /\ req.found
    <3>1. req.product \in listed
      BY <2>2, <1>2, <1>4 DEF SnapshotOK
    <3>2. session[t].product \notin listed
      BY <1>7 DEF IInv, OneRowPerProduct
    <3> QED BY <3>1, <3>2
  <2> QED BY <1>1, <2>1, <2>2
<1> DEFINE q == req.quantity + req.amount
<1>8. q \in Int /\ q >= 0 /\ req.reserved <= q /\ Write(s, q, req.reserved, req.amount)
  BY <1>1, <1>5, <1>6
<1> HIDE DEF q
<1>9. /\ q = req.quantity + (IF req.op \in {"adjust", "commit"} THEN req.amount ELSE 0)
      /\ req.reserved = req.reserved + (IF req.op = "commit" THEN req.amount
                                        ELSE IF req.op = "adjust" THEN 0 ELSE -req.amount)
  BY <1>1, <1>5 DEF q
<1> QED BY <1>1, <1>3, <1>5, <1>7, <1>8, <1>9, WritePreserves

LEMMA ReservePreserves ==
    ASSUME InventoryAssumption, IInv, NEW s \in Sessions, reserve_stock(s)
    PROVE  IInv'
<1> DEFINE req == session[s]
<1>1. /\ req.pc = "loaded" /\ req.op = "reserve"
      /\ req.found /\ req.quantity - req.reserved >= req.amount
      /\ Write(s, req.quantity, req.reserved + req.amount, -req.amount)
      /\ listed' = listed
  BY DEF reserve_stock, ReserveAllowed
<1>2. req # Idle
  BY <1>1 DEF Idle
<1>3. req \in Requests
  BY <1>2, ActiveSession DEF IInv
<1>4. SnapshotOK(s)
  BY DEF IInv, Snapshots
<1>5. /\ req.quantity \in Int /\ req.reserved \in Int /\ req.amount \in Nat
      /\ req.quantity >= 0 /\ req.reserved >= 0 /\ req.product \in listed
  BY <1>1, <1>2, <1>3, <1>4, RequestTypes DEF SnapshotOK, InventoryAssumption
<1>7. ASSUME NEW t \in Sessions \ {s}, session[t].pc = "flushed"
      PROVE  session[t].product # session[s].product
  BY <1>5, <1>7 DEF IInv, OneRowPerProduct
<1> DEFINE r == req.reserved + req.amount
           d == -req.amount
<1>8. /\ r \in Int /\ d \in Int /\ r >= 0 /\ r <= req.quantity
      /\ Write(s, req.quantity, r, d)
      /\ listed' = listed \cup {req.product}
  BY <1>1, <1>5
<1>9. /\ req.quantity = req.quantity + (IF req.op \in {"adjust", "commit"} THEN d ELSE 0)
      /\ r = req.reserved + (IF req.op = "commit" THEN d ELSE IF req.op = "adjust" THEN 0 ELSE -d)
  BY <1>1, <1>5
<1> HIDE DEF r, d
<1> QED BY <1>3, <1>5, <1>7, <1>8, <1>9, WritePreserves

LEMMA ReleasePreserves ==
    ASSUME InventoryAssumption, IInv, NEW s \in Sessions, release_stock(s)
    PROVE  IInv'
<1> DEFINE req == session[s]
<1>1. /\ req.pc = "loaded" /\ req.op = "release"
      /\ req.found /\ req.reserved >= req.amount
      /\ Write(s, req.quantity, req.reserved - req.amount, req.amount)
      /\ listed' = listed
  BY DEF release_stock, ReleaseAllowed
<1>2. req # Idle
  BY <1>1 DEF Idle
<1>3. req \in Requests
  BY <1>2, ActiveSession DEF IInv
<1>4. SnapshotOK(s)
  BY DEF IInv, Snapshots
<1>5. /\ req.quantity \in Int /\ req.reserved \in Int /\ req.amount \in Nat
      /\ req.quantity >= 0 /\ req.product \in listed /\ req.product \in Products
  BY <1>1, <1>2, <1>3, <1>4, RequestTypes DEF SnapshotOK, InventoryAssumption
<1>6. Fresh(s) /\ req.product \notin stale => req.reserved <= req.quantity
  BY <1>5 DEF Fresh, IInv, ReservedWithinStock
<1>7. ASSUME NEW t \in Sessions \ {s}, session[t].pc = "flushed"
      PROVE  session[t].product # session[s].product
  BY <1>5, <1>7 DEF IInv, OneRowPerProduct
<1> DEFINE r == req.reserved - req.amount
           d == req.amount
<1>8. /\ r \in Int /\ d \in Int /\ r >= 0
      /\ Fresh(s) /\ req.product \notin stale => r <= req.quantity
      /\ Write(s, req.quantity, r, d)
      /\ listed' = listed \cup {req.product}
  BY <1>1, <1>5, <1>6
<1>9. /\ req.quantity = req.quantity + (IF req.op \in {"adjust", "commit"} THEN d ELSE 0)
      /\ r = req.reserved + (IF req.op = "commit" THEN d ELSE IF req.op = "adjust" THEN 0 ELSE -d)
  BY <1>1, <1>5
<1> HIDE DEF r, d
<1> QED BY <1>3, <1>5, <1>7, <1>8, <1>9, WritePreserves

LEMMA CommitPreserves ==
    ASSUME InventoryAssumption, IInv, NEW s \in Sessions, commit_stock(s)
    PROVE  IInv'
<1> DEFINE req == session[s]
<1>1. /\ req.pc = "loaded" /\ req.op = "commit"
      /\ req.found /\ req.reserved >= req.amount /\ req.quantity >= req.amount
      /\ Write(s, req.quantity - req.amount, req.reserved - req.amount, -req.amount)
      /\ listed' = listed
  BY DEF commit_stock, CommitAllowed
<1>2. req # Idle
  BY <1>1 DEF Idle
<1>3. req \in Requests
  BY <1>2, ActiveSession DEF IInv
<1>4. SnapshotOK(s)
  BY DEF IInv, Snapshots
<1>5. /\ req.quantity \in Int /\ req.reserved \in Int /\ req.amount \in Nat
      /\ req.product \in listed /\ req.product \in Products
  BY <1>1, <1>2, <1>3, <1>4, RequestTypes DEF SnapshotOK, InventoryAssumption
<1>6. Fresh(s) /\ req.product \notin stale => req.reserved <= req.quantity
  BY <1>5 DEF Fresh, IInv, ReservedWithinStock
<1>7. ASSUME NEW t \in Sessions \ {s}, session[t].pc = "flushed"
      PROVE  session[t].product # session[s].product
  BY <1>5, <1>7 DEF IInv, OneRowPerProduct
<1> DEFINE q == req.quantity - req.amount
           r == req.reserved - req.amount
           d == -req.amount
<1>8. /\ q \in Int /\ r \in Int /\ d \in Int /\ q >= 0 /\ r >= 0
      /\ Fresh(s) /\ req.product \notin stale => r <= q
      /\ Write(s, q, r, d)
      /\ listed' = listed \cup {req.product}
  BY <1>1, <1>5, <1>6
<1>9. /\ q = req.quantity + (IF req.op \in {"adjust", "commit"} THEN d ELSE 0)
      /\ r = req.reserved + (IF req.op = "commit" THEN d ELSE IF req.op = "adjust" THEN 0 ELSE -d)
  BY <1>1, <1>5
<1> HIDE DEF q, r, d
<1> QED BY <1>3, <1>7, <1>8, <1>9, WritePreserves

-----------------------------------------------------------------------------
(* The theorems.                                                           *)

LEMMA InitEstablishes == ASSUME InventoryAssumption, Init PROVE IInv
<1>1. Operations = {"adjust", "reserve", "release", "commit"}
  BY DEF Operations, Ledger!Operations
<1>2. TypeOK
  BY DEF Init, TypeOK, InventoryAssumption
<1>3. Snapshots /\ StaleAreListed
  BY DEF Init, Snapshots, SnapshotOK, StaleAreListed
<1>4. OneRowPerProduct
  BY DEF Init, OneRowPerProduct, Idle
<1>5. NonNegative /\ ReservedWithinStock
  BY DEF Init, NonNegative, ReservedWithinStock, InventoryAssumption
<1>6. LogExplainsRow
  <2> SUFFICES ASSUME NEW p \in Products
      PROVE  /\ quantity[p] = (IF p \in SeededProducts THEN SeedQuantity[p] ELSE 0)
                                 + movements[p]["adjust"] + movements[p]["commit"]
             /\ reserved[p] = movements[p]["commit"] - movements[p]["reserve"]
                                 - movements[p]["release"]
    BY DEF LogExplainsRow
  <2>1. \A op \in Operations : movements[p][op] = 0
    BY DEF Init
  <2>2. /\ quantity[p] = IF p \in SeededProducts THEN SeedQuantity[p] ELSE 0
        /\ quantity[p] \in Int /\ reserved[p] = 0
    BY DEF Init, InventoryAssumption
  <2> QED BY <1>1, <2>1, <2>2
<1> QED BY <1>2, <1>3, <1>4, <1>5, <1>6 DEF IInv

LEMMA StepPreserves == ASSUME InventoryAssumption, IInv, [Next]_vars PROVE IInv'
<1>1. CASE UNCHANGED vars
  <2>1. UNCHANGED <<listed, quantity, reserved, movements, session, stale>>
    BY <1>1 DEF vars
  <2> QED BY <2>1 DEF IInv, TypeOK, NonNegative, Snapshots, SnapshotOK, StaleAreListed,
                      OneRowPerProduct, LogExplainsRow, ReservedWithinStock
<1>2. ASSUME NEW s \in Sessions, NEW p \in Products, NEW d \in Deltas, Load(s, "adjust", p, d)
      PROVE  IInv'
  <2>1. "adjust" \in Operations /\ d \in Int
    BY DEF Operations, Ledger!Operations, InventoryAssumption
  <2> QED BY <1>2, <2>1, LoadPreserves
<1>3. ASSUME NEW s \in Sessions, NEW p \in Products, NEW op \in {"reserve", "release", "commit"},
             NEW n \in Amounts, Load(s, op, p, n)
      PROVE  IInv'
  <2>1. op \in Operations /\ op # "adjust" /\ n \in Int
    BY DEF Operations, Ledger!Operations, InventoryAssumption
  <2> QED BY <1>3, <2>1, LoadPreserves
<1>4. ASSUME NEW s \in Sessions, FlushInsert(s) PROVE IInv'
  BY <1>4, FlushPreserves
<1>5. ASSUME NEW s \in Sessions, adjust_stock(s) PROVE IInv'
  BY <1>5, AdjustPreserves
<1>6. ASSUME NEW s \in Sessions, reserve_stock(s) PROVE IInv'
  BY <1>6, ReservePreserves
<1>7. ASSUME NEW s \in Sessions, release_stock(s) PROVE IInv'
  BY <1>7, ReleasePreserves
<1>8. ASSUME NEW s \in Sessions, commit_stock(s) PROVE IInv'
  BY <1>8, CommitPreserves
<1>9. ASSUME NEW s \in Sessions, Refuse(s) \/ Abort(s) PROVE IInv'
  BY <1>9, ClosePreserves DEF Refuse, Abort
<1> QED BY <1>1, <1>2, <1>3, <1>4, <1>5, <1>6, <1>7, <1>8, <1>9 DEF Next

\* IInv holds in every reachable state.
THEOREM Inductive == Spec => []IInv
<1>1. Init => IInv
  BY InitEstablishes, InventoryAssumption
<1>2. IInv /\ [Next]_vars => IInv'
  BY StepPreserves, InventoryAssumption
<1> QED BY <1>1, <1>2, PTL DEF Spec

\* The variables keep their types.
THEOREM TypeCorrect == Spec => []TypeOK
<1>1. IInv => TypeOK
  BY DEF IInv
<1> QED BY <1>1, Inductive, PTL

\* No interleaving of adjust_stock, reserve_stock, release_stock and
\* commit_stock, lost updates included, makes a column negative.
THEOREM ColumnsNonNegative == Spec => []NonNegative
<1>1. IInv => NonNegative
  BY DEF IInv
<1> QED BY <1>1, Inductive, PTL

\* While every commit to a product has used its row as it stood, its columns are
\* what the movement log says.
THEOREM FreshLogIsExact == Spec => []LogExplainsRow
<1>1. IInv => LogExplainsRow
  BY DEF IInv
<1> QED BY <1>1, Inductive, PTL

\* Such a product never has more reserved than there is in stock.
THEOREM FreshStockCoversReserved == Spec => []ReservedWithinStock
<1>1. IInv => ReservedWithinStock
  BY DEF IInv
<1> QED BY <1>1, Inductive, PTL

\* adjust_stock never creates a second row of a product.
THEOREM RowsAreUnique == Spec => []OneRowPerProduct
<1>1. IInv => OneRowPerProduct
  BY DEF IInv
<1> QED BY <1>1, Inductive, PTL

-----------------------------------------------------------------------------
(* Steps on a fresh product are steps of the ledger.                       *)

\* A commit either leaves its product stale or applies the operation to the row
\* as it stands.
LEMMA FreshWrite ==
    ASSUME InventoryAssumption, IInv, NEW s \in Sessions, session[s] \in Requests,
           NEW q \in Int, NEW r \in Int, NEW d \in Int, Write(s, q, r, d),
           session[s].product \notin stale'
    PROVE  LET p == session[s].product
           IN  /\ session[s].quantity = quantity[p] /\ session[s].reserved = reserved[p]
               /\ quantity' = [quantity EXCEPT ![p] = q]
               /\ reserved' = [reserved EXCEPT ![p] = r]
               /\ Ledger!Log(p, session[s].op, d)
               /\ p \in Products /\ quantity[p] \in Int /\ reserved[p] \in Int
<1> DEFINE p == session[s].product
<1>1. TypeOK
  BY DEF IInv
<1>2. /\ quantity' = [quantity EXCEPT ![p] = IF q = session[s].quantity THEN @ ELSE q]
      /\ reserved' = [reserved EXCEPT ![p] = IF r = session[s].reserved THEN @ ELSE r]
      /\ stale' = IF Fresh(s) THEN stale ELSE stale \cup {p}
  BY DEF Write
<1>3. Ledger!Log(p, session[s].op, d)
  BY DEF Write, Ledger!Log
<1>4. p \in Products
  BY DEF Requests
<1>5. session[s].quantity = quantity[p] /\ session[s].reserved = reserved[p]
  <2>1. Fresh(s)
    BY <1>2
  <2> QED BY <2>1 DEF Fresh
<1> HIDE DEF p
<1>6. /\ quantity' = [quantity EXCEPT ![p] = q]
      /\ reserved' = [reserved EXCEPT ![p] = r]
  BY <1>2, <1>5
<1> QED BY <1>1, <1>3, <1>4, <1>5, <1>6 DEF TypeOK, p

\* A commit that leaves its product stale and logs a movement is seen in the log.
LEMMA StaleWrite ==
    ASSUME InventoryAssumption, IInv, NEW s \in Sessions, session[s] \in Requests,
           NEW q \in Int, NEW r \in Int, NEW d \in Int, Write(s, q, r, d),
           movements'[session[s].product] = movements[session[s].product]
    PROVE  d = 0
<1> DEFINE p == session[s].product
           op == session[s].op
<1>1. TypeOK
  BY DEF IInv
<1>2. p \in Products /\ op \in Operations
  BY DEF Requests
<1>3. movements'[p] = [movements[p] EXCEPT ![op] = @ + d]
  BY <1>1, WriteEffect
<1>4. movements[p][op] \in Int /\ movements[p] \in [Operations -> Int]
  BY <1>1, <1>2 DEF TypeOK
<1> HIDE DEF p, op
<1>5. movements[p][op] = movements[p][op] + d
  BY <1>2, <1>3, <1>4 DEF p
<1> QED BY <1>4, <1>5

LEMMA AtomicAdjust ==
    ASSUME InventoryAssumption, IInv, NEW s \in Sessions, adjust_stock(s),
           \A x \in stale' : movements'[x] = movements[x]
    PROVE  Ledger!Next \/ UNCHANGED ledgerVars
<1> DEFINE req == session[s]
           p == req.product
           d == req.amount
           q == req.quantity + d
<1>1. /\ req.pc = "flushed" \/ (req.pc = "loaded" /\ req.found)
      /\ req.op = "adjust" /\ AdjustAllowed(req)
      /\ Write(s, q, req.reserved, d)
      /\ listed' = listed \cup {p}
  BY DEF adjust_stock
<1>2. req # Idle
  BY <1>1 DEF Idle
<1>3. req \in Requests
  BY <1>2, ActiveSession DEF IInv
<1>4. /\ SnapshotOK(s)
      /\ req.quantity \in Int /\ req.reserved \in Int /\ d \in Int /\ q \in Int /\ p \in Products
  BY <1>3, RequestTypes DEF IInv, Snapshots
<1>5. CASE p \notin stale'
  <2>1. /\ req.quantity = quantity[p] /\ req.reserved = reserved[p]
        /\ quantity' = [quantity EXCEPT ![p] = q]
        /\ reserved' = [reserved EXCEPT ![p] = req.reserved]
        /\ Ledger!Log(p, "adjust", d)
        /\ quantity[p] \in Int /\ reserved[p] \in Int
    BY <1>1, <1>3, <1>4, <1>5, FreshWrite
  <2>2. quantity \in [Products -> Int] /\ reserved \in [Products -> Int]
    BY DEF IInv, TypeOK
  <2>3. quantity' = [quantity EXCEPT ![p] = @ + d] /\ reserved' = reserved
    BY <2>1, <2>2, <1>4
  <2>4. quantity[p] + d >= reserved[p] /\ quantity[p] + d >= 0
    BY <1>1, <2>1 DEF AdjustAllowed
  <2>5. d \in Deltas
    BY <1>1, <1>2, <1>4 DEF SnapshotOK
  <2> HIDE DEF p, d
  <2>6. Ledger!Adjust(p, d)
    BY <2>1, <2>3, <2>4, <1>1 DEF Ledger!Adjust
  <2> QED BY <1>4, <2>5, <2>6 DEF Ledger!Next
<1>6. CASE p \in stale'
  <2>1. d = 0
    BY <1>1, <1>3, <1>4, <1>6, StaleWrite
  <2>2. quantity \in [Products -> Int] /\ reserved \in [Products -> Int] /\ stale \subseteq Products
        /\ movements \in [Products -> [Operations -> Int]]
    BY DEF IInv, TypeOK
  <2>3. quantity' = quantity /\ reserved' = reserved
    BY <2>1, <2>2, <1>1, <1>4 DEF Write
  <2>4. movements' = movements
    <3>1. req.op \in Operations
      BY <1>3 DEF Requests
    <3>2. movements' = [movements EXCEPT ![p][req.op] = @ + 0]
      BY <1>1, <1>4, <2>1 DEF Write
    <3> HIDE DEF p, req
    <3>3. QED
      BY <1>1, <2>2, <3>1, <3>2
  <2>5. p \in listed
    <3>1. CASE req.found
      BY <3>1, <1>2, <1>4 DEF SnapshotOK
    <3>2. CASE ~req.found
      <4>1. req.quantity = 0 /\ req.reserved = 0 /\ req.pc = "flushed"
        BY <3>2, <1>1, <1>2, <1>4 DEF SnapshotOK
      <4>2. p \notin listed
        BY <4>1 DEF IInv, OneRowPerProduct
      <4>3. quantity[p] = 0 /\ reserved[p] = 0
        BY <4>2, <1>4 DEF IInv, OneRowPerProduct
      <4>4. Fresh(s)
        BY <4>1, <4>3 DEF Fresh
      <4>5. stale' = stale
        BY <4>4, <1>1 DEF Write
      <4> QED BY <4>2, <4>5, <1>6 DEF IInv, StaleAreListed
    <3> QED BY <3>1, <3>2, <1>3, RequestTypes
  <2> QED BY <2>3, <2>4, <2>5, <1>1 DEF ledgerVars
<1> QED BY <1>5, <1>6

LEMMA AtomicReserve ==
    ASSUME InventoryAssumption, IInv, NEW s \in Sessions, reserve_stock(s),
           \A x \in stale' : movements'[x] = movements[x]
    PROVE  Ledger!Next
<1> DEFINE req == session[s]
           p == req.product
           n == req.amount
           r == req.reserved + n
           d == -n
<1>1. /\ req.pc = "loaded" /\ req.op = "reserve"
      /\ req.found /\ req.quantity - req.reserved >= n
      /\ Write(s, req.quantity, r, d)
      /\ listed' = listed
  BY DEF reserve_stock, ReserveAllowed
<1>2. req # Idle
  BY <1>1 DEF Idle
<1>3. req \in Requests
  BY <1>2, ActiveSession DEF IInv
<1>4. /\ req.quantity \in Int /\ req.reserved \in Int /\ n \in Amounts /\ n \in Nat /\ n # 0
      /\ r \in Int /\ d \in Int /\ d # 0 /\ p \in Products /\ p \in listed
  BY <1>1, <1>2, <1>3, RequestTypes DEF IInv, Snapshots, SnapshotOK, InventoryAssumption
<1>5. p \notin stale'
  BY <1>1, <1>3, <1>4, StaleWrite
<1>6. /\ req.quantity = quantity[p] /\ req.reserved = reserved[p]
      /\ quantity' = [quantity EXCEPT ![p] = req.quantity]
      /\ reserved' = [reserved EXCEPT ![p] = r]
      /\ Ledger!Log(p, "reserve", d)
      /\ quantity[p] \in Int /\ reserved[p] \in Int
  BY <1>1, <1>3, <1>4, <1>5, FreshWrite
<1>7. quantity \in [Products -> Int] /\ reserved \in [Products -> Int]
  BY DEF IInv, TypeOK
<1>8. quantity' = quantity /\ reserved' = [reserved EXCEPT ![p] = @ + n]
  BY <1>4, <1>6, <1>7
<1>9. quantity[p] - reserved[p] >= n
  BY <1>1, <1>6
<1> HIDE DEF p, n
<1>10. Ledger!Reserve(p, n)
  BY <1>1, <1>4, <1>6, <1>8, <1>9 DEF Ledger!Reserve, Ledger!CanReserve
<1> QED BY <1>4, <1>10 DEF Ledger!Next

LEMMA AtomicRelease ==
    ASSUME InventoryAssumption, IInv, NEW s \in Sessions, release_stock(s),
           \A x \in stale' : movements'[x] = movements[x]
    PROVE  Ledger!Next
<1> DEFINE req == session[s]
           p == req.product
           n == req.amount
           r == req.reserved - n
<1>1. /\ req.pc = "loaded" /\ req.op = "release"
      /\ req.found /\ req.reserved >= n
      /\ Write(s, req.quantity, r, n)
      /\ listed' = listed
  BY DEF release_stock, ReleaseAllowed
<1>2. req # Idle
  BY <1>1 DEF Idle
<1>3. req \in Requests
  BY <1>2, ActiveSession DEF IInv
<1>4. /\ req.quantity \in Int /\ req.reserved \in Int /\ n \in Amounts /\ n \in Nat /\ n # 0
      /\ r \in Int /\ p \in Products /\ p \in listed
  BY <1>1, <1>2, <1>3, RequestTypes DEF IInv, Snapshots, SnapshotOK, InventoryAssumption
<1>5. p \notin stale'
  BY <1>1, <1>3, <1>4, StaleWrite
<1>6. /\ req.quantity = quantity[p] /\ req.reserved = reserved[p]
      /\ quantity' = [quantity EXCEPT ![p] = req.quantity]
      /\ reserved' = [reserved EXCEPT ![p] = r]
      /\ Ledger!Log(p, "release", n)
      /\ quantity[p] \in Int /\ reserved[p] \in Int
  BY <1>1, <1>3, <1>4, <1>5, FreshWrite
<1>7. quantity \in [Products -> Int] /\ reserved \in [Products -> Int]
  BY DEF IInv, TypeOK
<1>8. quantity' = quantity /\ reserved' = [reserved EXCEPT ![p] = @ - n]
  BY <1>4, <1>6, <1>7
<1>9. reserved[p] >= n
  BY <1>1, <1>6
<1> HIDE DEF p, n
<1>10. Ledger!Release(p, n)
  BY <1>1, <1>4, <1>6, <1>8, <1>9 DEF Ledger!Release, Ledger!CanRelease
<1> QED BY <1>4, <1>10 DEF Ledger!Next

LEMMA AtomicCommit ==
    ASSUME InventoryAssumption, IInv, NEW s \in Sessions, commit_stock(s),
           \A x \in stale' : movements'[x] = movements[x]
    PROVE  Ledger!Next
<1> DEFINE req == session[s]
           p == req.product
           n == req.amount
           q == req.quantity - n
           r == req.reserved - n
           d == -n
<1>1. /\ req.pc = "loaded" /\ req.op = "commit"
      /\ req.found /\ req.reserved >= n /\ req.quantity >= n
      /\ Write(s, q, r, d)
      /\ listed' = listed
  BY DEF commit_stock, CommitAllowed
<1>2. req # Idle
  BY <1>1 DEF Idle
<1>3. req \in Requests
  BY <1>2, ActiveSession DEF IInv
<1>4. /\ req.quantity \in Int /\ req.reserved \in Int /\ n \in Amounts /\ n \in Nat /\ n # 0
      /\ q \in Int /\ r \in Int /\ d \in Int /\ d # 0 /\ p \in Products /\ p \in listed
  BY <1>1, <1>2, <1>3, RequestTypes DEF IInv, Snapshots, SnapshotOK, InventoryAssumption
<1>5. p \notin stale'
  BY <1>1, <1>3, <1>4, StaleWrite
<1>6. /\ req.quantity = quantity[p] /\ req.reserved = reserved[p]
      /\ quantity' = [quantity EXCEPT ![p] = q]
      /\ reserved' = [reserved EXCEPT ![p] = r]
      /\ Ledger!Log(p, "commit", d)
      /\ quantity[p] \in Int /\ reserved[p] \in Int
  BY <1>1, <1>3, <1>4, <1>5, FreshWrite
<1>7. quantity \in [Products -> Int] /\ reserved \in [Products -> Int]
  BY DEF IInv, TypeOK
<1>8. quantity' = [quantity EXCEPT ![p] = @ - n] /\ reserved' = [reserved EXCEPT ![p] = @ - n]
  BY <1>4, <1>6, <1>7
<1>9. reserved[p] >= n /\ quantity[p] >= n
  BY <1>1, <1>6
<1> HIDE DEF p, n
<1>10. Ledger!Commit(p, n)
  BY <1>1, <1>4, <1>6, <1>8, <1>9 DEF Ledger!Commit, Ledger!CanCommit
<1> QED BY <1>4, <1>10 DEF Ledger!Next

LEMMA AtomicStep ==
    ASSUME InventoryAssumption, IInv, [Next]_vars,
           \A x \in stale' : movements'[x] = movements[x]
    PROVE  Ledger!Next \/ UNCHANGED ledgerVars
<1>1. CASE UNCHANGED vars
  BY <1>1 DEF vars, ledgerVars
<1>2. ASSUME NEW s \in Sessions, NEW p \in Products, NEW op, NEW n, Load(s, op, p, n)
      PROVE  UNCHANGED ledgerVars
  BY <1>2 DEF Load, ledgerVars
<1>3. ASSUME NEW s \in Sessions, FlushInsert(s) \/ Refuse(s) \/ Abort(s)
      PROVE  UNCHANGED ledgerVars
  BY <1>3 DEF FlushInsert, Refuse, Abort, Close, ledgerVars
<1>4. ASSUME NEW s \in Sessions,
             adjust_stock(s) \/ reserve_stock(s) \/ release_stock(s) \/ commit_stock(s)
      PROVE  Ledger!Next \/ UNCHANGED ledgerVars
  BY <1>4, AtomicAdjust, AtomicReserve, AtomicRelease, AtomicCommit
<1> QED BY <1>1, <1>2, <1>3, <1>4 DEF Next

\* Every commit to a product that stays fresh is one operation of the ledger,
\* for any number of sessions.
THEOREM FreshCommitsAreAtomic == Spec => FreshStepsAreAtomic
<1>1. IInv /\ [Next]_vars =>
        [(\A p \in stale' : movements'[p] = movements[p]) => Ledger!Next \/ UNCHANGED ledgerVars]_vars
  BY AtomicStep, InventoryAssumption
<1> QED BY <1>1, Inductive, PTL DEF Spec, FreshStepsAreAtomic

-----------------------------------------------------------------------------
(* One session at a time.                                                  *)

\* What a single session has read is what is there, and nothing was ever lost.
SerialInv ==
    /\ stale = {}
    /\ \A s \in Sessions : session[s] # Idle => Fresh(s)

LEMMA SerialStep ==
    ASSUME InventoryAssumption, \A s, t \in Sessions : s = t,
           IInv, SerialInv, [Next]_vars
    PROVE  SerialInv'
<1>t. TypeOK
  BY DEF IInv
<1>1. CASE UNCHANGED vars
  BY <1>1 DEF vars, SerialInv, Fresh
<1>2. ASSUME NEW s \in Sessions, NEW p \in Products, NEW op, NEW n, Load(s, op, p, n)
      PROVE  SerialInv'
  <2>1. /\ session'[s].product = p
        /\ session'[s].quantity = quantity[p] /\ session'[s].reserved = reserved[p]
    BY <1>2, <1>t DEF Load, TypeOK
  <2>2. quantity' = quantity /\ reserved' = reserved /\ stale' = stale
    BY <1>2 DEF Load
  <2> QED BY <2>1, <2>2 DEF SerialInv, Fresh
<1>3. ASSUME NEW s \in Sessions, FlushInsert(s) PROVE SerialInv'
  <2>1. /\ session[s].pc = "loaded" /\ session' = [session EXCEPT ![s].pc = "flushed"]
        /\ quantity' = quantity /\ reserved' = reserved /\ stale' = stale
    BY <1>3 DEF FlushInsert
  <2>2. session[s] # Idle
    BY <2>1 DEF Idle
  <2>3. session[s] \in Requests /\ Fresh(s)
    BY <2>2, <1>t, ActiveSession DEF SerialInv
  <2>4. /\ session'[s].product = session[s].product
        /\ session'[s].quantity = session[s].quantity
        /\ session'[s].reserved = session[s].reserved
    BY <2>1, <2>3, <1>t DEF TypeOK, Requests
  <2> QED BY <2>1, <2>3, <2>4 DEF SerialInv, Fresh
<1>4. ASSUME NEW s \in Sessions, Refuse(s) \/ Abort(s) PROVE SerialInv'
  <2>1. session'[s] = Idle /\ stale' = stale
    BY <1>4, <1>t DEF Refuse, Abort, Close, TypeOK
  <2> QED BY <2>1 DEF SerialInv
<1>5. ASSUME NEW s \in Sessions, NEW q, NEW r, NEW d, session[s] # Idle, Write(s, q, r, d)
      PROVE  SerialInv'
  <2>1. Fresh(s)
    BY <1>5 DEF SerialInv
  <2>2. session'[s] = Idle /\ stale' = stale
    BY <1>5, <2>1, <1>t DEF Write, TypeOK
  <2> QED BY <2>2 DEF SerialInv
<1>6. ASSUME NEW s \in Sessions,
             adjust_stock(s) \/ reserve_stock(s) \/ release_stock(s) \/ commit_stock(s)
      PROVE  SerialInv'
  <2>1. session[s].pc \in {"loaded", "flushed"}
    BY <1>6 DEF adjust_stock, reserve_stock, release_stock, commit_stock
  <2>2. session[s] # Idle
    BY <2>1 DEF Idle
  <2> QED BY <2>2, <1>5, <1>6 DEF adjust_stock, reserve_stock, release_stock, commit_stock
<1> QED BY <1>1, <1>2, <1>3, <1>4, <1>6 DEF Next

\* One worker thread at a time, the service is the ledger: every step is one of
\* the four atomic operations or leaves the tables alone.
THEOREM SerialRefinement ==
    ASSUME \A s, t \in Sessions : s = t
    PROVE  Spec => ImplementsLedger
<1>1. Init => SerialInv
  BY DEF Init, SerialInv
<1>2. IInv /\ SerialInv /\ [Next]_vars => SerialInv'
  BY SerialStep, InventoryAssumption
<1>3. Spec => []SerialInv
  BY <1>1, <1>2, Inductive, PTL DEF Spec
<1>4. Init => Ledger!Init
  BY DEF Init, Ledger!Init, Operations
<1>5. IInv /\ SerialInv' /\ [Next]_vars => [Ledger!Next]_ledgerVars
  BY AtomicStep, InventoryAssumption DEF SerialInv
<1>6. IInv /\ SerialInv' /\ [Next]_vars => [Ledger!Next]_(Ledger!ledgerVars)
  BY <1>5 DEF ledgerVars, Ledger!ledgerVars
<1> QED BY <1>3, <1>4, <1>6, Inductive, PTL DEF Spec, ImplementsLedger, Ledger!Spec
=============================================================================
