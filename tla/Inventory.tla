------------------------------ MODULE Inventory ------------------------------
(***************************************************************************)
(* The inventory service, services/inventory/app/main.py, as its workers   *)
(* run it: every request is a `def` handler in a thread pool of one of     *)
(* several processes, with a database session of its own on PostgreSQL at  *)
(* READ COMMITTED.  A handler SELECTs the row, decides on that snapshot,   *)
(* and its commit sends one UPDATE with absolute values for the columns    *)
(* that differ from the snapshot.  Anything may happen to the row between  *)
(* the SELECT and the UPDATE: there is no FOR UPDATE and no version column.*)
(***************************************************************************)
EXTENDS Integers

CONSTANTS
    Products,        \* product ids
    SeededProducts,  \* the products the start-up seed has inserted
    SeedQuantity,    \* the quantity the seed gives to each of them
    Sessions,        \* database sessions, one per request being handled
    Amounts,         \* quantities a reserve, release or commit may ask for
    Deltas,          \* deltas an adjust may ask for
    MaxStock,        \* bound: no column grows beyond this
    MaxMoved         \* bound: no operation's net movement goes beyond +/- this

ASSUME InventoryAssumption ==
    /\ SeededProducts \subseteq Products
    /\ SeedQuantity \in [Products -> Nat]
    /\ Amounts \subseteq Nat \ {0}
    /\ Deltas \subseteq Int
    /\ MaxStock \in Nat
    /\ MaxMoved \in Nat

VARIABLES
    listed,     \* products with a committed row in the inventory table
    quantity,   \* column quantity of the committed rows, 0 without a row
    reserved,   \* column reserved of the committed rows, 0 without a row
    movements,  \* for each product, the net delta logged by each operation
    session,    \* the request each session is handling
    stale       \* history: products some commit has written from an old snapshot

ledgerVars == <<listed, quantity, reserved, movements>>
vars == <<listed, quantity, reserved, movements, session, stale>>

Ledger == INSTANCE InventoryLedger WITH
    listed <- listed, quantity <- quantity, reserved <- reserved, movements <- movements

-----------------------------------------------------------------------------
(* Sessions.  A request is "loaded" once its SELECT has run and "flushed"  *)
(* once adjust_stock has sent the INSERT of a missing row.                 *)

Operations == Ledger!Operations

Idle == [pc |-> "idle"]

Requests ==
    [pc : {"loaded", "flushed"}, op : Operations, product : Products, amount : Int,
     found : BOOLEAN, quantity : Int, reserved : Int]

TypeOK ==
    /\ listed \subseteq Products
    /\ quantity \in [Products -> Int]
    /\ reserved \in [Products -> Int]
    /\ movements \in [Products -> [Operations -> Int]]
    /\ session \in [Sessions -> {Idle} \cup Requests]
    /\ stale \subseteq Products

Init ==
    /\ listed = SeededProducts
    /\ quantity = [p \in Products |-> IF p \in SeededProducts THEN SeedQuantity[p] ELSE 0]
    /\ reserved = [p \in Products |-> 0]
    /\ movements = [p \in Products |-> [op \in Operations |-> 0]]
    /\ session = [s \in Sessions |-> Idle]
    /\ stale = {}

\* The row s has read is the committed row: nothing was lost in between.
Fresh(s) ==
    /\ session[s].quantity = quantity[session[s].product]
    /\ session[s].reserved = reserved[session[s].product]

-----------------------------------------------------------------------------
(* What each handler demands of the row r it has read.                     *)

\* Fault: the reserved check of adjust_stock is forgotten.
AdjustBelowReserved(r) == r.quantity + r.amount >= 0

AdjustAllowed(r) ==
    /\ r.quantity + r.amount >= r.reserved
    /\ r.quantity + r.amount >= 0

\* Fault: reserve_stock looks at the quantity instead of what is available.
ReserveIgnoringReserved(r) == r.found /\ r.quantity >= r.amount

ReserveAllowed(r) == r.found /\ r.quantity - r.reserved >= r.amount

\* Fault: release_stock trusts its caller.
ReleaseUnchecked(r) == r.found

ReleaseAllowed(r) == r.found /\ r.reserved >= r.amount

CommitAllowed(r) == r.found /\ r.reserved >= r.amount /\ r.quantity >= r.amount

Allowed(r) ==
    \/ r.op = "adjust"  /\ AdjustAllowed(r)
    \/ r.op = "reserve" /\ ReserveAllowed(r)
    \/ r.op = "release" /\ ReleaseAllowed(r)
    \/ r.op = "commit"  /\ CommitAllowed(r)

-----------------------------------------------------------------------------
(* The steps of a request.                                                 *)

\* The SELECT of the handler: a request for op on p reads the committed row.
Load(s, op, p, n) ==
    /\ session[s] = Idle
    /\ session' = [session EXCEPT ![s] =
           [pc |-> "loaded", op |-> op, product |-> p, amount |-> n,
            found |-> p \in listed, quantity |-> quantity[p], reserved |-> reserved[p]]]
    /\ UNCHANGED <<listed, quantity, reserved, movements, stale>>

\* Fault: product_id has no unique index.
FlushWithoutIndex(s) ==
    /\ session[s].pc = "loaded"
    /\ session[s].op = "adjust"
    /\ ~session[s].found
    /\ session' = [session EXCEPT ![s].pc = "flushed"]
    /\ UNCHANGED <<listed, quantity, reserved, movements, stale>>

\* db.flush() of the row adjust_stock creates.  The unique index on product_id
\* makes it wait while another transaction holds an uncommitted row of p; once
\* that row is committed the INSERT fails, see Abort.
FlushInsert(s) ==
    /\ session[s].pc = "loaded"
    /\ session[s].op = "adjust"
    /\ ~session[s].found
    /\ session[s].product \notin listed
    /\ \A t \in Sessions : session[t].pc = "flushed" => session[t].product # session[s].product
    /\ session' = [session EXCEPT ![s].pc = "flushed"]
    /\ UNCHANGED <<listed, quantity, reserved, movements, stale>>

\* db.commit(): the UPDATE carries the columns that differ from the snapshot,
\* with absolute values, and the movement row goes in the same transaction.
Write(s, q, r, delta) ==
    LET req == session[s]
        p == req.product
    IN  /\ q <= MaxStock
        /\ r <= MaxStock
        /\ movements[p][req.op] + delta \in (-MaxMoved) .. MaxMoved
        /\ quantity' = [quantity EXCEPT ![p] = IF q = req.quantity THEN @ ELSE q]
        /\ reserved' = [reserved EXCEPT ![p] = IF r = req.reserved THEN @ ELSE r]
        /\ movements' = [movements EXCEPT ![p][req.op] = @ + delta]
        /\ stale' = IF Fresh(s) THEN stale ELSE stale \cup {p}
        /\ session' = [session EXCEPT ![s] = Idle]

adjust_stock(s) ==
    LET req == session[s]
    IN  /\ req.pc = "flushed" \/ (req.pc = "loaded" /\ req.found)
        /\ req.op = "adjust"
        /\ AdjustAllowed(req)
        /\ Write(s, req.quantity + req.amount, req.reserved, req.amount)
        /\ listed' = listed \cup {req.product}

reserve_stock(s) ==
    LET req == session[s]
    IN  /\ req.pc = "loaded"
        /\ req.op = "reserve"
        /\ ReserveAllowed(req)
        /\ Write(s, req.quantity, req.reserved + req.amount, -req.amount)
        /\ UNCHANGED listed

\* Fault: the release is logged with the sign of a reserve.
ReleaseLoggedAsTaken(s) ==
    LET req == session[s]
    IN  /\ req.pc = "loaded"
        /\ req.op = "release"
        /\ ReleaseAllowed(req)
        /\ Write(s, req.quantity, req.reserved - req.amount, -req.amount)
        /\ UNCHANGED listed

release_stock(s) ==
    LET req == session[s]
    IN  /\ req.pc = "loaded"
        /\ req.op = "release"
        /\ ReleaseAllowed(req)
        /\ Write(s, req.quantity, req.reserved - req.amount, req.amount)
        /\ UNCHANGED listed

\* Fault: the commit lowers reserved and forgets the quantity.
CommitKeepsQuantity(s) ==
    LET req == session[s]
    IN  /\ req.pc = "loaded"
        /\ req.op = "commit"
        /\ CommitAllowed(req)
        /\ Write(s, req.quantity, req.reserved - req.amount, -req.amount)
        /\ UNCHANGED listed

commit_stock(s) ==
    LET req == session[s]
    IN  /\ req.pc = "loaded"
        /\ req.op = "commit"
        /\ CommitAllowed(req)
        /\ Write(s, req.quantity - req.amount, req.reserved - req.amount, -req.amount)
        /\ UNCHANGED listed

\* Fault: get_db does not close the session of a failed request.
CloseForgotten(s) ==
    /\ session' = [session EXCEPT ![s].pc = "closed"]
    /\ UNCHANGED <<listed, quantity, reserved, movements, stale>>

\* The session is closed without a commit, which rolls its INSERT back.
Close(s) ==
    /\ session' = [session EXCEPT ![s] = Idle]
    /\ UNCHANGED <<listed, quantity, reserved, movements, stale>>

\* HTTPException 400, 404 or 409: the snapshot does not allow the operation.
\* adjust_stock of a missing row only gets there after its flush.
Refuse(s) ==
    LET req == session[s]
    IN  /\ req # Idle
        /\ ~Allowed(req)
        /\ req.op = "adjust" => req.found \/ req.pc = "flushed"
        /\ Close(s)

\* The transaction fails (IntegrityError of the INSERT, a lost connection) or
\* the worker dies before its commit.
Abort(s) == session[s] # Idle /\ Close(s)

Next ==
    \E s \in Sessions :
        \/ \E p \in Products :
              \/ \E d \in Deltas : Load(s, "adjust", p, d)
              \/ \E op \in {"reserve", "release", "commit"}, n \in Amounts : Load(s, op, p, n)
        \/ FlushInsert(s)
        \/ adjust_stock(s)
        \/ reserve_stock(s)
        \/ release_stock(s)
        \/ commit_stock(s)
        \/ Refuse(s)
        \/ Abort(s)

Spec == Init /\ [][Next]_vars

-----------------------------------------------------------------------------
(* Properties.                                                             *)

\* However the handlers interleave, and however often an update is lost, no
\* column ever goes below zero: each handler writes a value its own snapshot
\* justifies (main.py:90-93, 105, 117, 129-130), and the guards of main.py are
\* enough for that even when the snapshot is old.
NonNegative ==
    \A p \in Products : quantity[p] >= 0 /\ reserved[p] >= 0

\* A product whose every commit used the row as it stood has its columns
\* explained by the movement log: only adjust and commit move quantity, and
\* what is reserved is what was reserved and neither released nor committed.
LogExplainsRow ==
    \A p \in Products \ stale :
        /\ quantity[p] = (IF p \in SeededProducts THEN SeedQuantity[p] ELSE 0)
                            + movements[p]["adjust"] + movements[p]["commit"]
        /\ reserved[p] = movements[p]["commit"] - movements[p]["reserve"]
                            - movements[p]["release"]

\* Such a product never has more reserved than it has in stock, whichever of
\* the four operations two sessions run against it at once (main.py:90, 105).
ReservedWithinStock ==
    \A p \in Products \ stale : reserved[p] <= quantity[p]

\* One row per product: two sessions never both hold an uncommitted new row
\* of a product, nor one holds it next to a committed row, and a product
\* without a row has nothing in its columns or its log (main.py:85-87).
OneRowPerProduct ==
    /\ \A s \in Sessions : session[s].pc = "flushed" =>
          /\ session[s].product \notin listed
          /\ \A t \in Sessions \ {s} :
                session[t].pc = "flushed" => session[t].product # session[s].product
    /\ \A p \in (Products \ listed) :
          quantity[p] = 0 /\ reserved[p] = 0 /\ \A op \in Operations : movements[p][op] = 0

\* A commit to a product that is still fresh afterwards is one atomic operation
\* of the ledger, and every other step leaves the tables alone: stale reads are
\* the only way the service departs from what it promises (main.py:82-136).
FreshStepsAreAtomic ==
    [][(\A p \in stale' : movements'[p] = movements[p])
           => Ledger!Next \/ UNCHANGED ledgerVars]_vars

\* With one session at a time (one worker, one thread) the service implements
\* the ledger.
ImplementsLedger == Ledger!Spec
=============================================================================
