------------------------------ MODULE Records ------------------------------
(***************************************************************************)
(* The tables of the identity, product, review and notification services.  *)
(* All four insert alike: a SELECT or a count looks whether the row is     *)
(* there, the INSERTs of one transaction take their ids from a sequence    *)
(* and enter the unique indexes row by row, waiting for a transaction that *)
(* has entered the same key, and one commit makes them visible.  The       *)
(* workers of the product service seed its table that way when they start, *)
(* all at the same time.  A transaction that fails gives no id back.       *)
(* A row is known by its table, its id, its unique keys and the one column *)
(* a later request changes: is_active of users and products, the rating of *)
(* a review, is_read of a notification.                                    *)
(***************************************************************************)
EXTENDS Integers, Sequences, FiniteSets

CONSTANTS
    Requests,   \* POST requests
    Inserts,    \* what a POST may insert: [table, rows, about], rows a sequence of sets of keys
    Workers,    \* workers of the product service that start
    Samples,    \* the demo catalogue: a sequence of sets of keys
    Edits,      \* PUT and DELETE requests
    MaxFaults   \* bound: database errors, dead workers, product checks without an answer

Tables == {"users", "products", "reviews", "notifications"}

Keys == UNION ({Samples[i] : i \in DOMAIN Samples} \cup
               UNION {{ins.rows[i] : i \in DOMAIN ins.rows} : ins \in Inserts})

\* Only bulk_send inserts several rows, and notifications have no unique key;
\* no two of the samples share one.
ASSUME RecordsAssumption ==
    /\ \A ins \in Inserts :
          /\ ins.table \in Tables /\ ins.about \in Nat
          /\ ins.rows \in Seq(SUBSET Keys) \ {<<>>}
          /\ Len(ins.rows) > 1 => \A i \in DOMAIN ins.rows : ins.rows[i] = {}
    /\ Samples \in Seq(SUBSET Keys)
    /\ \A i, j \in DOMAIN Samples : i # j => Samples[i] \cap Samples[j] = {}
    /\ Requests \cap Workers = {}
    /\ MaxFaults \in Nat

VARIABLES
    rows,    \* the committed rows
    next,    \* the sequence of ids of each table
    tx,      \* the transactions of requests and workers
    edit,    \* the PUT and DELETE handlers
    sent,    \* history: how many messages each request has sent
    raced,   \* history: two workers have both found the table empty
    faults   \* how many faults have happened

vars == <<rows, next, tx, edit, sent, raced, faults>>

Sessions == Requests \cup Workers
Rows == [table : Tables, id : Nat, keys : SUBSET Keys, column : BOOLEAN]

InTable(t) == {row \in rows : row.table = t}
Conflict(row, other) == row.table = other.table /\ row.keys \cap other.keys # {}

\* asks are the keys of the rows to insert, granted the rows that are in the
\* indexes so far, entering the one that has its id and is not in them yet.
NoTx == [pc |-> "none", table |-> "products", about |-> 0, asks |-> <<>>, granted |-> {}, entering |-> {}]
Active == {"verify", "check", "insert", "index"}
Over == {"created", "skipped", "notfound", "refused", "conflict", "failed"}

Inserted(s) == Cardinality(tx[s].granted)

NoEdit == [pc |-> "none"]

TypeOK ==
    /\ rows \subseteq Rows
    /\ \A row, other \in rows : row.table = other.table /\ row.id = other.id => row = other
    /\ next \in [Tables -> Nat]
    /\ tx \in [Sessions -> [pc : {"none"} \cup Active \cup Over, table : Tables, about : Nat,
                            asks : Seq(SUBSET Keys), granted : SUBSET Rows, entering : SUBSET Rows]]
    /\ edit \in [Edits -> {NoEdit} \cup
          [pc : {"write", "done", "failed"}, row : Rows, delete : BOOLEAN, column : BOOLEAN]]
    /\ sent \in [Requests -> Nat]
    /\ raced \in BOOLEAN
    /\ faults \in 0 .. MaxFaults

Init ==
    /\ rows = {}
    /\ next = [t \in Tables |-> 1]
    /\ tx = [s \in Sessions |-> NoTx]
    /\ edit = [e \in Edits |-> NoEdit]
    /\ sent = [r \in Requests |-> 0]
    /\ raced = FALSE
    /\ faults = 0

Fault == faults < MaxFaults /\ faults' = faults + 1

-----------------------------------------------------------------------------
(* Before the insert.                                                      *)

\* A worker serves as soon as its own seeding is over, however it ended.
Serving == \E w \in Workers : tx[w].pc \in Over

\* A POST arrives.  Only a review asks another service, and only a notification
\* asks nobody.
Begin(r, ins) ==
    /\ tx[r] = NoTx
    /\ ins.table = "products" => Serving
    /\ tx' = [tx EXCEPT ![r] =
           [NoTx EXCEPT !.pc = CASE ins.table = "reviews" -> "verify"
                                 [] ins.table = "notifications" -> "insert"
                                 [] OTHER -> "check",
                        !.table = ins.table, !.about = ins.about, !.asks = ins.rows]]
    /\ UNCHANGED <<rows, next, edit, sent, raced, faults>>

\* Fault: any answer of the product service will do.
VerifyAnyAnswer(r) ==
    /\ tx[r].pc = "verify"
    /\ Serving
    /\ tx' = [tx EXCEPT ![r].pc = "check"]
    /\ UNCHANGED <<rows, next, edit, sent, raced, faults>>

\* create_review asks for the product; only a 404 refuses the review, any other
\* failure is logged.
VerifyProduct(r) ==
    /\ tx[r].pc = "verify"
    /\ \/ /\ Serving
          /\ tx' = [tx EXCEPT ![r].pc =
                 IF \E row \in InTable("products") : row.id = tx[r].about THEN "check" ELSE "notfound"]
          /\ UNCHANGED faults
       \/ /\ tx' = [tx EXCEPT ![r].pc = "check"]
          /\ Fault
    /\ UNCHANGED <<rows, next, edit, sent, raced>>

\* The SELECT of register, create_product and create_review.
Check(r) ==
    /\ tx[r].pc = "check"
    /\ tx' = [tx EXCEPT ![r].pc =
           IF \E row \in InTable(tx[r].table) : row.keys \cap Head(tx[r].asks) # {}
           THEN "refused" ELSE "insert"]
    /\ UNCHANGED <<rows, next, edit, sent, raced, faults>>

\* Fault: the samples come in any order.
SamplesShuffled(w) ==
    IF w = CHOOSE v \in Workers : TRUE THEN Samples
    ELSE [i \in DOMAIN Samples |-> Samples[Len(Samples) + 1 - i]]

SampleRows(w) == Samples

\* The count of lifespan.
StartWorker(w) ==
    /\ tx[w] = NoTx
    /\ tx' = [tx EXCEPT ![w] = IF InTable("products") = {}
                               THEN [NoTx EXCEPT !.pc = "insert", !.asks = SampleRows(w)]
                               ELSE [NoTx EXCEPT !.pc = "skipped"]]
    /\ raced' = (raced \/ \E v \in Workers : tx'[w].pc = "insert" /\ tx[v].pc \in Active)
    /\ UNCHANGED <<rows, next, edit, sent, faults>>

-----------------------------------------------------------------------------
(* The insert.                                                             *)

\* Fault: the id is counted and not taken from a sequence.
TakeIdByCount(s) ==
    /\ tx[s].pc = "insert"
    /\ Inserted(s) < Len(tx[s].asks)
    /\ LET t == tx[s].table
       IN  /\ tx' = [tx EXCEPT ![s].pc = "index",
                               ![s].entering = {[table |-> t, keys |-> tx[s].asks[Inserted(s) + 1],
                                                 id |-> Cardinality(InTable(t)) + Inserted(s) + 1,
                                                 column |-> t # "notifications"]}]
           /\ sent' = IF t = "notifications" THEN [sent EXCEPT ![s] = @ + 1] ELSE sent
    /\ UNCHANGED <<rows, next, edit, raced, faults>>

\* The next INSERT takes its id; a notification has been handed to its provider.
TakeId(s) ==
    /\ tx[s].pc = "insert"
    /\ Inserted(s) < Len(tx[s].asks)
    /\ LET t == tx[s].table
       IN  /\ next' = [next EXCEPT ![t] = @ + 1]
           /\ tx' = [tx EXCEPT ![s].pc = "index",
                               ![s].entering = {[table |-> t, id |-> next[t], keys |-> tx[s].asks[Inserted(s) + 1],
                                                 column |-> t # "notifications"]}]
           /\ sent' = IF t = "notifications" THEN [sent EXCEPT ![s] = @ + 1] ELSE sent
    /\ UNCHANGED <<rows, edit, raced, faults>>

WaitsFor(s, u) ==
    /\ s # u
    /\ tx[u].pc \in Active
    /\ \E row \in tx[s].entering, other \in tx[u].granted : Conflict(row, other)

Rollback(s, pc) == tx' = [tx EXCEPT ![s] = [@ EXCEPT !.pc = pc, !.granted = {}, !.entering = {}]]

Granted(s) == tx' = [tx EXCEPT ![s].pc = "insert", ![s].granted = @ \cup tx[s].entering, ![s].entering = {}]

\* Fault: there is no unique index.
EnterWithoutIndex(s) ==
    /\ tx[s].pc = "index"
    /\ Granted(s)
    /\ UNCHANGED <<rows, next, edit, sent, raced, faults>>

\* Fault: a key that another transaction has is not waited for.
EnterOrFail(s) ==
    /\ tx[s].pc = "index"
    /\ IF \/ \E u \in Sessions : WaitsFor(s, u)
          \/ \E row \in tx[s].entering, other \in rows \cup tx[s].granted : Conflict(row, other)
       THEN Rollback(s, "conflict")
       ELSE Granted(s)
    /\ UNCHANGED <<rows, next, edit, sent, raced, faults>>

\* The row enters the unique indexes: it waits for a transaction that has the
\* key, and fails if the key is committed or one of its own, an IntegrityError.
EnterIndex(s) ==
    /\ tx[s].pc = "index"
    /\ \A u \in Sessions : ~WaitsFor(s, u)
    /\ IF \E row \in tx[s].entering, other \in rows \cup tx[s].granted : Conflict(row, other)
       THEN Rollback(s, "conflict")
       ELSE Granted(s)
    /\ UNCHANGED <<rows, next, edit, sent, raced, faults>>

\* Fault: every row is committed as soon as it is in, and can be lost to another
\* transaction then.
CommitEachRow(s) ==
    /\ tx[s].pc = "insert"
    /\ tx[s].granted # {}
    /\ rows' = rows \cup tx[s].granted
    /\ tx' = [tx EXCEPT ![s].pc = IF Inserted(s) = Len(tx[s].asks) THEN "created" ELSE "insert"]
    /\ UNCHANGED <<next, edit, sent, raced, faults>>

\* Fault: the handler returns from inside its loop.
CommitInLoop(s) ==
    /\ tx[s].pc = "insert"
    /\ tx[s].granted # {}
    /\ rows' = rows \cup tx[s].granted
    /\ tx' = [tx EXCEPT ![s].pc = "created"]
    /\ UNCHANGED <<next, edit, sent, raced, faults>>

Commit(s) ==
    /\ tx[s].pc = "insert"
    /\ Inserted(s) = Len(tx[s].asks)
    /\ rows' = rows \cup tx[s].granted
    /\ tx' = [tx EXCEPT ![s].pc = "created"]
    /\ UNCHANGED <<next, edit, sent, raced, faults>>

\* A database error or a dead worker.
Abort(s) ==
    /\ tx[s].pc \in Active
    /\ Rollback(s, "failed")
    /\ Fault
    /\ UNCHANGED <<rows, next, edit, sent, raced>>

-----------------------------------------------------------------------------
(* A change: a SELECT by id, and a commit.  Only a review is deleted; a    *)
(* deleted product is one that is not active.                              *)

EditRead(e, row, delete, column) ==
    /\ edit[e] = NoEdit
    /\ edit' = [edit EXCEPT ![e] = [pc |-> "write", row |-> row, delete |-> delete, column |-> column]]
    /\ UNCHANGED <<rows, next, tx, sent, raced, faults>>

Stored(row) == {other \in rows : other.table = row.table /\ other.id = row.id}

\* Fault: the row is merged into the table, whether it is still there or not.
EditMerges(e) ==
    /\ edit[e].pc = "write"
    /\ rows' = (rows \ Stored(edit[e].row)) \cup
           (IF edit[e].delete THEN {} ELSE {[edit[e].row EXCEPT !.column = edit[e].column]})
    /\ edit' = [edit EXCEPT ![e].pc = "done"]
    /\ UNCHANGED <<next, tx, sent, raced, faults>>

\* A column is sent if it differs from what was read; an UPDATE that finds no
\* row, or no change and no row to refresh, is an error.
EditWrite(e) ==
    /\ edit[e].pc = "write"
    /\ LET row == edit[e].row
           kept == IF edit[e].delete THEN {}
                   ELSE {[other EXCEPT !.column = IF edit[e].column = row.column THEN @ ELSE edit[e].column] :
                            other \in Stored(row)}
       IN  /\ rows' = (rows \ Stored(row)) \cup kept
           /\ edit' = [edit EXCEPT ![e].pc = IF Stored(row) = {} /\ ~edit[e].delete THEN "failed" ELSE "done"]
    /\ UNCHANGED <<next, tx, sent, raced, faults>>

-----------------------------------------------------------------------------
(* The handlers.                                                           *)

Insert(s) == TakeId(s) \/ EnterIndex(s) \/ Commit(s) \/ Abort(s)
Post(r, t) == \E ins \in Inserts : ins.table = t /\ Begin(r, ins)

register(r) == Post(r, "users") \/ (tx[r].table = "users" /\ (Check(r) \/ Insert(r)))
create_product(r) == Post(r, "products") \/ (tx[r].table = "products" /\ (Check(r) \/ Insert(r)))
create_review(r) ==
    Post(r, "reviews") \/ (tx[r].table = "reviews" /\ (VerifyProduct(r) \/ Check(r) \/ Insert(r)))
send_notification(r) ==
    \/ \E ins \in Inserts : Len(ins.rows) = 1 /\ ins.table = "notifications" /\ Begin(r, ins)
    \/ tx[r].table = "notifications" /\ Len(tx[r].asks) = 1 /\ Insert(r)
bulk_send(r) ==
    \/ \E ins \in Inserts : Len(ins.rows) > 1 /\ ins.table = "notifications" /\ Begin(r, ins)
    \/ tx[r].table = "notifications" /\ Len(tx[r].asks) > 1 /\ Insert(r)
lifespan(w) == StartWorker(w) \/ Insert(w)

Update(e, t) == \E row \in InTable(t), column \in BOOLEAN : EditRead(e, row, FALSE, column)
update_user(e) == Update(e, "users")
update_product(e) == Update(e, "products")
delete_product(e) == \E row \in InTable("products") : EditRead(e, row, FALSE, FALSE)
update_review(e) == Update(e, "reviews")
delete_review(e) == \E row \in InTable("reviews") : EditRead(e, row, TRUE, FALSE)
mark_read(e) == \E row \in InTable("notifications") : EditRead(e, row, FALSE, TRUE)

Next ==
    \/ \E r \in Requests :
          \/ register(r)
          \/ create_product(r)
          \/ create_review(r)
          \/ send_notification(r)
          \/ bulk_send(r)
    \/ \E w \in Workers : lifespan(w)
    \/ \E e \in Edits :
          \/ update_user(e)
          \/ delete_product(e)
          \/ update_product(e)
          \/ update_review(e)
          \/ delete_review(e)
          \/ mark_read(e)
          \/ EditWrite(e)

Spec == Init /\ [][Next]_vars

-----------------------------------------------------------------------------
(* Properties.                                                             *)

\* However many requests find a key free at the same time, one row gets it
\* (identity main.py:70, product main.py:77, review main.py:65).
KeysAreUnique == \A row, other \in rows : Conflict(row, other) => row = other

\* Nobody loses to nobody: a request that is refused for its keys, or fails at an
\* index, has a rival that was given one of them.
KeysOf(s) == UNION {tx[s].asks[i] : i \in DOMAIN tx[s].asks}
LosersHaveARival ==
    \A s \in Sessions :
        tx[s].pc \in {"refused", "conflict"} =>
            \E u \in Sessions : tx[u].pc = "created" /\ tx[u].table = tx[s].table /\ KeysOf(u) \cap KeysOf(s) # {}

\* No group of transactions can wait for each other's keys: the workers insert
\* the samples in one order, and a request inserts one row with keys.
SomebodyMoves ==
    \A group \in (SUBSET Sessions) \ {{}} :
        \E s \in group : \A u \in group : ~WaitsFor(s, u)

Catalogue == {row.keys : row \in InTable("products")}

\* Once a worker serves, and nothing has failed, the demo catalogue is there as
\* a whole, whichever worker has won and whoever has posted products since.
CatalogueIsSeeded ==
    Serving /\ faults = 0 => \A i \in DOMAIN Samples : Samples[i] \in Catalogue

\* The inventory is seeded with the ids 1, 2, ... for the same products
\* (inventory main.py:35).  They are the right ones unless two workers have
\* seeded at the same time, or a seeding has failed.
StockMatchesCatalogue ==
    ~raced /\ faults = 0 =>
        \A row \in InTable("products") : row.id \in DOMAIN Samples => row.keys = Samples[row.id]

\* A review is of a product that the catalogue has, if the check got an answer:
\* deleting a product keeps its row.
ReviewsAreOfProducts ==
    faults = 0 =>
        \A r \in Requests : tx[r].table = "reviews" /\ tx[r].pc = "created" =>
            \E row \in InTable("products") : row.id = tx[r].about

\* What bulk_send and send_notification answer accounts for every message, sent
\* once and recorded; a failed one may have sent some and recorded none.
MessagesAreRecorded ==
    \A r \in Requests :
        tx[r].table = "notifications" /\ tx[r].pc \in Over =>
            /\ tx[r].pc = "created" => sent[r] = Len(tx[r].asks) /\ Inserted(r) = sent[r]
            /\ \A row \in tx[r].granted : Stored(row) # {}

\* A deleted review does not come back, whoever has read it before: a row that
\* appears is one that is being inserted.
DeletedStaysDeleted ==
    [][\A row \in rows' : Stored(row) # {} \/ \E s \in Sessions : tx[s].pc \in Active /\ row \in tx[s].granted]_vars
=============================================================================
