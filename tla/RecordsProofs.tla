---------------------------- MODULE RecordsProofs ----------------------------
(***************************************************************************)
(* Proofs about Records.tla, for every set of requests, workers, edits and *)
(* catalogue that RecordsAssumption admits, and any number of faults.      *)
(***************************************************************************)
EXTENDS Records, DataLemmas, FiniteSetTheorems, TLAPS

Txs == [pc : {"none"} \cup Active \cup Over, table : Tables, about : Nat,
        asks : Seq(SUBSET Keys), granted : SUBSET Rows, entering : SUBSET Rows]

EditRequests == [pc : {"write", "done", "failed"}, row : Rows, delete : BOOLEAN, column : BOOLEAN]

SameId(row, other) == row.table = other.table /\ row.id = other.id

-----------------------------------------------------------------------------
(* The invariant: transactions and the ids they take.                      *)

\* What a transaction has in the indexes is what it asked for, from the first
\* row to the last one inserted.
GrantedOK(s) ==
    /\ IsFiniteSet(tx[s].granted)
    /\ Inserted(s) <= Len(tx[s].asks)
    /\ \A i \in 1 .. Inserted(s) : \E row \in tx[s].granted : row.keys = tx[s].asks[i]
    /\ \A row \in tx[s].granted : \E i \in 1 .. Inserted(s) : row.keys = tx[s].asks[i]

EnteringOK(s) ==
    IF tx[s].pc = "index"
    THEN /\ Inserted(s) < Len(tx[s].asks)
         /\ \E row \in tx[s].entering : tx[s].entering = {row} /\ row.keys = tx[s].asks[Inserted(s) + 1]
    ELSE tx[s].entering = {}

TxOK(s) ==
    /\ GrantedOK(s)
    /\ EnteringOK(s)
    /\ tx[s].pc = "created" => Inserted(s) = Len(tx[s].asks)
    /\ tx[s].pc \notin {"insert", "index", "created"} => tx[s].granted = {}
    /\ tx[s].pc = "none" => tx[s] = NoTx

\* A worker only ever inserts the samples; a request that asks for several rows
\* asks for rows without keys.
WorkerOK(w) ==
    /\ tx[w].table = "products"
    /\ tx[w].pc \in {"none", "insert", "index", "created", "skipped", "conflict", "failed"}
    /\ tx[w].pc \notin {"none", "skipped"} => tx[w].asks = Samples

RequestOK(r) ==
    /\ Len(tx[r].asks) > 1 => \A i \in DOMAIN tx[r].asks : tx[r].asks[i] = {}
    /\ tx[r].pc # "none" => tx[r].asks # <<>>
    /\ tx[r].pc # "none" /\ tx[r].table = "products" => Serving

\* A row in the making has an id of its own, from the sequence of its table.
Made(s) == tx[s].granted \cup tx[s].entering

IdsOK ==
    /\ \A row \in rows : row.id < next[row.table]
    /\ \A s \in Sessions : \A row \in Made(s) : row.table = tx[s].table /\ row.id < next[row.table]
    /\ \A s \in Sessions : \A row, other \in Made(s) : SameId(row, other) => row = other
    /\ \A s \in Sessions : tx[s].granted \cap tx[s].entering = {}
    /\ \A s \in Sessions : tx[s].pc \in Active =>
          \A row \in Made(s) : \A other \in rows : ~ SameId(row, other)
    /\ \A s, u \in Sessions : s # u => \A row \in Made(s), other \in Made(u) : ~ SameId(row, other)

\* Only reviews are deleted.
EditOK(e) == edit[e] # NoEdit /\ edit[e].delete => edit[e].row.table = "reviews"

TxInv ==
    /\ TypeOK
    /\ \A s \in Sessions : TxOK(s)
    /\ \A w \in Workers : WorkerOK(w)
    /\ \A r \in Requests : RequestOK(r)
    /\ IdsOK
    /\ \A e \in Edits : EditOK(e)

-----------------------------------------------------------------------------
(* The invariant: keys.                                                    *)

\* A row in the index of a transaction that is not over has rivals neither in
\* the table nor in another such transaction.
RivalsWait ==
    \A s \in Sessions : tx[s].pc \in Active =>
        \A row \in tx[s].granted :
            /\ \A other \in rows : ~ Conflict(row, other)
            /\ \A other \in tx[s].granted : Conflict(row, other) => row = other
            /\ \A u \in Sessions \ {s} : tx[u].pc \in Active =>
                  \A other \in tx[u].granted : ~ Conflict(row, other)

\* Every row was inserted by a transaction that is committed.
RowsWereAsked ==
    \A row \in rows : \E u \in Sessions :
        /\ tx[u].pc = "created" /\ tx[u].table = row.table
        /\ \E i \in DOMAIN tx[u].asks : row.keys = tx[u].asks[i]

KeysInv ==
    /\ KeysAreUnique
    /\ RivalsWait
    /\ RowsWereAsked
    /\ LosersHaveARival

-----------------------------------------------------------------------------
(* The invariant: what handlers promise.                                   *)

SeedInv ==
    faults = 0 /\ (Serving \/ InTable("products") # {}) =>
        \A i \in DOMAIN Samples : Samples[i] \in Catalogue

\* A review past its check is of a product that is there.
ReviewInv ==
    faults = 0 =>
        \A r \in Requests : tx[r].table = "reviews" /\ tx[r].pc \in {"check", "insert", "index", "created"} =>
            \E row \in InTable("products") : row.id = tx[r].about

\* Messages sent are rows granted and the one that enters, until a rollback.
MessageInv ==
    \A r \in Requests :
        /\ tx[r].pc \in {"none", "verify", "check"} => sent[r] = 0
        /\ tx[r].table = "notifications" /\ tx[r].pc \in {"insert", "created"} => sent[r] = Inserted(r)
        /\ tx[r].table = "notifications" /\ tx[r].pc = "index" => sent[r] = Inserted(r) + 1
        /\ tx[r].table = "notifications" /\ tx[r].pc = "created" =>
              \A row \in tx[r].granted : Stored(row) # {}

\* A product that is made, or stands in the table, has the keys of its sample.
AsSample(row) == row.id \in DOMAIN Samples => row.keys = Samples[row.id]

\* Nobody has begun to seed; one worker is at it, alone; the samples have the
\* first ids, and every other product a later one.
NotSeeded ==
    /\ \A w \in Workers : tx[w].pc = "none"
    /\ InTable("products") = {}
    /\ next["products"] = 1
Seeding(w) ==
    /\ tx[w].pc \in {"insert", "index"}
    /\ \A v \in Workers \ {w} : tx[v].pc = "none"
    /\ InTable("products") = {}
    /\ next["products"] = Inserted(w) + Cardinality(tx[w].entering) + 1
    /\ \A row \in Made(w) : AsSample(row)
Seeded ==
    /\ \A w \in Workers : tx[w].pc \in {"none", "created", "skipped"}
    /\ InTable("products") # {}
    /\ next["products"] > Len(Samples)
    /\ \A row \in InTable("products") : AsSample(row)
    /\ \A r \in Requests : tx[r].pc \in Active =>
          \A row \in Made(r) : row.table = "products" => row.id > Len(Samples)

StockInv ==
    ~ raced /\ faults = 0 /\ Samples # <<>> => NotSeeded \/ (\E w \in Workers : Seeding(w)) \/ Seeded

-----------------------------------------------------------------------------
(* What the steps do to a transaction, field by field.                     *)

Same(s) == tx' = [tx EXCEPT ![s] = tx'[s]] /\ \A u \in Sessions \ {s} : tx'[u] = tx[u]

Kept(s) ==
    /\ tx'[s].table = tx[s].table /\ tx'[s].about = tx[s].about /\ tx'[s].asks = tx[s].asks
    /\ tx[s] # NoTx

BeginEffect(r, ins) ==
    /\ Same(r) /\ tx[r] = NoTx
    /\ tx'[r].pc = CASE ins.table = "reviews" -> "verify"
                     [] ins.table = "notifications" -> "insert"
                     [] OTHER -> "check"
    /\ tx'[r].table = ins.table /\ tx'[r].about = ins.about /\ tx'[r].asks = ins.rows
    /\ tx'[r].granted = {} /\ tx'[r].entering = {}
    /\ ins.table = "products" => Serving
    /\ UNCHANGED <<rows, next, edit, sent, raced, faults>>

StartEffect(w) ==
    /\ Same(w) /\ tx[w] = NoTx
    /\ tx'[w].pc = IF InTable("products") = {} THEN "insert" ELSE "skipped"
    /\ tx'[w].table = "products"
    /\ tx'[w].asks = IF InTable("products") = {} THEN Samples ELSE <<>>
    /\ tx'[w].granted = {} /\ tx'[w].entering = {}
    /\ raced' = (raced \/ \E v \in Workers : tx'[w].pc = "insert" /\ tx[v].pc \in Active)
    /\ UNCHANGED <<rows, next, edit, sent, faults>>

\* A step of a handler that looks, or commits: its indexes stay as they are.
MoveEffect(s, pc) ==
    /\ Same(s) /\ Kept(s) /\ tx'[s].pc = pc
    /\ tx'[s].granted = tx[s].granted /\ tx'[s].entering = tx[s].entering
    /\ UNCHANGED <<next, edit, sent, raced>>

NewRow(s) ==
    [table |-> tx[s].table, id |-> next[tx[s].table], keys |-> tx[s].asks[Inserted(s) + 1],
     column |-> tx[s].table # "notifications"]

TakeEffect(s) ==
    /\ Same(s) /\ Kept(s) /\ tx[s].pc = "insert" /\ tx'[s].pc = "index"
    /\ Inserted(s) < Len(tx[s].asks)
    /\ tx'[s].granted = tx[s].granted /\ tx'[s].entering = {NewRow(s)}
    /\ NewRow(s) \in Rows
    /\ next' = [next EXCEPT ![tx[s].table] = @ + 1]
    /\ sent' = IF tx[s].table = "notifications" THEN [sent EXCEPT ![s] = @ + 1] ELSE sent
    /\ UNCHANGED <<rows, edit, raced, faults>>

GrantEffect(s) ==
    /\ Same(s) /\ Kept(s) /\ tx[s].pc = "index" /\ tx'[s].pc = "insert"
    /\ tx'[s].granted = tx[s].granted \cup tx[s].entering /\ tx'[s].entering = {}
    /\ \A u \in Sessions : ~ WaitsFor(s, u)
    /\ \A row \in tx[s].entering, other \in rows \cup tx[s].granted : ~ Conflict(row, other)
    /\ UNCHANGED <<rows, next, edit, sent, raced, faults>>

RollbackEffect(s, pc) ==
    /\ Same(s) /\ Kept(s) /\ tx[s].pc \in Active /\ tx'[s].pc = pc
    /\ tx'[s].granted = {} /\ tx'[s].entering = {}
    /\ UNCHANGED <<rows, next, edit, sent, raced>>

VerifyEffect(r) ==
    /\ tx[r].pc = "verify" /\ tx[r].table = "reviews" /\ rows' = rows
    /\ \/ /\ MoveEffect(r, "check") /\ faults' = faults
          /\ \E row \in InTable("products") : row.id = tx[r].about
       \/ MoveEffect(r, "notfound") /\ faults' = faults
       \/ MoveEffect(r, "check") /\ Fault

CheckEffect(r) ==
    /\ tx[r].pc = "check" /\ rows' = rows /\ faults' = faults
    /\ \/ /\ MoveEffect(r, "refused")
          /\ \E row \in InTable(tx[r].table) : row.keys \cap Head(tx[r].asks) # {}
       \/ MoveEffect(r, "insert")

CommitEffect(s) ==
    /\ tx[s].pc = "insert" /\ Inserted(s) = Len(tx[s].asks)
    /\ MoveEffect(s, "created") /\ rows' = rows \cup tx[s].granted /\ faults' = faults

ConflictEffect(s) ==
    /\ tx[s].pc = "index" /\ RollbackEffect(s, "conflict") /\ faults' = faults
    /\ \E row \in tx[s].entering, other \in rows \cup tx[s].granted : Conflict(row, other)

AbortEffect(s) == RollbackEffect(s, "failed") /\ Fault

EditReadEffect(e) ==
    /\ edit' = [edit EXCEPT ![e] = edit'[e]]
    /\ \A d \in Edits \ {e} : edit'[d] = edit[d]
    /\ edit'[e] \in EditRequests /\ edit'[e].row \in rows
    /\ edit'[e].delete => edit'[e].row.table = "reviews"
    /\ UNCHANGED <<rows, next, tx, sent, raced, faults>>

\* An UPDATE or a DELETE keeps the table, the id and the keys of every row.
EditWriteEffect(e) ==
    /\ \A row \in rows' : \E other \in rows : SameId(row, other) /\ row.keys = other.keys
    /\ rows' \subseteq Rows
    /\ \A row, other \in rows' : SameId(row, other) => row = other
    /\ \A other \in rows :
          \/ SameId(edit[e].row, other) /\ edit[e].delete
          \/ \E row \in rows' : SameId(row, other) /\ row.keys = other.keys
    /\ edit[e] \in EditRequests /\ edit[e].pc = "write"
    /\ edit'[e] \in EditRequests /\ edit'[e].row = edit[e].row /\ edit'[e].delete = edit[e].delete
    /\ edit' = [edit EXCEPT ![e] = edit'[e]]
    /\ \A d \in Edits \ {e} : edit'[d] = edit[d]
    /\ UNCHANGED <<next, tx, sent, raced, faults>>

LEMMA TxFields ==
    ASSUME TypeOK, NEW s \in Sessions
    PROVE  /\ tx[s] \in Txs
           /\ tx[s].pc \in {"none"} \cup Active \cup Over /\ tx[s].table \in Tables
           /\ tx[s].about \in Nat /\ tx[s].asks \in Seq(SUBSET Keys)
           /\ tx[s].granted \subseteq Rows /\ tx[s].entering \subseteq Rows
           /\ tx[s].pc # "none" => tx[s] # NoTx
<1>1. tx[s] \in Txs
  BY DEF TypeOK, Txs
<1> QED BY <1>1 DEF Txs, NoTx

LEMMA NoTxIsTx == NoTx \in Txs
<1>1. <<>> \in Seq(SUBSET Keys) /\ 0 \in Nat
  OBVIOUS
<1> QED BY <1>1 DEF NoTx, Txs, Tables, Rows

\* The seven kinds of steps.
LEMMA NextCases ==
    ASSUME [Next]_vars
    PROVE  \/ \E r \in Requests, ins \in Inserts : Begin(r, ins)
           \/ \E r \in Requests : tx[r].table = "reviews" /\ VerifyProduct(r)
           \/ \E r \in Requests : Check(r)
           \/ \E s \in Sessions : Insert(s)
           \/ \E w \in Workers : StartWorker(w)
           \/ \E e \in Edits, row \in rows, delete \in BOOLEAN, column \in BOOLEAN :
                 EditRead(e, row, delete, column) /\ (delete => row.table = "reviews")
           \/ \E e \in Edits : EditWrite(e)
           \/ UNCHANGED vars
<1>1. ASSUME NEW r \in Requests,
             register(r) \/ create_product(r) \/ create_review(r) \/ send_notification(r) \/ bulk_send(r)
      PROVE  \/ \E ins \in Inserts : Begin(r, ins)
             \/ tx[r].table = "reviews" /\ VerifyProduct(r)
             \/ Check(r)
             \/ Insert(r)
  BY <1>1 DEF register, create_product, create_review, send_notification, bulk_send, Post
<1>2. ASSUME NEW e \in Edits,
             \/ update_user(e) \/ delete_product(e) \/ update_product(e)
             \/ update_review(e) \/ delete_review(e) \/ mark_read(e)
      PROVE  \E row \in rows, delete \in BOOLEAN, column \in BOOLEAN :
                 EditRead(e, row, delete, column) /\ (delete => row.table = "reviews")
  BY <1>2 DEF update_user, delete_product, update_product, update_review, delete_review, mark_read,
              Update, InTable
<1> QED BY <1>1, <1>2 DEF Next, lifespan, Sessions

LEMMA TxUpdated ==
    ASSUME TypeOK, NEW s \in Sessions, NEW r, tx' = [tx EXCEPT ![s] = r]
    PROVE  tx'[s] = r /\ Same(s)
BY DEF TypeOK, Same

LEMMA BeginHasEffect ==
    ASSUME TypeOK, NEW r \in Requests, NEW ins \in Inserts, Begin(r, ins)
    PROVE  BeginEffect(r, ins) /\ tx'[r] \in Txs
<1> DEFINE pc == CASE ins.table = "reviews" -> "verify"
                   [] ins.table = "notifications" -> "insert"
                   [] OTHER -> "check"
           t == [NoTx EXCEPT !.pc = pc, !.table = ins.table, !.about = ins.about, !.asks = ins.rows]
<1>1. tx'[r] = t /\ Same(r)
  BY TxUpdated DEF Begin, Sessions
<1>2. pc \in Active /\ ins.table \in Tables /\ ins.about \in Nat /\ ins.rows \in Seq(SUBSET Keys)
  BY RecordsAssumption DEF Active
<1>3. NoTx \in Txs /\ NoTx.granted = {} /\ NoTx.entering = {}
  BY NoTxIsTx DEF NoTx
<1> HIDE DEF pc
<1>4. t \in Txs /\ t.pc = pc /\ t.table = ins.table /\ t.about = ins.about /\ t.asks = ins.rows
      /\ t.granted = {} /\ t.entering = {}
  BY <1>2, <1>3 DEF Txs
<1> HIDE DEF t
<1> QED BY <1>1, <1>4 DEF BeginEffect, Begin, pc

LEMMA StartHasEffect ==
    ASSUME TypeOK, NEW w \in Workers, StartWorker(w)
    PROVE  StartEffect(w) /\ tx'[w] \in Txs
<1> DEFINE t == [NoTx EXCEPT !.pc = "insert", !.asks = Samples]
           k == [NoTx EXCEPT !.pc = "skipped"]
<1>1. tx'[w] = (IF InTable("products") = {} THEN t ELSE k) /\ Same(w)
  BY TxUpdated DEF StartWorker, Sessions, SampleRows
<1>2. /\ NoTx \in Txs /\ NoTx.granted = {} /\ NoTx.entering = {} /\ NoTx.table = "products"
      /\ NoTx.asks = <<>> /\ Samples \in Seq(SUBSET Keys)
  BY NoTxIsTx, RecordsAssumption DEF NoTx
<1>3. /\ t \in Txs /\ t.pc = "insert" /\ t.table = "products" /\ t.asks = Samples
      /\ t.granted = {} /\ t.entering = {}
      /\ k \in Txs /\ k.pc = "skipped" /\ k.table = "products" /\ k.asks = <<>>
      /\ k.granted = {} /\ k.entering = {}
  BY <1>2 DEF Txs, Active, Over
<1> HIDE DEF t, k
<1>4. tx[w] = NoTx /\ UNCHANGED <<rows, next, edit, sent, faults>>
      /\ raced' = (raced \/ \E v \in Workers : tx'[w].pc = "insert" /\ tx[v].pc \in Active)
  BY DEF StartWorker
<1>5. CASE InTable("products") = {}
  BY <1>1, <1>3, <1>4, <1>5 DEF StartEffect
<1>6. CASE InTable("products") # {}
  BY <1>1, <1>3, <1>4, <1>6 DEF StartEffect
<1> QED BY <1>5, <1>6

\* A step that moves the program counter only.
LEMMA PcMoved ==
    ASSUME TypeOK, NEW s \in Sessions, NEW pc \in Active \cup Over, tx[s] # NoTx,
           tx' = [tx EXCEPT ![s].pc = pc]
    PROVE  /\ Same(s) /\ Kept(s) /\ tx'[s].pc = pc /\ tx'[s] \in Txs
           /\ tx'[s].granted = tx[s].granted /\ tx'[s].entering = tx[s].entering
<1>1. tx' = [tx EXCEPT ![s] = [tx[s] EXCEPT !.pc = pc]]
  BY DEF TypeOK
<1>2. tx'[s] = [tx[s] EXCEPT !.pc = pc] /\ Same(s)
  BY <1>1, TxUpdated
<1>3. tx[s] \in Txs
  BY TxFields
<1> QED BY <1>2, <1>3 DEF Txs, Kept

LEMMA VerifyHasEffect ==
    ASSUME TypeOK, NEW r \in Requests, tx[r].table = "reviews", VerifyProduct(r)
    PROVE  VerifyEffect(r) /\ tx'[r] \in Txs
<1>1. r \in Sessions /\ tx[r] # NoTx /\ tx[r].pc = "verify"
  BY TxFields DEF VerifyProduct, Sessions
<1>2. \/ tx' = [tx EXCEPT ![r].pc = "check"] /\ Fault
      \/ /\ tx' = [tx EXCEPT ![r].pc = "check"] /\ faults' = faults
         /\ \E row \in InTable("products") : row.id = tx[r].about
      \/ tx' = [tx EXCEPT ![r].pc = "notfound"] /\ faults' = faults
  BY DEF VerifyProduct
<1>3. "check" \in Active \cup Over /\ "notfound" \in Active \cup Over
  BY DEF Active, Over
<1>4. UNCHANGED <<rows, next, edit, sent, raced>>
  BY DEF VerifyProduct
<1> QED BY <1>1, <1>2, <1>3, <1>4, PcMoved DEF MoveEffect, VerifyEffect

LEMMA CheckHasEffect ==
    ASSUME TypeOK, NEW r \in Requests, Check(r)
    PROVE  CheckEffect(r) /\ tx'[r] \in Txs
<1>1. r \in Sessions /\ tx[r] # NoTx /\ tx[r].pc = "check"
  BY TxFields DEF Check, Sessions
<1>2. \/ /\ tx' = [tx EXCEPT ![r].pc = "refused"]
         /\ \E row \in InTable(tx[r].table) : row.keys \cap Head(tx[r].asks) # {}
      \/ tx' = [tx EXCEPT ![r].pc = "insert"]
  BY DEF Check
<1>3. "refused" \in Active \cup Over /\ "insert" \in Active \cup Over
  BY DEF Active, Over
<1>4. UNCHANGED <<rows, next, edit, sent, raced, faults>>
  BY DEF Check
<1> QED BY <1>1, <1>2, <1>3, <1>4, PcMoved DEF MoveEffect, CheckEffect

LEMMA CommitHasEffect ==
    ASSUME TypeOK, NEW s \in Sessions, Commit(s)
    PROVE  CommitEffect(s) /\ tx'[s] \in Txs
<1>1. tx[s] # NoTx /\ "created" \in Active \cup Over
  BY TxFields DEF Commit, Over
<1> QED BY <1>1, PcMoved DEF Commit, MoveEffect, CommitEffect

LEMMA TakeIdHasEffect ==
    ASSUME TypeOK, NEW s \in Sessions, IsFiniteSet(tx[s].granted), TakeId(s)
    PROVE  TakeEffect(s) /\ tx'[s] \in Txs
<1>1. /\ tx[s] \in Txs /\ tx[s] # NoTx /\ tx[s].table \in Tables /\ tx[s].pc = "insert"
      /\ tx[s].asks \in Seq(SUBSET Keys)
  BY TxFields DEF TakeId
<1>2. Inserted(s) \in Nat /\ Inserted(s) + 1 \in DOMAIN tx[s].asks
  BY <1>1, FS_CardinalityType DEF TakeId, Inserted
<1>3. NewRow(s) \in Rows
  BY <1>1, <1>2 DEF NewRow, Rows, TypeOK
<1>4. tx' = [tx EXCEPT ![s] = [tx[s] EXCEPT !.pc = "index", !.entering = {NewRow(s)}]]
  BY DEF TakeId, TypeOK, NewRow
<1>5. tx'[s] = [tx[s] EXCEPT !.pc = "index", !.entering = {NewRow(s)}] /\ Same(s)
  BY <1>4, TxUpdated
<1>6. {NewRow(s)} \in SUBSET Rows
  BY <1>3
<1>7. /\ tx'[s].pc = "index" /\ tx'[s].entering = {NewRow(s)} /\ tx'[s].granted = tx[s].granted
      /\ Kept(s) /\ tx'[s] \in Txs
  <2> HIDE DEF NewRow
  <2> QED BY <1>1, <1>5, <1>6 DEF Txs, Kept, Active
<1> QED BY <1>1, <1>3, <1>5, <1>7 DEF TakeEffect, TakeId

\* A row enters the indexes, or the transaction is rolled back.
LEMMA EnterHasEffect ==
    ASSUME TypeOK, NEW s \in Sessions, EnterIndex(s)
    PROVE  (GrantEffect(s) \/ ConflictEffect(s)) /\ tx'[s] \in Txs
<1>1. tx[s] \in Txs /\ tx[s] # NoTx /\ tx[s].pc = "index"
  BY TxFields DEF EnterIndex
<1>2. UNCHANGED <<rows, next, edit, sent, raced, faults>> /\ \A u \in Sessions : ~ WaitsFor(s, u)
  BY DEF EnterIndex
<1>3. CASE Rollback(s, "conflict") /\ \E row \in tx[s].entering, other \in rows \cup tx[s].granted : Conflict(row, other)
  <2>1. tx'[s] = [tx[s] EXCEPT !.pc = "conflict", !.granted = {}, !.entering = {}] /\ Same(s)
    BY <1>3, TxUpdated DEF Rollback, TypeOK
  <2> QED BY <1>1, <1>2, <1>3, <2>1 DEF ConflictEffect, RollbackEffect, Kept, Txs, Active, Over
<1>4. CASE Granted(s) /\ ~ \E row \in tx[s].entering, other \in rows \cup tx[s].granted : Conflict(row, other)
  <2> DEFINE g == tx[s].granted \cup tx[s].entering
  <2>1. tx' = [tx EXCEPT ![s] = [tx[s] EXCEPT !.pc = "insert", !.granted = g, !.entering = {}]]
    BY <1>4 DEF Granted, TypeOK
  <2>2. tx'[s] = [tx[s] EXCEPT !.pc = "insert", !.granted = g, !.entering = {}] /\ Same(s)
    BY <2>1, TxUpdated
  <2>3. g \subseteq Rows
    BY TxFields
  <2> HIDE DEF g
  <2>4. /\ tx'[s].pc = "insert" /\ tx'[s].granted = g /\ tx'[s].entering = {}
        /\ Kept(s) /\ tx'[s] \in Txs
    BY <1>1, <2>2, <2>3 DEF Txs, Kept, Active
  <2> QED BY <1>1, <1>2, <1>4, <2>2, <2>4 DEF GrantEffect, g
<1> QED BY <1>1, <1>3, <1>4 DEF EnterIndex

LEMMA AbortHasEffect ==
    ASSUME TypeOK, NEW s \in Sessions, Abort(s)
    PROVE  AbortEffect(s) /\ tx'[s] \in Txs
<1>1. tx[s] \in Txs /\ tx[s] # NoTx /\ tx[s].pc \in Active
  BY TxFields DEF Abort, Active
<1>2. tx'[s] = [tx[s] EXCEPT !.pc = "failed", !.granted = {}, !.entering = {}] /\ Same(s)
  BY TxUpdated DEF Abort, Rollback, TypeOK
<1> QED BY <1>1, <1>2 DEF AbortEffect, RollbackEffect, Kept, Txs, Active, Over, Abort


LEMMA EditWriteHasEffect ==
    ASSUME TypeOK, NEW e \in Edits, EditWrite(e)
    PROVE  EditWriteEffect(e)
<1> DEFINE old == edit[e].row
           new(other) == [other EXCEPT !.column = IF edit[e].column = old.column THEN other.column
                                                  ELSE edit[e].column]
<1>1. edit[e] \in EditRequests /\ edit[e].pc = "write" /\ edit[e].row \in Rows
      /\ edit[e].delete \in BOOLEAN /\ edit[e].column \in BOOLEAN /\ old.column \in BOOLEAN
  <2>1. edit[e] \in EditRequests
    BY DEF EditWrite, TypeOK, NoEdit, EditRequests
  <2> QED BY <2>1 DEF EditRequests, EditWrite, Rows
<1>2. \A other \in rows : /\ new(other) \in Rows /\ SameId(new(other), other)
                          /\ new(other).keys = other.keys
  BY <1>1 DEF TypeOK, Rows, SameId
<1>3. \A row, other \in rows : SameId(row, other) => row = other
  BY DEF TypeOK, SameId
<1>4. rows' = (rows \ Stored(old)) \cup (IF edit[e].delete THEN {} ELSE {new(other) : other \in Stored(old)})
  BY DEF EditWrite
<1>5. Stored(old) = {other \in rows : SameId(old, other)}
  BY DEF Stored, SameId
<1>6. /\ edit'[e] \in EditRequests /\ edit'[e].row = edit[e].row /\ edit'[e].delete = edit[e].delete
      /\ edit' = [edit EXCEPT ![e] = edit'[e]]
      /\ \A d \in Edits \ {e} : edit'[d] = edit[d]
  <2>1. \E x \in {"failed", "done"} : edit' = [edit EXCEPT ![e] = [edit[e] EXCEPT !.pc = x]]
    BY DEF EditWrite, TypeOK
  <2>2. \A x \in {"failed", "done"} :
            /\ [edit[e] EXCEPT !.pc = x] \in EditRequests
            /\ [edit[e] EXCEPT !.pc = x].row = edit[e].row
            /\ [edit[e] EXCEPT !.pc = x].delete = edit[e].delete
    BY <1>1 DEF EditRequests
  <2> QED BY <2>1, <2>2 DEF TypeOK
<1>7. UNCHANGED <<next, tx, sent, raced, faults>>
  BY DEF EditWrite
<1> HIDE DEF new
<1>8. \A row \in rows' : \E other \in rows :
          /\ SameId(row, other) /\ row.keys = other.keys
          /\ \/ row = other /\ ~ SameId(old, other)
             \/ row = new(other) /\ SameId(old, other)
  BY <1>2, <1>4, <1>5 DEF SameId
<1>9. rows' \subseteq Rows
  BY <1>2, <1>4, <1>5 DEF TypeOK
<1>10. \A row, other \in rows' : SameId(row, other) => row = other
  BY <1>3, <1>8 DEF SameId
<1>11. \A other \in rows :
          \/ SameId(old, other) /\ edit[e].delete
          \/ \E row \in rows' : SameId(row, other) /\ row.keys = other.keys
  <2> SUFFICES ASSUME NEW other \in rows, ~ (SameId(old, other) /\ edit[e].delete)
               PROVE  \E row \in rows' : SameId(row, other) /\ row.keys = other.keys
    OBVIOUS
  <2>1. CASE SameId(old, other)
    <3>1. new(other) \in rows'
      BY <1>4, <1>5, <2>1
    <3> QED BY <1>2, <3>1
  <2>2. CASE ~ SameId(old, other)
    <3>1. other \in rows'
      BY <1>4, <1>5, <2>2
    <3> QED BY <3>1 DEF SameId
  <2> QED BY <2>1, <2>2
<1> QED BY <1>1, <1>6, <1>7, <1>8, <1>9, <1>10, <1>11 DEF EditWriteEffect


LEMMA EditReadHasEffect ==
    ASSUME TypeOK, NEW e \in Edits, NEW row \in rows, NEW delete \in BOOLEAN, NEW column \in BOOLEAN,
           EditRead(e, row, delete, column), delete => row.table = "reviews"
    PROVE  EditReadEffect(e)
<1> DEFINE t == [pc |-> "write", row |-> row, delete |-> delete, column |-> column]
<1>1. edit' = [edit EXCEPT ![e] = t] /\ UNCHANGED <<rows, next, tx, sent, raced, faults>>
  BY DEF EditRead
<1>2. t \in EditRequests /\ t.row = row /\ t.delete = delete
  BY DEF EditRequests, TypeOK
<1> HIDE DEF t
<1> QED BY <1>1, <1>2 DEF TypeOK, EditReadEffect

\* Every step has one of these effects on the tables, and keeps the types.
StepEffect ==
    \/ \E r \in Requests, ins \in Inserts : BeginEffect(r, ins)
    \/ \E r \in Requests : VerifyEffect(r) \/ CheckEffect(r)
    \/ \E w \in Workers : StartEffect(w)
    \/ \E s \in Sessions :
          TakeEffect(s) \/ GrantEffect(s) \/ ConflictEffect(s) \/ CommitEffect(s) \/ AbortEffect(s)
    \/ \E e \in Edits : EditReadEffect(e) \/ EditWriteEffect(e)
    \/ UNCHANGED vars

LEMMA StepsHaveEffects ==
    ASSUME TypeOK, \A s \in Sessions : IsFiniteSet(tx[s].granted), [Next]_vars
    PROVE  /\ StepEffect
           /\ tx' = tx \/ \E s \in Sessions : Same(s) /\ tx'[s] \in Txs
<1>1. CASE \E r \in Requests, ins \in Inserts : Begin(r, ins)
  BY <1>1, BeginHasEffect DEF StepEffect, BeginEffect, Sessions
<1>2. CASE \E r \in Requests : (tx[r].table = "reviews" /\ VerifyProduct(r)) \/ Check(r)
  BY <1>2, VerifyHasEffect, CheckHasEffect DEF StepEffect, VerifyEffect, CheckEffect, MoveEffect, Sessions
<1>3. CASE \E s \in Sessions : Insert(s)
  BY <1>3, TakeIdHasEffect, EnterHasEffect, CommitHasEffect, AbortHasEffect
     DEF StepEffect, Insert, TakeEffect, GrantEffect, ConflictEffect, CommitEffect, AbortEffect,
         RollbackEffect, MoveEffect
<1>4. CASE \E w \in Workers : StartWorker(w)
  BY <1>4, StartHasEffect DEF StepEffect, StartEffect, Sessions
<1>5. CASE \/ \E e \in Edits, row \in rows, delete \in BOOLEAN, column \in BOOLEAN :
                 EditRead(e, row, delete, column) /\ (delete => row.table = "reviews")
           \/ \E e \in Edits : EditWrite(e)
  BY <1>5, EditReadHasEffect, EditWriteHasEffect DEF StepEffect, EditReadEffect, EditWriteEffect
<1>6. CASE UNCHANGED vars
  BY <1>6 DEF StepEffect, vars
<1> QED BY <1>1, <1>2, <1>3, <1>4, <1>5, <1>6, NextCases

-----------------------------------------------------------------------------
(* Types.                                                                  *)

LEMMA TypePreserved ==
    ASSUME TxInv, [Next]_vars
    PROVE  TypeOK' /\ StepEffect
<1>1. TypeOK /\ \A s \in Sessions : IsFiniteSet(tx[s].granted)
  BY DEF TxInv, TxOK, GrantedOK
<1>2. StepEffect /\ (tx' = tx \/ \E s \in Sessions : Same(s) /\ tx'[s] \in Txs)
  BY <1>1, StepsHaveEffects
<1>3. tx' \in [Sessions -> Txs]
  <2>1. tx \in [Sessions -> Txs]
    BY <1>1 DEF TypeOK, Txs
  <2>2. ASSUME NEW s \in Sessions, tx' = [tx EXCEPT ![s] = tx'[s]], tx'[s] \in Txs
        PROVE  tx' \in [Sessions -> Txs]
    BY <2>1, <2>2
  <2> QED BY <1>2, <2>1, <2>2 DEF Same
<1>4. /\ rows' \subseteq Rows
      /\ \A row, other \in rows' : SameId(row, other) => row = other
  <2>1. /\ rows \subseteq Rows
        /\ \A row, other \in rows : SameId(row, other) => row = other
    BY <1>1 DEF TypeOK, SameId
  <2>2. CASE rows' = rows
    BY <2>1, <2>2
  <2>3. ASSUME NEW s \in Sessions, CommitEffect(s)
        PROVE  <1>4
    <3>1. tx[s].pc \in Active /\ rows' = rows \cup tx[s].granted /\ tx[s].granted \subseteq Rows
      BY <1>1, <2>3, TxFields DEF CommitEffect, Active
    <3>2. \A row, other \in tx[s].granted : SameId(row, other) => row = other
      BY DEF TxInv, IdsOK, Made
    <3>3. \A row \in tx[s].granted, other \in rows : ~ SameId(row, other) /\ ~ SameId(other, row)
      BY <3>1 DEF TxInv, IdsOK, Made, SameId
    <3> QED BY <2>1, <3>1, <3>2, <3>3
  <2>4. CASE \E e \in Edits : EditWriteEffect(e)
    BY <2>4 DEF EditWriteEffect
  <2> QED BY <1>2, <2>2, <2>3, <2>4 DEF StepEffect, BeginEffect, VerifyEffect, CheckEffect, StartEffect,
            TakeEffect, GrantEffect, ConflictEffect, AbortEffect, RollbackEffect, EditReadEffect, vars
<1>5. next' \in [Tables -> Nat]
  <2>1. CASE next' = next
    BY <1>1, <2>1 DEF TypeOK
  <2>2. ASSUME NEW s \in Sessions, TakeEffect(s)
        PROVE  <1>5
    BY <1>1, <2>2, TxFields DEF TypeOK, TakeEffect
  <2> QED BY <1>2, <2>1, <2>2 DEF StepEffect, BeginEffect, VerifyEffect, CheckEffect, StartEffect, MoveEffect,
            GrantEffect, ConflictEffect, CommitEffect, AbortEffect, RollbackEffect, EditReadEffect,
            EditWriteEffect, vars
<1>6. edit' \in [Edits -> {NoEdit} \cup EditRequests]
  <2>1. edit \in [Edits -> {NoEdit} \cup EditRequests]
    BY <1>1 DEF TypeOK, EditRequests
  <2>2. CASE edit' = edit
    BY <2>1, <2>2
  <2>3. ASSUME NEW e \in Edits, edit' = [edit EXCEPT ![e] = edit'[e]], edit'[e] \in EditRequests
        PROVE  <1>6
    BY <2>1, <2>3
  <2> QED BY <1>2, <2>2, <2>3 DEF StepEffect, BeginEffect, VerifyEffect, CheckEffect, StartEffect, MoveEffect,
            TakeEffect, GrantEffect, ConflictEffect, CommitEffect, AbortEffect, RollbackEffect, EditReadEffect,
            EditWriteEffect, vars
<1>7. sent' \in [Requests -> Nat] /\ raced' \in BOOLEAN /\ faults' \in 0 .. MaxFaults
  <2>1. CASE sent' = sent /\ (faults' = faults \/ Fault) /\ raced' \in BOOLEAN
    BY <1>1, <2>1, RecordsAssumption DEF TypeOK, Fault
  <2>2. ASSUME NEW s \in Sessions, TakeEffect(s)
        PROVE  <1>7
    <3>1. tx[s].table = "notifications" => s \in Requests
      BY DEF TxInv, WorkerOK, Sessions
    <3> QED BY <1>1, <2>2, <3>1 DEF TypeOK, TakeEffect
  <2> QED BY <1>1, <1>2, <2>1, <2>2 DEF TypeOK, StepEffect, BeginEffect, VerifyEffect, CheckEffect, StartEffect,
            MoveEffect, GrantEffect, ConflictEffect, CommitEffect, AbortEffect, RollbackEffect,
            EditReadEffect, EditWriteEffect, vars
<1> QED BY <1>2, <1>3, <1>4, <1>5, <1>6, <1>7 DEF TypeOK, Txs, EditRequests, SameId

-----------------------------------------------------------------------------
(* Transactions stay in order.                                             *)

\* What a step does to one transaction.
LEMMA EffectOn ==
    ASSUME StepEffect, NEW s \in Sessions
    PROVE  \/ tx'[s] = tx[s]
           \/ s \in Requests /\ \/ \E ins \in Inserts : BeginEffect(s, ins)
                                \/ VerifyEffect(s)
                                \/ CheckEffect(s)
           \/ s \in Workers /\ StartEffect(s)
           \/ TakeEffect(s) \/ GrantEffect(s) \/ ConflictEffect(s) \/ AbortEffect(s) \/ CommitEffect(s)
<1>1. ASSUME NEW u \in Sessions, u # s, Same(u)
      PROVE  tx'[s] = tx[s]
  BY <1>1 DEF Same
<1>2. ASSUME NEW u
      PROVE  /\ \A ins \in Inserts : BeginEffect(u, ins) => Same(u)
             /\ VerifyEffect(u) \/ CheckEffect(u) \/ CommitEffect(u) => Same(u)
             /\ StartEffect(u) \/ TakeEffect(u) \/ GrantEffect(u) => Same(u)
             /\ ConflictEffect(u) \/ AbortEffect(u) => Same(u)
  BY DEF BeginEffect, VerifyEffect, CheckEffect, StartEffect, MoveEffect, TakeEffect, GrantEffect,
         ConflictEffect, CommitEffect, AbortEffect, RollbackEffect
<1>3. CASE (\E e \in Edits : EditReadEffect(e) \/ EditWriteEffect(e)) \/ UNCHANGED vars
  BY <1>3 DEF EditReadEffect, EditWriteEffect, vars
<1>4. CASE \E r \in Requests :
              (\E ins \in Inserts : BeginEffect(r, ins)) \/ VerifyEffect(r) \/ CheckEffect(r)
  BY <1>1, <1>2, <1>4 DEF Sessions
<1>5. CASE \E w \in Workers : StartEffect(w)
  BY <1>1, <1>2, <1>5 DEF Sessions
<1>6. CASE \E u \in Sessions :
              TakeEffect(u) \/ GrantEffect(u) \/ ConflictEffect(u) \/ CommitEffect(u) \/ AbortEffect(u)
  BY <1>1, <1>2, <1>6
<1>7. QED
  BY <1>3, <1>4, <1>5, <1>6 DEF StepEffect

\* A transaction that is over stays as it is.
LEMMA OverIsOver ==
    ASSUME StepEffect, NEW s \in Sessions, tx[s].pc \in Over
    PROVE  tx'[s] = tx[s]
BY EffectOn DEF BeginEffect, VerifyEffect, CheckEffect, StartEffect, TakeEffect, GrantEffect, ConflictEffect,
                AbortEffect, RollbackEffect, CommitEffect, NoTx, Over, Active

LEMMA InsertedIsNat ==
    ASSUME NEW s \in Sessions, TxOK(s)
    PROVE  Inserted(s) \in Nat
BY FS_CardinalityType DEF TxOK, GrantedOK, Inserted

\* The row that enters is one more.
LEMMA GrantCounts ==
    ASSUME TxInv, NEW s \in Sessions, GrantEffect(s)
    PROVE  Inserted(s)' = Inserted(s) + 1 /\ IsFiniteSet(tx'[s].granted) /\ Inserted(s) \in Nat
<1>1. PICK row \in tx[s].entering : tx[s].entering = {row}
  BY DEF TxInv, TxOK, EnteringOK, GrantEffect
<1>2. row \notin tx[s].granted /\ IsFiniteSet(tx[s].granted)
  BY DEF TxInv, IdsOK, TxOK, GrantedOK
<1> QED BY <1>1, <1>2, FS_AddElement, FS_CardinalityType DEF GrantEffect, Inserted

LEMMA TxOKPreserved ==
    ASSUME TxInv, TypeOK', StepEffect, NEW s \in Sessions
    PROVE  TxOK(s)'
<1>1. TxOK(s) /\ tx'[s].asks \in Seq(SUBSET Keys) /\ tx[s].asks \in Seq(SUBSET Keys)
  BY TxFields DEF TxInv, TypeOK
<1>2. CASE tx'[s] = tx[s]
  BY <1>1, <1>2 DEF TxOK, GrantedOK, EnteringOK, Inserted
<1>3. ASSUME tx'[s].granted = {}, tx'[s].entering = {}, tx'[s].pc \notin {"none", "index", "created"}
      PROVE  TxOK(s)'
  <2>1. IsFiniteSet({}) /\ Cardinality({}) = 0
    BY FS_EmptySet
  <2>2. Inserted(s)' = 0 /\ Len(tx'[s].asks) \in Nat
    BY <2>1, <1>1, <1>3 DEF Inserted
  <2> QED BY <2>1, <2>2, <1>3 DEF TxOK, GrantedOK, EnteringOK
<1>4. CASE (\E ins \in Inserts : BeginEffect(s, ins)) \/ StartEffect(s)
  <2>1. tx'[s].granted = {} /\ tx'[s].entering = {} /\ tx'[s].pc \notin {"none", "index", "created"}
    BY <1>4 DEF BeginEffect, StartEffect
  <2> QED BY <1>3, <2>1
<1>5. CASE VerifyEffect(s) \/ CheckEffect(s)
  <2>1. /\ tx'[s].granted = {} /\ tx'[s].entering = {}
        /\ tx'[s].pc \in {"check", "insert", "refused", "notfound"}
    BY <1>1, <1>5 DEF VerifyEffect, CheckEffect, MoveEffect, TxOK, EnteringOK
  <2> QED BY <1>3, <2>1
<1>6. CASE TakeEffect(s)
  <2>1. /\ tx'[s].pc = "index" /\ tx'[s].granted = tx[s].granted /\ tx'[s].asks = tx[s].asks
        /\ tx'[s].entering = {NewRow(s)} /\ NewRow(s).keys = tx[s].asks[Inserted(s) + 1]
        /\ Inserted(s)' = Inserted(s) /\ Inserted(s) < Len(tx[s].asks)
    BY <1>6 DEF TakeEffect, Kept, NewRow, Inserted
  <2>2. GrantedOK(s)'
    BY <1>1, <2>1 DEF TxOK, GrantedOK
  <2>3. EnteringOK(s)'
    BY <2>1 DEF EnteringOK
  <2> QED BY <2>1, <2>2, <2>3 DEF TxOK
<1>7. CASE GrantEffect(s)
  <2>1. /\ tx'[s].pc = "insert" /\ tx[s].pc = "index" /\ tx'[s].asks = tx[s].asks /\ tx'[s].entering = {}
        /\ tx'[s].granted = tx[s].granted \cup tx[s].entering
    BY <1>7 DEF GrantEffect, Kept
  <2>2. PICK row \in tx[s].entering : tx[s].entering = {row} /\ row.keys = tx[s].asks[Inserted(s) + 1]
    BY <1>1, <2>1 DEF TxOK, EnteringOK
  <2>3. Inserted(s)' = Inserted(s) + 1 /\ IsFiniteSet(tx'[s].granted) /\ Inserted(s) \in Nat
    BY <1>7, GrantCounts
  <2>4. Inserted(s) < Len(tx[s].asks) /\ Len(tx[s].asks) \in Nat
    BY <1>1, <2>1 DEF TxOK, EnteringOK
  <2>5. \A i \in 1 .. Inserted(s)' : \E r \in tx'[s].granted : r.keys = tx'[s].asks[i]
    BY <1>1, <2>1, <2>2, <2>3 DEF TxOK, GrantedOK
  <2>6. \A r \in tx'[s].granted : \E i \in 1 .. Inserted(s)' : r.keys = tx'[s].asks[i]
    BY <1>1, <2>1, <2>2, <2>3 DEF TxOK, GrantedOK
  <2> QED BY <2>1, <2>3, <2>4, <2>5, <2>6 DEF TxOK, GrantedOK, EnteringOK
<1>8. CASE ConflictEffect(s) \/ AbortEffect(s)
  <2>1. tx'[s].granted = {} /\ tx'[s].entering = {} /\ tx'[s].pc \in {"conflict", "failed"}
    BY <1>8 DEF ConflictEffect, AbortEffect, RollbackEffect
  <2> QED BY <1>3, <2>1
<1>9. CASE CommitEffect(s)
  BY <1>1, <1>9 DEF CommitEffect, MoveEffect, Kept, TxOK, GrantedOK, EnteringOK, Inserted
<1> QED BY <1>2, <1>4, <1>5, <1>6, <1>7, <1>8, <1>9, EffectOn

LEMMA ServingStays ==
    ASSUME StepEffect, Serving
    PROVE  Serving'
BY OverIsOver DEF Serving, Sessions

LEMMA WorkerOKPreserved ==
    ASSUME TxInv, StepEffect, NEW w \in Workers
    PROVE  WorkerOK(w)'
<1>1. WorkerOK(w) /\ w \in Sessions /\ w \notin Requests
  BY RecordsAssumption DEF TxInv, Sessions
<1>2. CASE tx'[w] = tx[w]
  BY <1>1, <1>2 DEF WorkerOK
<1>3. CASE StartEffect(w)
  BY <1>3 DEF StartEffect, WorkerOK
<1>4. CASE TakeEffect(w) \/ GrantEffect(w) \/ ConflictEffect(w) \/ AbortEffect(w) \/ CommitEffect(w)
  <2>1. /\ tx[w].pc \in Active
        /\ tx'[w].table = tx[w].table /\ tx'[w].asks = tx[w].asks
        /\ tx'[w].pc \in {"index", "insert", "conflict", "failed", "created"}
    BY <1>4 DEF TakeEffect, GrantEffect, ConflictEffect, AbortEffect, RollbackEffect, CommitEffect,
                MoveEffect, Kept, Active
  <2> QED BY <1>1, <2>1 DEF WorkerOK, Active
<1> QED BY <1>1, <1>2, <1>3, <1>4, EffectOn

LEMMA RequestOKPreserved ==
    ASSUME TxInv, StepEffect, NEW r \in Requests
    PROVE  RequestOK(r)'
<1>1. RequestOK(r) /\ r \in Sessions /\ r \notin Workers
  BY RecordsAssumption DEF TxInv, Sessions
<1>2. Serving => Serving'
  BY ServingStays
<1>3. CASE tx'[r] = tx[r]
  BY <1>1, <1>2, <1>3 DEF RequestOK
<1>4. ASSUME NEW ins \in Inserts, BeginEffect(r, ins)
      PROVE  RequestOK(r)'
  <2>1. ins.rows # <<>> /\ (Len(ins.rows) > 1 => \A i \in DOMAIN ins.rows : ins.rows[i] = {})
    BY RecordsAssumption
  <2> QED BY <1>2, <1>4, <2>1 DEF RequestOK, BeginEffect
<1>5. CASE \/ VerifyEffect(r) \/ CheckEffect(r) \/ TakeEffect(r) \/ GrantEffect(r)
           \/ ConflictEffect(r) \/ AbortEffect(r) \/ CommitEffect(r)
  <2>1. tx[r].pc # "none" /\ tx'[r].table = tx[r].table /\ tx'[r].asks = tx[r].asks
    BY <1>5 DEF VerifyEffect, CheckEffect, TakeEffect, GrantEffect, ConflictEffect, AbortEffect,
                RollbackEffect, CommitEffect, MoveEffect, Kept, Active
  <2> QED BY <1>1, <1>2, <2>1 DEF RequestOK
<1> QED BY <1>1, <1>3, <1>4, <1>5, EffectOn

-----------------------------------------------------------------------------
(* Ids are taken once.                                                     *)

\* A step that makes no row, and adds none to the table, keeps the ids apart.
LEMMA IdsKept ==
    ASSUME IdsOK, NEW s \in Sessions, Same(s), next' = next, rows' = rows,
           tx'[s].table = tx[s].table \/ tx'[s].granted \cup tx'[s].entering = {},
           tx'[s].granted \cup tx'[s].entering \subseteq Made(s),
           tx'[s].granted \cap tx'[s].entering = {},
           tx'[s].pc \in Active => tx[s].pc \in Active \/ tx'[s].granted \cup tx'[s].entering = {}
    PROVE  IdsOK'
<1>1. \A u \in Sessions : /\ Made(u)' \subseteq Made(u)
                          /\ tx'[u].table = tx[u].table \/ Made(u)' = {}
                          /\ tx'[u].pc \in Active => tx[u].pc \in Active \/ Made(u)' = {}
  BY DEF Same, Made
<1>2. \A u \in Sessions : tx'[u].granted \cap tx'[u].entering = {}
  BY DEF Same, IdsOK
<1> QED BY <1>1, <1>2 DEF IdsOK

\* An INSERT takes an id that no row has.
LEMMA IdsTaken ==
    ASSUME TxInv, NEW s \in Sessions, TakeEffect(s)
    PROVE  IdsOK'
<1> PICK t \in Tables : t = tx[s].table
  BY TxFields DEF TxInv
<1> PICK new \in Rows : new = NewRow(s)
  BY DEF TakeEffect
<1>1. /\ Same(s) /\ rows' = rows /\ tx[s].pc \in Active /\ tx'[s].pc \in Active
      /\ tx'[s].table = t /\ tx'[s].granted = tx[s].granted /\ tx'[s].entering = {new}
      /\ next' = [next EXCEPT ![t] = @ + 1]
  BY DEF TakeEffect, Kept, Active
<1>2. new.table = t /\ new.id = next[t]
  BY DEF NewRow
<1>3. next \in [Tables -> Nat] /\ rows \subseteq Rows /\ \A u \in Sessions : Made(u) \subseteq Rows
  BY TxFields DEF TxInv, TypeOK, Made
<1>4. next'[t] = next[t] + 1 /\ \A x \in Tables \ {t} : next'[x] = next[x]
  BY <1>1, <1>3
<1>5. \A row \in Rows : row.table \in Tables /\ row.id \in Nat
  BY DEF Rows
<1>6. \A row \in Rows : row.id < next[row.table] => row.id < next'[row.table] /\ ~ SameId(row, new)
  BY <1>2, <1>3, <1>4, <1>5 DEF SameId
<1>7. /\ Made(s)' \subseteq Made(s) \cup {new}
      /\ \A u \in Sessions \ {s} : tx'[u] = tx[u] /\ Made(u)' = Made(u)
  BY <1>1 DEF Made, Same
<1>8. \A row \in rows : row.id < next'[row.table] /\ ~ SameId(new, row)
  BY <1>3, <1>6 DEF TxInv, IdsOK, SameId
<1>9. \A u \in Sessions : \A row \in Made(u) :
          row \in Rows /\ row.id < next'[row.table] /\ ~ SameId(row, new) /\ ~ SameId(new, row)
  BY <1>3, <1>6 DEF TxInv, IdsOK, SameId
<1>10. new.id < next'[new.table]
  BY <1>2, <1>3, <1>4
<1>11. \A u \in Sessions : \A row \in Made(u)' : row.table = tx'[u].table /\ row.id < next'[row.table]
  BY <1>1, <1>2, <1>7, <1>9, <1>10 DEF TxInv, IdsOK
<1>12. \A u \in Sessions : \A row, other \in Made(u)' : SameId(row, other) => row = other
  BY <1>7, <1>9 DEF TxInv, IdsOK
<1>13. \A u \in Sessions : tx'[u].granted \cap tx'[u].entering = {}
  <2>1. new \notin tx[s].granted
    BY <1>9 DEF Made, SameId
  <2> QED BY <1>1, <1>7, <2>1 DEF TxInv, IdsOK
<1>14. \A u \in Sessions : tx'[u].pc \in Active => \A row \in Made(u)', other \in rows : ~ SameId(row, other)
  BY <1>1, <1>7, <1>8 DEF TxInv, IdsOK
<1>15. \A u, v \in Sessions : u # v => \A row \in Made(u)', other \in Made(v)' : ~ SameId(row, other)
  BY <1>7, <1>9 DEF TxInv, IdsOK
<1> QED BY <1>1, <1>8, <1>11, <1>12, <1>13, <1>14, <1>15 DEF IdsOK

LEMMA IdsPreserved ==
    ASSUME TxInv, StepEffect
    PROVE  IdsOK'
<1>1. CASE tx' = tx /\ rows' = rows /\ next' = next
  BY <1>1 DEF TxInv, IdsOK, Made
<1>2. ASSUME NEW r \in Sessions,
             \/ (\E ins \in Inserts : BeginEffect(r, ins)) \/ VerifyEffect(r) \/ CheckEffect(r)
             \/ StartEffect(r) \/ GrantEffect(r) \/ ConflictEffect(r) \/ AbortEffect(r)
      PROVE  IdsOK'
  <2>1. CASE (\E ins \in Inserts : BeginEffect(r, ins)) \/ StartEffect(r)
    BY <2>1, IdsKept DEF BeginEffect, StartEffect, TxInv
  <2>2. CASE VerifyEffect(r) \/ CheckEffect(r)
    <3>1. tx[r].pc \in Active /\ tx[r].granted \cap tx[r].entering = {}
      BY <2>2 DEF VerifyEffect, CheckEffect, Active, TxInv, IdsOK
    <3> QED BY <2>2, <3>1, IdsKept DEF VerifyEffect, CheckEffect, MoveEffect, Kept, TxInv, Made
  <2>3. CASE GrantEffect(r)
    BY <2>3, IdsKept DEF GrantEffect, Kept, TxInv, Made, Active
  <2>4. CASE ConflictEffect(r) \/ AbortEffect(r)
    BY <2>4, IdsKept DEF ConflictEffect, AbortEffect, RollbackEffect, Kept, TxInv
  <2> QED BY <1>2, <2>1, <2>2, <2>3, <2>4
<1>3. ASSUME NEW s \in Sessions, CommitEffect(s)
      PROVE  IdsOK'
  <2>1. /\ Same(s) /\ tx'[s].pc = "created" /\ tx[s].pc \in Active /\ next' = next
        /\ rows' = rows \cup tx[s].granted
        /\ tx'[s].table = tx[s].table /\ tx'[s].granted = tx[s].granted /\ tx'[s].entering = tx[s].entering
    BY <1>3 DEF CommitEffect, MoveEffect, Kept, Active
  <2>2. \A u \in Sessions : Made(u)' = Made(u) /\ tx'[u].table = tx[u].table
    BY <2>1 DEF Made, Same
  <2>3. \A u \in Sessions : tx'[u].granted \cap tx'[u].entering = {}
    BY <2>1 DEF Same, TxInv, IdsOK
  <2>4. \A row \in rows' : row.id < next'[row.table]
    BY <2>1 DEF TxInv, IdsOK, Made
  <2>5. ASSUME NEW u \in Sessions, tx'[u].pc \in Active, NEW row \in Made(u), NEW other \in rows'
        PROVE  ~ SameId(row, other)
    <3>1. u # s /\ tx[u].pc \in Active
      BY <2>1, <2>5 DEF Same, Active
    <3> QED BY <2>1, <2>5, <3>1 DEF TxInv, IdsOK, Made
  <2> QED BY <2>1, <2>2, <2>3, <2>4, <2>5 DEF TxInv, IdsOK
<1>4. ASSUME NEW e \in Edits, EditWriteEffect(e)
      PROVE  IdsOK'
  <2>1. tx' = tx /\ next' = next /\ \A row \in rows' : \E other \in rows : SameId(row, other)
    BY <1>4 DEF EditWriteEffect
  <2>2. \A row \in rows' : row.id < next'[row.table]
    BY <2>1 DEF TxInv, IdsOK, SameId
  <2>3. \A u \in Sessions : tx[u].pc \in Active => \A row \in Made(u) : \A other \in rows' : ~ SameId(row, other)
    BY <2>1 DEF TxInv, IdsOK, SameId
  <2> QED BY <2>1, <2>2, <2>3 DEF TxInv, IdsOK, Made
<1> QED BY <1>1, <1>2, <1>3, <1>4, IdsTaken DEF StepEffect, EditReadEffect, vars, Sessions

LEMMA TxPreserved ==
    ASSUME TxInv, [Next]_vars
    PROVE  TxInv'
<1>1. TypeOK' /\ StepEffect
  BY TypePreserved
<1>2. ASSUME NEW e \in Edits
      PROVE  EditOK(e)'
  <2>1. EditOK(e)
    BY DEF TxInv
  <2>2. \/ edit'[e] = edit[e]
        \/ EditReadEffect(e)
        \/ EditWriteEffect(e)
    BY <1>1 DEF StepEffect, BeginEffect, VerifyEffect, CheckEffect, StartEffect, MoveEffect, TakeEffect, GrantEffect,
         ConflictEffect, CommitEffect, AbortEffect, RollbackEffect, EditReadEffect, EditWriteEffect, vars
  <2>3. EditWriteEffect(e) => edit[e] # NoEdit
    BY DEF EditWriteEffect, NoEdit
  <2> QED BY <2>1, <2>2, <2>3 DEF EditOK, EditReadEffect, EditWriteEffect
<1> QED BY <1>1, <1>2, TxOKPreserved, WorkerOKPreserved, RequestOKPreserved, IdsPreserved DEF TxInv

LEMMA TxAtInit ==
    ASSUME Init
    PROVE  TxInv
<1>1. /\ NoTx \in Txs /\ NoTx.pc = "none" /\ NoTx.table = "products" /\ NoTx.asks = <<>>
      /\ NoTx.granted = {} /\ NoTx.entering = {}
  BY NoTxIsTx DEF NoTx
<1>2. IsFiniteSet({}) /\ Cardinality({}) = 0
  BY FS_EmptySet
<1>3. \A s \in Sessions : tx[s] = NoTx
  BY DEF Init
<1>4. tx \in [Sessions -> Txs]
  BY <1>1 DEF Init
<1>5. TypeOK
  <2>1. edit \in [Edits -> {NoEdit}] /\ next \in [Tables -> Nat] /\ sent \in [Requests -> Nat]
    BY DEF Init
  <2>2. rows = {} /\ raced \in BOOLEAN /\ faults \in 0 .. MaxFaults
    <3>1. MaxFaults \in Nat
      BY RecordsAssumption
    <3>2. rows = {} /\ raced \in BOOLEAN
      BY DEF Init
    <3>3. faults = 0
      BY DEF Init
    <3>4. faults \in 0 .. MaxFaults
      BY <3>1, <3>3
    <3> QED BY <3>2, <3>4
  <2> QED BY <1>4, <2>1, <2>2 DEF TypeOK, Txs
<1>6. ASSUME NEW s \in Sessions
      PROVE  TxOK(s) /\ Made(s) = {}
  <2>1. tx[s] = NoTx
    BY <1>3
  <2>2. /\ tx[s].pc = "none" /\ tx[s].asks = <<>> /\ tx[s].granted = {} /\ tx[s].entering = {}
    BY <1>1, <2>1
  <2>3. Inserted(s) = 0 /\ Len(tx[s].asks) = 0
    BY <1>2, <2>2 DEF Inserted
  <2> QED BY <1>2, <2>1, <2>2, <2>3 DEF TxOK, GrantedOK, EnteringOK, Made
<1>7. \A w \in Workers : WorkerOK(w)
  BY <1>1, <1>3 DEF WorkerOK, Sessions
<1>8. \A r \in Requests : RequestOK(r)
  <2>1. Len(<<>>) = 0
    OBVIOUS
  <2> QED BY <1>1, <1>3, <2>1 DEF RequestOK, Sessions
<1>9. rows = {} /\ \A e \in Edits : edit[e] = NoEdit
  BY DEF Init
<1>10. IdsOK
  <2>1. \A s \in Sessions : tx[s].granted = {} /\ tx[s].entering = {}
    BY <1>1, <1>3
  <2> QED BY <1>6, <1>9, <2>1 DEF IdsOK
<1> QED BY <1>5, <1>6, <1>7, <1>8, <1>9, <1>10 DEF TxInv, EditOK

\* What is in the making is what was asked for, under an id of its own
\* (the POST handlers, and the seeding of product main.py:31-51).
THEOREM TransactionsInOrder == Spec => []TxInv
<1> QED BY TxAtInit, TxPreserved, PTL DEF Spec

\* Every variable keeps its type, for any requests, workers and edits
\* (TypeOK; the rows of one table have different ids).
THEOREM TypeCorrect == Spec => []TypeOK
<1>1. TxInv => TypeOK
  BY DEF TxInv
<1> QED BY <1>1, TransactionsInOrder, PTL

-----------------------------------------------------------------------------
(* Keys are given once.                                                    *)

LEMMA ConflictIsSymmetric ==
    ASSUME NEW row, NEW other, Conflict(row, other)
    PROVE  Conflict(other, row)
BY DEF Conflict

\* No transaction is its own rival: the samples share no key, and a request
\* with several rows asks for none.
LEMMA OwnRowsAgree ==
    ASSUME TxInv, NEW s \in Sessions, tx[s].pc = "index",
           NEW row \in tx[s].entering, NEW other \in tx[s].granted
    PROVE  ~ Conflict(row, other)
<1>1. TxOK(s) /\ Inserted(s) \in Nat /\ tx[s].asks \in Seq(SUBSET Keys)
  BY InsertedIsNat, TxFields DEF TxInv
<1>2. Inserted(s) < Len(tx[s].asks) /\ row.keys = tx[s].asks[Inserted(s) + 1]
  BY <1>1 DEF TxOK, EnteringOK
<1>3. PICK i \in 1 .. Inserted(s) : other.keys = tx[s].asks[i]
  BY <1>1 DEF TxOK, GrantedOK
<1>4. /\ i \in DOMAIN tx[s].asks /\ Inserted(s) + 1 \in DOMAIN tx[s].asks /\ i # Inserted(s) + 1
      /\ Len(tx[s].asks) > 1
  BY <1>1, <1>2, <1>3
<1>5. CASE s \in Workers
  <2>1. tx[s].asks = Samples
    BY <1>5 DEF TxInv, WorkerOK
  <2>2. Samples[Inserted(s) + 1] \cap Samples[i] = {}
    BY <1>4, <2>1, RecordsAssumption
  <2> QED BY <1>2, <1>3, <2>1, <2>2 DEF Conflict
<1>6. CASE s \in Requests
  <2>1. row.keys = {}
    BY <1>2, <1>4, <1>6 DEF TxInv, RequestOK
  <2> QED BY <2>1 DEF Conflict
<1> QED BY <1>5, <1>6 DEF Sessions

LEMMA KeysAreUniquePreserved ==
    ASSUME TxInv, KeysInv, StepEffect
    PROVE  KeysAreUnique'
<1>1. CASE rows' = rows
  BY <1>1 DEF KeysInv, KeysAreUnique
<1>2. ASSUME NEW s \in Sessions, CommitEffect(s)
      PROVE  KeysAreUnique'
  <2>1. rows' = rows \cup tx[s].granted /\ tx[s].pc \in Active
    BY <1>2 DEF CommitEffect, Active
  <2>2. \A row \in tx[s].granted : /\ \A other \in rows : ~ Conflict(row, other)
                                   /\ \A other \in tx[s].granted : Conflict(row, other) => row = other
    BY <2>1 DEF KeysInv, RivalsWait
  <2> QED BY <2>1, <2>2, ConflictIsSymmetric DEF KeysInv, KeysAreUnique
<1>3. ASSUME NEW e \in Edits, EditWriteEffect(e)
      PROVE  KeysAreUnique'
  <2>1. ASSUME NEW row \in rows', NEW other \in rows', Conflict(row, other)
        PROVE  row = other
    <3>1. PICK r \in rows : SameId(row, r) /\ row.keys = r.keys
      BY <1>3 DEF EditWriteEffect
    <3>2. PICK o \in rows : SameId(other, o) /\ other.keys = o.keys
      BY <1>3 DEF EditWriteEffect
    <3>3. r = o
      BY <2>1, <3>1, <3>2 DEF Conflict, SameId, KeysInv, KeysAreUnique
    <3>4. SameId(row, other)
      BY <3>1, <3>2, <3>3 DEF SameId
    <3> QED BY <1>3, <3>4 DEF EditWriteEffect
  <2> QED BY <2>1 DEF KeysAreUnique
<1> QED BY <1>1, <1>2, <1>3 DEF StepEffect, BeginEffect, VerifyEffect, CheckEffect, StartEffect, TakeEffect,
        GrantEffect, ConflictEffect, AbortEffect, RollbackEffect, EditReadEffect, vars

\* A step that puts no row into an index leaves rivals where they were.
LEMMA RivalsKept ==
    ASSUME RivalsWait,
           \A row \in rows' : \E other \in rows : row.table = other.table /\ row.keys = other.keys,
           \A s \in Sessions : tx'[s].pc \in Active /\ tx'[s].granted # {} =>
               tx[s].pc \in Active /\ tx'[s].granted = tx[s].granted
    PROVE  RivalsWait'
<1> SUFFICES ASSUME NEW s \in Sessions, tx'[s].pc \in Active, NEW row \in tx'[s].granted
             PROVE  /\ \A other \in rows' : ~ Conflict(row, other)
                    /\ \A other \in tx'[s].granted : Conflict(row, other) => row = other
                    /\ \A u \in Sessions \ {s} : tx'[u].pc \in Active =>
                          \A other \in tx'[u].granted : ~ Conflict(row, other)
  BY DEF RivalsWait
<1>1. tx[s].pc \in Active /\ tx'[s].granted = tx[s].granted
  OBVIOUS
<1>2. \A other \in rows : ~ Conflict(row, other)
  BY <1>1 DEF RivalsWait
<1>3. \A other \in rows' : ~ Conflict(row, other)
  BY <1>2 DEF Conflict
<1>4. \A other \in tx'[s].granted : Conflict(row, other) => row = other
  BY <1>1 DEF RivalsWait
<1>5. ASSUME NEW u \in Sessions \ {s}, tx'[u].pc \in Active, NEW other \in tx'[u].granted
      PROVE  ~ Conflict(row, other)
  <2>1. tx[u].pc \in Active /\ tx'[u].granted = tx[u].granted
    BY <1>5
  <2> QED BY <1>1, <1>5, <2>1 DEF RivalsWait
<1> QED BY <1>3, <1>4, <1>5

LEMMA RivalsWaitPreserved ==
    ASSUME TxInv, KeysInv, StepEffect
    PROVE  RivalsWait'
<1>1. RivalsWait
  BY DEF KeysInv
<1>2. ASSUME NEW s \in Sessions, Same(s), rows' = rows,
             tx'[s].pc \in Active /\ tx'[s].granted # {} => tx[s].pc \in Active /\ tx'[s].granted = tx[s].granted
      PROVE  RivalsWait'
  BY <1>1, <1>2, RivalsKept DEF Same
<1>3. CASE tx' = tx /\ rows' = rows
  BY <1>1, <1>3, RivalsKept
<1>4. ASSUME NEW s \in Sessions,
             \/ (\E ins \in Inserts : BeginEffect(s, ins)) \/ VerifyEffect(s) \/ CheckEffect(s)
             \/ StartEffect(s) \/ TakeEffect(s) \/ ConflictEffect(s) \/ AbortEffect(s)
      PROVE  RivalsWait'
  BY <1>2, <1>4 DEF BeginEffect, VerifyEffect, CheckEffect, StartEffect, MoveEffect, TakeEffect,
                    ConflictEffect, AbortEffect, RollbackEffect, Active
<1>5. ASSUME NEW s \in Sessions, GrantEffect(s)
      PROVE  RivalsWait'
  <2>1. PICK new \in tx[s].entering : tx[s].entering = {new}
    BY <1>5 DEF GrantEffect, TxInv, TxOK, EnteringOK
  <2>2. /\ rows' = rows /\ tx[s].pc \in Active /\ tx'[s].granted = tx[s].granted \cup {new}
        /\ \A u \in Sessions \ {s} : tx'[u] = tx[u]
    BY <1>5, <2>1 DEF GrantEffect, Same, Active
  <2>3. \A u \in Sessions \ {s} : tx[u].pc \in Active =>
            \A other \in tx[u].granted : ~ Conflict(new, other) /\ ~ Conflict(other, new)
    BY <1>5, <2>1, ConflictIsSymmetric DEF GrantEffect, WaitsFor
  <2>4. \A other \in rows \cup tx[s].granted : ~ Conflict(new, other) /\ ~ Conflict(other, new)
    BY <1>5, <2>1, ConflictIsSymmetric DEF GrantEffect
  <2> QED BY <1>1, <2>2, <2>3, <2>4 DEF RivalsWait
<1>6. ASSUME NEW s \in Sessions, CommitEffect(s)
      PROVE  RivalsWait'
  <2>1. /\ rows' = rows \cup tx[s].granted /\ tx[s].pc \in Active /\ tx'[s].pc \notin Active
        /\ \A u \in Sessions \ {s} : tx'[u] = tx[u]
    BY <1>6 DEF CommitEffect, MoveEffect, Same, Active
  <2> QED BY <1>1, <2>1, ConflictIsSymmetric DEF RivalsWait
<1>7. ASSUME NEW e \in Edits, EditWriteEffect(e)
      PROVE  RivalsWait'
  <2>1. tx' = tx /\ \A row \in rows' : \E other \in rows : row.table = other.table /\ row.keys = other.keys
    BY <1>7 DEF EditWriteEffect, SameId
  <2> QED BY <1>1, <2>1, RivalsKept
<1> QED BY <1>3, <1>4, <1>5, <1>6, <1>7 DEF StepEffect, EditReadEffect, vars, Sessions

LEMMA RowsWereAskedPreserved ==
    ASSUME TxInv, KeysInv, StepEffect
    PROVE  RowsWereAsked'
<1>1. \A u \in Sessions : tx[u].pc = "created" => tx'[u] = tx[u]
  BY OverIsOver DEF Over
<1>2. ASSUME NEW row, NEW other \in rows, row.table = other.table, row.keys = other.keys
      PROVE  \E u \in Sessions : /\ tx'[u].pc = "created" /\ tx'[u].table = row.table
                                 /\ \E i \in DOMAIN tx'[u].asks : row.keys = tx'[u].asks[i]
  <2>1. PICK u \in Sessions : /\ tx[u].pc = "created" /\ tx[u].table = other.table
                              /\ \E i \in DOMAIN tx[u].asks : other.keys = tx[u].asks[i]
    BY DEF KeysInv, RowsWereAsked
  <2> QED BY <1>1, <1>2, <2>1
<1>3. CASE \A row \in rows' : \E other \in rows : row.table = other.table /\ row.keys = other.keys
  BY <1>2, <1>3 DEF RowsWereAsked
<1>4. ASSUME NEW s \in Sessions, CommitEffect(s)
      PROVE  RowsWereAsked'
  <2>1. /\ rows' = rows \cup tx[s].granted /\ tx'[s].pc = "created"
        /\ tx'[s].table = tx[s].table /\ tx'[s].asks = tx[s].asks
        /\ Inserted(s) = Len(tx[s].asks)
    BY <1>4 DEF CommitEffect, MoveEffect, Kept
  <2>2. \A row \in tx[s].granted : row.table = tx[s].table /\ \E i \in 1 .. Inserted(s) : row.keys = tx[s].asks[i]
    BY DEF TxInv, TxOK, GrantedOK, IdsOK, Made
  <2>3. tx[s].asks \in Seq(SUBSET Keys)
    BY TxFields DEF TxInv
  <2>4. ASSUME NEW row \in tx[s].granted
        PROVE  \E i \in DOMAIN tx'[s].asks : row.keys = tx'[s].asks[i]
    BY <2>1, <2>2, <2>3
  <2> QED BY <1>2, <2>1, <2>2, <2>4 DEF RowsWereAsked
<1>5. ASSUME NEW e \in Edits, EditWriteEffect(e)
      PROVE  \A row \in rows' : \E other \in rows : row.table = other.table /\ row.keys = other.keys
  BY <1>5 DEF EditWriteEffect, SameId
<1> QED BY <1>3, <1>4, <1>5 DEF StepEffect, BeginEffect, VerifyEffect, CheckEffect, StartEffect, TakeEffect,
        GrantEffect, ConflictEffect, AbortEffect, RollbackEffect, EditReadEffect, vars

\* The row that stands in the way was asked for by a transaction that got it.
LEMMA RowHasAnOwner ==
    ASSUME TxInv, RowsWereAsked, StepEffect, NEW s \in Sessions, NEW row \in rows,
           row.table = tx'[s].table, NEW i \in DOMAIN tx'[s].asks, row.keys \cap tx'[s].asks[i] # {}
    PROVE  \E u \in Sessions : /\ tx'[u].pc = "created" /\ tx'[u].table = tx'[s].table
                               /\ KeysOf(u)' \cap KeysOf(s)' # {}
<1>1. PICK u \in Sessions : /\ tx[u].pc = "created" /\ tx[u].table = row.table
                            /\ \E j \in DOMAIN tx[u].asks : row.keys = tx[u].asks[j]
  BY DEF RowsWereAsked
<1>2. tx'[u] = tx[u]
  BY <1>1, OverIsOver DEF Over
<1>3. PICK j \in DOMAIN tx'[u].asks : row.keys = tx'[u].asks[j]
  BY <1>1, <1>2
<1>4. row.keys \subseteq KeysOf(u)' /\ tx'[s].asks[i] \subseteq KeysOf(s)'
  BY <1>3 DEF KeysOf
<1> QED BY <1>1, <1>2, <1>4

LEMMA LosersPreserved ==
    ASSUME TxInv, KeysInv, StepEffect
    PROVE  LosersHaveARival'
<1> SUFFICES ASSUME NEW s \in Sessions, tx'[s].pc \in {"refused", "conflict"}
             PROVE  \E u \in Sessions : /\ tx'[u].pc = "created" /\ tx'[u].table = tx'[s].table
                                        /\ KeysOf(u)' \cap KeysOf(s)' # {}
  BY DEF LosersHaveARival
<1>1. TxOK(s) /\ RowsWereAsked /\ tx[s].asks \in Seq(SUBSET Keys) /\ Inserted(s) \in Nat
  BY TxFields, InsertedIsNat DEF TxInv, KeysInv
<1>2. CASE tx'[s] = tx[s]
  <2>1. PICK u \in Sessions : tx[u].pc = "created" /\ tx[u].table = tx[s].table /\ KeysOf(u) \cap KeysOf(s) # {}
    BY <1>2 DEF KeysInv, LosersHaveARival
  <2>2. tx'[u] = tx[u]
    BY <2>1, OverIsOver DEF Over
  <2>3. KeysOf(u)' = KeysOf(u) /\ KeysOf(s)' = KeysOf(s)
    BY <1>2, <2>2 DEF KeysOf
  <2> QED BY <1>2, <2>1, <2>2, <2>3
<1>3. CASE s \in Requests /\ CheckEffect(s)
  <2>1. /\ tx'[s].asks = tx[s].asks /\ tx'[s].table = tx[s].table /\ tx[s].pc = "check"
        /\ \E row \in InTable(tx[s].table) : row.keys \cap Head(tx[s].asks) # {}
    BY <1>3 DEF CheckEffect, MoveEffect, Kept
  <2>2. PICK row \in rows : row.table = tx[s].table /\ row.keys \cap Head(tx[s].asks) # {}
    BY <2>1 DEF InTable
  <2>3. tx[s].asks # <<>>
    BY <1>3, <2>1 DEF TxInv, RequestOK
  <2>4. 1 \in DOMAIN tx[s].asks /\ Head(tx[s].asks) = tx[s].asks[1]
    BY <1>1, <2>3
  <2> QED BY <1>1, <2>1, <2>2, <2>4, RowHasAnOwner
<1>4. CASE ConflictEffect(s)
  <2>1. /\ tx'[s].asks = tx[s].asks /\ tx'[s].table = tx[s].table /\ tx[s].pc = "index"
        /\ \E row \in tx[s].entering, other \in rows \cup tx[s].granted : Conflict(row, other)
    BY <1>4 DEF ConflictEffect, RollbackEffect, Kept
  <2>2. PICK row \in tx[s].entering, other \in rows : Conflict(row, other)
    BY <2>1, OwnRowsAgree
  <2>3. /\ row.keys = tx[s].asks[Inserted(s) + 1] /\ Inserted(s) < Len(tx[s].asks)
    BY <1>1, <2>1 DEF TxOK, EnteringOK
  <2>4. row.table = tx[s].table
    BY DEF TxInv, IdsOK, Made
  <2>5. Inserted(s) + 1 \in DOMAIN tx[s].asks
    BY <1>1, <2>3
  <2>6. other.table = tx'[s].table /\ other.keys \cap tx'[s].asks[Inserted(s) + 1] # {}
    BY <2>1, <2>2, <2>3, <2>4 DEF Conflict
  <2>7. PICK i \in DOMAIN tx[s].asks : i = Inserted(s) + 1
    BY <2>5
  <2> QED BY <1>1, <2>1, <2>6, <2>7, RowHasAnOwner
<1> QED BY <1>2, <1>3, <1>4, EffectOn DEF BeginEffect, VerifyEffect, StartEffect, MoveEffect, TakeEffect,
        GrantEffect, AbortEffect, RollbackEffect, CommitEffect

LEMMA KeysPreserved ==
    ASSUME TxInv, KeysInv, [Next]_vars
    PROVE  KeysInv'
<1>1. StepEffect
  BY TypePreserved
<1> QED BY <1>1, KeysAreUniquePreserved, RivalsWaitPreserved, RowsWereAskedPreserved, LosersPreserved DEF KeysInv

LEMMA KeysAtInit ==
    ASSUME Init
    PROVE  KeysInv
<1>1. rows = {} /\ \A s \in Sessions : tx[s].pc = "none"
  BY DEF Init, NoTx
<1> QED BY <1>1 DEF KeysInv, KeysAreUnique, RivalsWait, RowsWereAsked, LosersHaveARival, Active

\* Rivals wait, and rows have owners, in every reachable state
\* (db.flush and db.commit at a unique index).
THEOREM RivalsInOrder == Spec => []KeysInv
<1> QED BY KeysAtInit, KeysPreserved, TransactionsInOrder, PTL DEF Spec

\* However many requests find a key free at the same time, one row gets it
\* (KeysAreUnique; identity main.py:68-83, review main.py:65-76).
THEOREM OneRowPerKey == Spec => []KeysAreUnique
<1>1. KeysInv => KeysAreUnique
  BY DEF KeysInv
<1> QED BY <1>1, RivalsInOrder, PTL

\* A request that is refused, or fails at an index, has a rival that was given
\* one of its keys (LosersHaveARival).
THEOREM NobodyLosesToNobody == Spec => []LosersHaveARival
<1>1. KeysInv => LosersHaveARival
  BY DEF KeysInv
<1> QED BY <1>1, RivalsInOrder, PTL

-----------------------------------------------------------------------------
(* No group waits for itself.                                              *)

\* Nobody but a worker has keys in an index and a row that still has to enter.
LEMMA OnlyWorkersHoldAndWait ==
    ASSUME TxInv, NEW u \in Sessions, tx[u].pc = "index",
           NEW other \in tx[u].granted, other.keys # {}
    PROVE  u \in Workers
<1>1. TxOK(u) /\ Inserted(u) \in Nat /\ tx[u].asks \in Seq(SUBSET Keys)
  BY InsertedIsNat, TxFields DEF TxInv
<1>2. Inserted(u) < Len(tx[u].asks)
  BY <1>1 DEF TxOK, EnteringOK
<1>3. PICK i \in 1 .. Inserted(u) : other.keys = tx[u].asks[i]
  BY <1>1 DEF TxOK, GrantedOK
<1>4. Len(tx[u].asks) > 1 /\ i \in DOMAIN tx[u].asks
  BY <1>1, <1>2, <1>3
<1> QED BY <1>3, <1>4 DEF TxInv, RequestOK, Sessions

\* A worker that waits for a worker has fewer samples in.
LEMMA WaitingWorkersAreBehind ==
    ASSUME TxInv, NEW w \in Workers, NEW v \in Workers, WaitsFor(w, v), tx[w].pc = "index", tx[v].pc = "index"
    PROVE  Inserted(w) < Inserted(v)
<1>1. /\ TxOK(w) /\ TxOK(v) /\ Inserted(w) \in Nat /\ Inserted(v) \in Nat
      /\ tx[w].asks = Samples /\ tx[v].asks = Samples /\ Samples \in Seq(SUBSET Keys)
  BY InsertedIsNat, RecordsAssumption DEF TxInv, WorkerOK, Sessions
<1>2. PICK row \in tx[w].entering, other \in tx[v].granted : Conflict(row, other)
  BY DEF WaitsFor
<1>3. row.keys = Samples[Inserted(w) + 1] /\ Inserted(w) < Len(Samples)
  BY <1>1 DEF TxOK, EnteringOK
<1>4. PICK i \in 1 .. Inserted(v) : other.keys = Samples[i]
  BY <1>1 DEF TxOK, GrantedOK
<1>5. Inserted(v) < Len(Samples)
  BY <1>1 DEF TxOK, EnteringOK
<1>6. i \in DOMAIN Samples /\ Inserted(w) + 1 \in DOMAIN Samples
  BY <1>1, <1>3, <1>5
<1>7. i = Inserted(w) + 1
  <2>1. Samples[i] \cap Samples[Inserted(w) + 1] # {}
    BY <1>2, <1>3, <1>4 DEF Conflict
  <2> QED BY <1>6, <2>1, RecordsAssumption
<1> QED BY <1>1, <1>7

\* In a group that waits for itself everybody would hold and wait, so all would
\* be workers, and the one that has the most samples in waits for none.
LEMMA NoGroupWaits ==
    ASSUME TxInv
    PROVE  SomebodyMoves
<1> SUFFICES ASSUME NEW group \in (SUBSET Sessions) \ {{}},
                    \A s \in group : \E u \in group : WaitsFor(s, u)
             PROVE  FALSE
  BY DEF SomebodyMoves
<1>1. \A s \in group : tx[s].pc = "index"
  BY DEF WaitsFor, TxInv, TxOK, EnteringOK
<1>2. ASSUME NEW s \in group, NEW u \in group, WaitsFor(s, u)
      PROVE  u \in Workers
  <2>1. PICK other \in tx[u].granted : other.keys # {}
    BY <1>2 DEF WaitsFor, Conflict
  <2> QED BY <1>1, <2>1, OnlyWorkersHoldAndWait
<1> DEFINE W == group \cap Workers
           I == {Inserted(w) + 1 : w \in W}
<1>3. W # {} /\ \A w \in W : \E v \in W : WaitsFor(w, v)
  <2>1. ASSUME NEW s \in group
        PROVE  \E v \in W : WaitsFor(s, v)
    <3>1. PICK v \in group : WaitsFor(s, v)
      OBVIOUS
    <3> QED BY <1>2, <3>1
  <2>2. group # {}
    OBVIOUS
  <2> QED BY <2>1, <2>2
<1>4. Samples \in Seq(SUBSET Keys) /\ Len(Samples) \in Nat
  BY RecordsAssumption
<1>5. ASSUME NEW w \in W
      PROVE  Inserted(w) \in Nat /\ Inserted(w) < Len(Samples)
  <2>1. TxOK(w) /\ tx[w].pc = "index" /\ tx[w].asks = Samples
    BY <1>1 DEF TxInv, WorkerOK, Sessions
  <2> QED BY <2>1, InsertedIsNat DEF TxOK, EnteringOK, Sessions
<1>6. I \subseteq 1 .. Len(Samples) /\ I # {}
  <2>1. \A w \in W : Inserted(w) + 1 \in 1 .. Len(Samples)
    BY <1>4, <1>5
  <2> QED BY <1>3, <2>1
<1>7. PICK m \in I : \A i \in I : m >= i
  BY <1>4, <1>6, MaxOfBounded
<1>8. PICK w \in W : m = Inserted(w) + 1
  OBVIOUS
<1>9. PICK v \in W : WaitsFor(w, v)
  BY <1>3
<1>10. Inserted(w) < Inserted(v)
  BY <1>1, <1>9, WaitingWorkersAreBehind
<1>11. m >= Inserted(v) + 1
  BY <1>7
<1> QED BY <1>5, <1>8, <1>10, <1>11

\* However many workers seed and requests insert at the same time, one of any
\* group waits for nobody in it: there is no deadlock (SomebodyMoves).
THEOREM NoDeadlock == Spec => []SomebodyMoves
<1> QED BY NoGroupWaits, TransactionsInOrder, PTL

-----------------------------------------------------------------------------
(* What stays in the tables.                                               *)

\* Whatever a step does, a product that was there keeps its id and its keys.
LEMMA ProductsStay ==
    ASSUME TxInv, StepEffect, NEW other \in rows, other.table # "reviews"
    PROVE  \E row \in rows' : SameId(row, other) /\ row.keys = other.keys
<1>1. CASE rows \subseteq rows'
  BY <1>1 DEF SameId
<1>2. ASSUME NEW e \in Edits, EditWriteEffect(e)
      PROVE  \E row \in rows' : SameId(row, other) /\ row.keys = other.keys
  <2>1. edit[e] # NoEdit /\ edit[e].delete => edit[e].row.table = "reviews"
    BY DEF TxInv, EditOK
  <2>2. edit[e].pc = "write" /\ NoEdit.pc = "none"
    BY <1>2 DEF EditWriteEffect, NoEdit
  <2> QED BY <1>2, <2>1, <2>2 DEF EditWriteEffect, SameId
<1> QED BY <1>1, <1>2 DEF StepEffect, BeginEffect, VerifyEffect, CheckEffect, StartEffect, TakeEffect,
        GrantEffect, ConflictEffect, CommitEffect, AbortEffect, RollbackEffect, EditReadEffect, vars

LEMMA CatalogueGrows ==
    ASSUME TxInv, StepEffect
    PROVE  /\ Catalogue \subseteq Catalogue'
           /\ \A id \in Nat : (\E row \in InTable("products") : row.id = id) =>
                                 \E row \in InTable("products")' : row.id = id
           /\ InTable("products") # {} => InTable("products")' # {}
<1>1. ASSUME NEW other \in InTable("products")
      PROVE  \E row \in InTable("products")' : row.id = other.id /\ row.keys = other.keys
  <2>1. other \in rows /\ other.table = "products"
    BY DEF InTable
  <2>2. PICK row \in rows' : SameId(row, other) /\ row.keys = other.keys
    BY <2>1, ProductsStay
  <2> QED BY <2>1, <2>2 DEF InTable, SameId
<1> QED BY <1>1 DEF Catalogue

\* A row that appears in the table was granted to the transaction that commits.
LEMMA WhatAppears ==
    ASSUME StepEffect, NEW row \in rows'
    PROVE  \/ \E other \in rows : SameId(row, other) /\ row.keys = other.keys
           \/ \E s \in Sessions : CommitEffect(s) /\ row \in tx[s].granted
BY DEF StepEffect, BeginEffect, VerifyEffect, CheckEffect, StartEffect, TakeEffect, GrantEffect,
       ConflictEffect, CommitEffect, AbortEffect, RollbackEffect, EditReadEffect, EditWriteEffect, SameId, vars

\* No fault so far, so no fault in this step.
LEMMA FaultsOnlyGrow ==
    ASSUME TypeOK, StepEffect, faults' = 0
    PROVE  faults = 0 /\ ~ Fault
BY DEF TypeOK, Fault, StepEffect, BeginEffect, VerifyEffect, CheckEffect, StartEffect, TakeEffect, GrantEffect,
       ConflictEffect, CommitEffect, AbortEffect, EditReadEffect, EditWriteEffect, vars

\* A deleted review does not come back (DeletedStaysDeleted).
LEMMA NothingReappears ==
    ASSUME TxInv, [Next]_vars
    PROVE  \A row \in rows' : Stored(row) # {} \/ \E s \in Sessions : tx[s].pc \in Active /\ row \in tx[s].granted
<1>1. StepEffect
  BY TypePreserved
<1> QED BY <1>1, WhatAppears DEF Stored, SameId, CommitEffect, Active

\* Whoever has read a review before it was deleted, a row that appears is one
\* that is being inserted (DeletedStaysDeleted).
THEOREM DeletedForGood == Spec => DeletedStaysDeleted
<1>1. TxInv /\ [Next]_vars =>
        [\A row \in rows' : Stored(row) # {} \/ \E s \in Sessions : tx[s].pc \in Active /\ row \in tx[s].granted]_vars
  BY NothingReappears
<1> QED BY <1>1, TransactionsInOrder, PTL DEF Spec, DeletedStaysDeleted

-----------------------------------------------------------------------------
(* The catalogue.                                                          *)

\* A worker's INSERT only fails on a product that is there already.
LEMMA WorkersLoseToRows ==
    ASSUME TxInv, NEW w \in Workers, ConflictEffect(w)
    PROVE  InTable("products") # {}
<1>1. w \in Sessions /\ tx[w].pc = "index" /\ tx[w].table = "products"
  BY DEF ConflictEffect, TxInv, WorkerOK, Sessions
<1>2. PICK row \in tx[w].entering, other \in rows : Conflict(row, other)
  BY <1>1, OwnRowsAgree DEF ConflictEffect
<1>3. row.table = "products"
  BY <1>1 DEF TxInv, IdsOK, Made
<1> QED BY <1>2, <1>3 DEF Conflict, InTable

\* A worker that commits has all the samples in, as products.
LEMMA WorkersCommitTheSamples ==
    ASSUME TxInv, NEW w \in Workers, CommitEffect(w)
    PROVE  \A i \in DOMAIN Samples : Samples[i] \in Catalogue'
<1>1. /\ w \in Sessions /\ TxOK(w) /\ tx[w].table = "products" /\ tx[w].asks = Samples
      /\ Inserted(w) = Len(Samples) /\ rows' = rows \cup tx[w].granted /\ Samples \in Seq(SUBSET Keys)
  BY RecordsAssumption DEF CommitEffect, TxInv, WorkerOK, Sessions
<1>2. ASSUME NEW i \in DOMAIN Samples
      PROVE  Samples[i] \in Catalogue'
  <2>1. PICK row \in tx[w].granted : row.keys = Samples[i]
    BY <1>1 DEF TxOK, GrantedOK
  <2>2. row.table = "products" /\ row \in rows'
    BY <1>1 DEF TxInv, IdsOK, Made
  <2> QED BY <2>1, <2>2 DEF Catalogue, InTable
<1> QED BY <1>2

LEMMA SeedPreserved ==
    ASSUME TxInv, SeedInv, [Next]_vars
    PROVE  SeedInv'
<1>1. TypeOK' /\ StepEffect
  BY TypePreserved
<1> SUFFICES ASSUME faults' = 0, Serving' \/ InTable("products")' # {}
             PROVE  \A i \in DOMAIN Samples : Samples[i] \in Catalogue'
  BY DEF SeedInv
<1>2. faults = 0 /\ ~ Fault
  BY <1>1, FaultsOnlyGrow DEF TxInv
<1>3. CASE Serving \/ InTable("products") # {}
  BY <1>1, <1>2, <1>3, CatalogueGrows DEF SeedInv
<1>4. CASE ~ Serving /\ InTable("products") = {}
  <2>1. CASE Serving'
    <3>1. PICK w \in Workers : tx'[w].pc \in Over
      BY <2>1 DEF Serving
    <3>2. tx[w].pc \notin Over
      BY <1>4 DEF Serving
    <3>3. w \in Sessions /\ w \notin Requests
      BY RecordsAssumption DEF Sessions
    <3>4. CommitEffect(w)
      <4>1. ~ ConflictEffect(w)
        BY <1>4, WorkersLoseToRows
      <4>2. ~ AbortEffect(w)
        BY <1>2 DEF AbortEffect
      <4>3. ~ (StartEffect(w) \/ TakeEffect(w) \/ GrantEffect(w))
        BY <1>4, <3>1 DEF StartEffect, TakeEffect, GrantEffect, Over
      <4> QED BY <1>1, <3>1, <3>2, <3>3, <4>1, <4>2, <4>3, EffectOn
    <3> QED BY <3>4, WorkersCommitTheSamples
  <2>2. CASE InTable("products")' # {}
    <3>1. PICK row \in rows' : row.table = "products"
      BY <2>2 DEF InTable
    <3>2. ~ \E other \in rows : SameId(row, other)
      BY <1>4, <3>1 DEF InTable, SameId
    <3>3. PICK s \in Sessions : CommitEffect(s) /\ row \in tx[s].granted
      BY <1>1, <3>2, WhatAppears
    <3>4. tx[s].table = "products" /\ tx[s].pc # "none"
      BY <3>1, <3>3 DEF TxInv, IdsOK, Made, CommitEffect
    <3>5. s \in Workers
      BY <1>4, <3>4 DEF TxInv, RequestOK, Sessions
    <3> QED BY <3>3, <3>5, WorkersCommitTheSamples
  <2> QED BY <2>1, <2>2
<1> QED BY <1>3, <1>4

\* Once a worker serves and nothing has failed the demo catalogue is there
\* (CatalogueIsSeeded).
THEOREM CatalogueComplete == Spec => []CatalogueIsSeeded
<1>1. Init => SeedInv
  BY DEF Init, SeedInv, Serving, InTable, NoTx, Over, Sessions
<1>2. SeedInv => CatalogueIsSeeded
  BY DEF SeedInv, CatalogueIsSeeded
<1> QED BY <1>1, <1>2, SeedPreserved, TransactionsInOrder, PTL DEF Spec

-----------------------------------------------------------------------------
(* Reviews and messages.                                                   *)

LEMMA ReviewPreserved ==
    ASSUME TxInv, ReviewInv, [Next]_vars
    PROVE  ReviewInv'
<1>1. TypeOK' /\ StepEffect
  BY TypePreserved
<1> SUFFICES ASSUME faults' = 0, NEW r \in Requests, tx'[r].table = "reviews",
                    tx'[r].pc \in {"check", "insert", "index", "created"}
             PROVE  \E row \in InTable("products")' : row.id = tx'[r].about
  BY DEF ReviewInv
<1>2. faults = 0 /\ ~ Fault
  BY <1>1, FaultsOnlyGrow DEF TxInv
<1>3. r \in Sessions /\ r \notin Workers /\ tx[r].about \in Nat
  BY TxFields, RecordsAssumption DEF Sessions, TxInv
<1>4. ~ \E ins \in Inserts : BeginEffect(r, ins)
  BY DEF BeginEffect
<1>5. /\ tx'[r].about = tx[r].about
      /\ \E row \in InTable("products") : row.id = tx[r].about
  <2>1. CASE tx'[r] = tx[r]
    BY <1>2, <2>1 DEF ReviewInv
  <2>2. CASE VerifyEffect(r)
    BY <1>2, <2>2 DEF VerifyEffect, MoveEffect, Kept
  <2>3. CASE CheckEffect(r) \/ TakeEffect(r) \/ GrantEffect(r) \/ CommitEffect(r)
    <3>1. /\ tx'[r].about = tx[r].about /\ tx'[r].table = tx[r].table
          /\ tx[r].pc \in {"check", "insert", "index"}
      BY <2>3 DEF CheckEffect, TakeEffect, GrantEffect, CommitEffect, MoveEffect, Kept
    <3> QED BY <1>2, <3>1 DEF ReviewInv
  <2>4. ~ (ConflictEffect(r) \/ AbortEffect(r))
    BY <1>2 DEF ConflictEffect, AbortEffect, RollbackEffect
  <2> QED BY <1>1, <1>3, <1>4, <2>1, <2>2, <2>3, <2>4, EffectOn
<1> QED BY <1>1, <1>3, <1>5, CatalogueGrows

\* A review is of a product that the catalogue has, if the check got an answer
\* (ReviewsAreOfProducts).
THEOREM ReviewedProductsExist == Spec => []ReviewsAreOfProducts
<1>1. Init => ReviewInv
  BY DEF Init, ReviewInv, NoTx, Sessions
<1>2. ReviewInv => ReviewsAreOfProducts
  BY DEF ReviewInv, ReviewsAreOfProducts
<1> QED BY <1>1, <1>2, ReviewPreserved, TransactionsInOrder, PTL DEF Spec

\* What one step does to the messages of a request.
LEMMA MessagesOf ==
    ASSUME StepEffect, TypeOK, NEW r \in Requests
    PROVE  sent'[r] = sent[r] \/ (TakeEffect(r) /\ tx[r].table = "notifications" /\ sent'[r] = sent[r] + 1)
<1>1. ASSUME NEW s \in Sessions, TakeEffect(s)
      PROVE  sent'[r] = sent[r] \/ (TakeEffect(r) /\ tx[r].table = "notifications" /\ sent'[r] = sent[r] + 1)
  BY <1>1 DEF TakeEffect, TypeOK
<1>2. CASE sent' = sent
  BY <1>2
<1> QED BY <1>1, <1>2 DEF StepEffect, BeginEffect, VerifyEffect, CheckEffect, StartEffect, MoveEffect, GrantEffect,
       ConflictEffect, CommitEffect, AbortEffect, RollbackEffect, EditReadEffect, EditWriteEffect, vars

LEMMA MessagePreserved ==
    ASSUME TxInv, MessageInv, [Next]_vars
    PROVE  MessageInv'
<1>1. TypeOK' /\ StepEffect /\ TypeOK
  BY TypePreserved DEF TxInv
<1> SUFFICES ASSUME NEW r \in Requests
             PROVE  /\ tx'[r].pc \in {"none", "verify", "check"} => sent'[r] = 0
                    /\ tx'[r].table = "notifications" /\ tx'[r].pc \in {"insert", "created"} =>
                          sent'[r] = Inserted(r)'
                    /\ tx'[r].table = "notifications" /\ tx'[r].pc = "index" => sent'[r] = Inserted(r)' + 1
                    /\ tx'[r].table = "notifications" /\ tx'[r].pc = "created" =>
                          \A row \in tx'[r].granted : Stored(row)' # {}
  BY DEF MessageInv
<1>2. r \in Sessions /\ r \notin Workers /\ TxOK(r)
  BY RecordsAssumption DEF Sessions, TxInv
<1>3. sent'[r] = sent[r] \/ TakeEffect(r)
  BY <1>1, MessagesOf
<1>4. CASE tx'[r] = tx[r]
  <2>1. Inserted(r)' = Inserted(r) /\ sent'[r] = sent[r]
    BY <1>3, <1>4 DEF Inserted, TakeEffect
  <2>2. ASSUME tx[r].table = "notifications", tx[r].pc = "created", NEW row \in tx[r].granted
        PROVE  Stored(row)' # {}
    <3>1. row.table = "notifications" /\ Stored(row) # {}
      BY <1>2, <2>2 DEF MessageInv, TxInv, IdsOK, Made
    <3>2. PICK other \in rows : SameId(row, other)
      BY <3>1 DEF Stored, SameId
    <3>3. PICK now \in rows' : SameId(now, other)
      BY <1>1, <3>1, <3>2, ProductsStay DEF SameId
    <3> QED BY <3>2, <3>3 DEF Stored, SameId
  <2> QED BY <1>4, <2>1, <2>2 DEF MessageInv
<1>5. CASE (\E ins \in Inserts : BeginEffect(r, ins)) \/ VerifyEffect(r) \/ CheckEffect(r)
  <2>1. tx[r].pc \in {"none", "verify", "check"} /\ sent'[r] = 0 /\ tx'[r].pc # "created" /\ tx'[r].pc # "index"
    BY <1>3, <1>5 DEF MessageInv, BeginEffect, VerifyEffect, CheckEffect, MoveEffect, NoTx, TakeEffect
  <2>2. tx'[r].granted = {}
    BY <1>2, <1>5, <2>1 DEF BeginEffect, VerifyEffect, CheckEffect, MoveEffect, TxOK
  <2>3. Inserted(r)' = 0
    BY <2>2, FS_EmptySet DEF Inserted
  <2> QED BY <2>1, <2>3
<1>6. CASE TakeEffect(r)
  <2>1. /\ tx[r].pc = "insert" /\ tx'[r].pc = "index" /\ tx'[r].table = tx[r].table /\ Inserted(r)' = Inserted(r)
    BY <1>6 DEF TakeEffect, Kept, Inserted
  <2>2. tx[r].table = "notifications" => sent'[r] = sent[r] + 1
    BY <1>1, <1>6 DEF TakeEffect, TypeOK
  <2> QED BY <2>1, <2>2 DEF MessageInv
<1>7. CASE GrantEffect(r)
  <2>1. /\ tx[r].pc = "index" /\ tx'[r].pc = "insert" /\ tx'[r].table = tx[r].table /\ sent'[r] = sent[r]
    BY <1>3, <1>7 DEF GrantEffect, Kept, TakeEffect
  <2>2. Inserted(r)' = Inserted(r) + 1
    BY <1>2, <1>7, GrantCounts
  <2> QED BY <2>1, <2>2 DEF MessageInv
<1>8. CASE ConflictEffect(r) \/ AbortEffect(r)
  BY <1>8 DEF ConflictEffect, AbortEffect, RollbackEffect
<1>9. CASE CommitEffect(r)
  <2>1. /\ tx[r].pc = "insert" /\ tx'[r].pc = "created" /\ tx'[r].table = tx[r].table /\ sent'[r] = sent[r]
        /\ tx'[r].granted = tx[r].granted /\ Inserted(r)' = Inserted(r) /\ rows' = rows \cup tx[r].granted
    BY <1>3, <1>9 DEF CommitEffect, MoveEffect, Kept, TakeEffect, Inserted
  <2> QED BY <2>1 DEF MessageInv, Stored
<1> QED BY <1>1, <1>2, <1>4, <1>5, <1>6, <1>7, <1>8, <1>9, EffectOn

\* The answer of bulk_send and send_notification accounts for every message,
\* sent once and recorded (MessagesAreRecorded).
THEOREM MessagesAccountedFor == Spec => []MessagesAreRecorded
<1>1. Init => MessageInv
  BY DEF Init, MessageInv, NoTx, Sessions
<1>2. TxInv /\ MessageInv => MessagesAreRecorded
  <2> SUFFICES ASSUME TxInv, MessageInv, NEW r \in Requests, tx[r].table = "notifications", tx[r].pc \in Over
               PROVE  /\ tx[r].pc = "created" => sent[r] = Len(tx[r].asks) /\ Inserted(r) = sent[r]
                      /\ \A row \in tx[r].granted : Stored(row) # {}
    BY DEF MessagesAreRecorded
  <2>1. TxOK(r)
    BY DEF TxInv, Sessions
  <2>2. tx[r].pc # "created" => tx[r].granted = {}
    BY <2>1 DEF TxOK, Over
  <2> QED BY <2>1, <2>2 DEF TxOK, MessageInv
<1> QED BY <1>1, <1>2, MessagePreserved, TransactionsInOrder, PTL DEF Spec

-----------------------------------------------------------------------------
(* The ids of the catalogue.                                               *)

\* As long as no worker serves or moves, nobody takes the id of a product or
\* commits one.
LEMMA QuietProducts ==
    ASSUME TxInv, StepEffect, ~ Serving, \A w \in Workers : tx'[w] = tx[w], InTable("products") = {}
    PROVE  InTable("products")' = {} /\ next'["products"] = next["products"]
<1>1. ASSUME NEW s \in Sessions, CommitEffect(s) \/ TakeEffect(s)
      PROVE  tx[s].table # "products"
  <2>1. tx[s].pc # "none" /\ tx'[s] # tx[s]
    BY <1>1 DEF CommitEffect, TakeEffect, MoveEffect
  <2> QED BY <2>1 DEF TxInv, RequestOK, Sessions
<1>2. InTable("products")' = {}
  <2> SUFFICES ASSUME NEW row \in rows', row.table = "products"
               PROVE  FALSE
    BY DEF InTable
  <2>1. ~ \E other \in rows : SameId(row, other)
    BY DEF InTable, SameId
  <2>2. PICK s \in Sessions : CommitEffect(s) /\ row \in tx[s].granted
    BY <2>1, WhatAppears
  <2> QED BY <1>1, <2>2 DEF TxInv, IdsOK, Made
<1>3. ASSUME NEW s \in Sessions, TakeEffect(s)
      PROVE  next'["products"] = next["products"]
  BY <1>1, <1>3, TxFields DEF TakeEffect, TxInv, TypeOK, Tables
<1> QED BY <1>2, <1>3 DEF StepEffect, BeginEffect, VerifyEffect, CheckEffect, StartEffect, MoveEffect,
        GrantEffect, ConflictEffect, CommitEffect, AbortEffect, RollbackEffect, EditReadEffect, EditWriteEffect, vars

LEMMA IdsGrow ==
    ASSUME TxInv, StepEffect
    PROVE  /\ next["products"] \in Nat /\ next'["products"] \in Nat
           /\ next'["products"] >= next["products"]
<1>1. next \in [Tables -> Nat] /\ "products" \in Tables
  BY DEF TxInv, TypeOK, Tables
<1>2. ASSUME NEW s \in Sessions, TakeEffect(s)
      PROVE  next'["products"] \in Nat /\ next'["products"] >= next["products"]
  BY <1>1, <1>2, TxFields DEF TakeEffect, TxInv
<1> QED BY <1>1, <1>2 DEF StepEffect, BeginEffect, VerifyEffect, CheckEffect, StartEffect, MoveEffect,
        GrantEffect, ConflictEffect, CommitEffect, AbortEffect, RollbackEffect, EditReadEffect, EditWriteEffect, vars

\* The first worker to count begins to seed.
LEMMA SeedingBegins ==
    ASSUME TxInv, StepEffect, NotSeeded
    PROVE  NotSeeded' \/ \E w \in Workers : Seeding(w)'
<1>1. ~ Serving
  BY DEF NotSeeded, Serving, Over
<1>2. CASE \A w \in Workers : tx'[w] = tx[w]
  BY <1>1, <1>2, QuietProducts DEF NotSeeded
<1>3. ASSUME NEW w \in Workers, tx'[w] # tx[w]
      PROVE  Seeding(w)'
  <2>1. StartEffect(w)
    BY <1>3, EffectOn, RecordsAssumption
       DEF NotSeeded, Sessions, TakeEffect, GrantEffect, ConflictEffect, AbortEffect, RollbackEffect, CommitEffect, Active
  <2>2. /\ tx'[w].pc = "insert" /\ tx'[w].granted = {} /\ tx'[w].entering = {}
        /\ \A v \in Workers \ {w} : tx'[v].pc = "none"
        /\ rows' = rows /\ next'["products"] = 1
    BY <2>1 DEF NotSeeded, StartEffect, Same, Sessions
  <2>3. Inserted(w)' = 0 /\ Cardinality(tx'[w].entering) = 0
    BY <2>2, FS_EmptySet DEF Inserted
  <2> QED BY <2>2, <2>3 DEF Seeding, NotSeeded, InTable, Made
<1> QED BY <1>2, <1>3

\* One more sample has its id.
LEMMA SeedingTakes ==
    ASSUME TxInv, NEW w \in Workers, Seeding(w), TakeEffect(w)
    PROVE  Seeding(w)'
<1>1. /\ w \in Sessions /\ TxOK(w) /\ tx[w].asks = Samples /\ tx[w].table = "products" /\ Inserted(w) \in Nat
      /\ tx[w].pc = "insert"
  BY InsertedIsNat DEF TakeEffect, TxInv, WorkerOK, Sessions
<1>2. tx[w].entering = {} /\ Cardinality(tx[w].entering) = 0
  BY <1>1, FS_EmptySet DEF TxOK, EnteringOK
<1>3. next["products"] = Inserted(w) + 1
  BY <1>1, <1>2 DEF Seeding
<1>4. /\ NewRow(w).id = Inserted(w) + 1 /\ NewRow(w).keys = Samples[Inserted(w) + 1]
  BY <1>1, <1>3 DEF NewRow
<1>5. /\ tx'[w].pc = "index" /\ tx'[w].granted = tx[w].granted /\ tx'[w].entering = {NewRow(w)}
      /\ Inserted(w)' = Inserted(w) /\ rows' = rows
      /\ next'["products"] = Inserted(w) + 2
      /\ \A v \in Workers \ {w} : tx'[v].pc = "none"
  BY <1>1, <1>3 DEF TakeEffect, Seeding, Same, Sessions, Inserted, TxInv, TypeOK, Tables
<1>6. Cardinality(tx'[w].entering) = 1
  BY <1>5, FS_Singleton
<1>7. AsSample(NewRow(w))
  BY <1>4 DEF AsSample
<1>8. \A row \in Made(w)' : AsSample(row)
  BY <1>5, <1>7 DEF Seeding, Made
<1>9. InTable("products")' = {}
  BY <1>5 DEF Seeding, InTable
<1>10. next'["products"] = Inserted(w)' + Cardinality(tx'[w].entering) + 1
  BY <1>1, <1>5, <1>6
<1> QED BY <1>5, <1>8, <1>9, <1>10 DEF Seeding

\* One more sample is in the indexes.
LEMMA SeedingGrants ==
    ASSUME TxInv, NEW w \in Workers, Seeding(w), GrantEffect(w)
    PROVE  Seeding(w)'
<1>1. w \in Sessions /\ TxOK(w) /\ tx[w].pc = "index"
  BY DEF GrantEffect, TxInv, Sessions
<1>2. PICK row \in tx[w].entering : tx[w].entering = {row}
  BY <1>1 DEF TxOK, EnteringOK
<1>3. Cardinality(tx[w].entering) = 1
  BY <1>2, FS_Singleton
<1>4. Inserted(w)' = Inserted(w) + 1 /\ Inserted(w) \in Nat
  BY <1>1, GrantCounts
<1>5. /\ tx'[w].pc = "insert" /\ tx'[w].entering = {} /\ Made(w)' = Made(w) /\ rows' = rows /\ next' = next
      /\ \A v \in Workers \ {w} : tx'[v].pc = "none"
  BY DEF GrantEffect, Seeding, Same, Sessions, Made
<1>6. Cardinality(tx'[w].entering) = 0
  BY <1>5, FS_EmptySet
<1>7. next'["products"] = Inserted(w)' + Cardinality(tx'[w].entering) + 1
  BY <1>3, <1>4, <1>5, <1>6 DEF Seeding
<1> QED BY <1>5, <1>7 DEF Seeding, InTable

\* The samples become visible at once.
LEMMA SeedingCommits ==
    ASSUME TxInv, Samples # <<>>, NEW w \in Workers, Seeding(w), CommitEffect(w)
    PROVE  Seeded'
<1>1. /\ w \in Sessions /\ TxOK(w) /\ tx[w].asks = Samples /\ tx[w].table = "products"
      /\ tx[w].pc = "insert" /\ Inserted(w) = Len(Samples) /\ Samples \in Seq(SUBSET Keys)
  BY RecordsAssumption DEF CommitEffect, TxInv, WorkerOK, Sessions
<1>2. /\ rows' = rows \cup tx[w].granted /\ tx'[w].pc = "created" /\ next' = next
      /\ \A s \in Sessions \ {w} : tx'[s] = tx[s]
  BY DEF CommitEffect, MoveEffect, Same
<1>3. InTable("products") = {} /\ \A row \in tx[w].granted : AsSample(row) /\ row.table = "products"
  BY <1>1 DEF Seeding, Made, TxInv, IdsOK
<1>4. \A row \in InTable("products")' : row \in tx[w].granted
  BY <1>2, <1>3 DEF InTable
<1>5. InTable("products")' # {}
  <2>1. Len(Samples) \in Nat /\ Len(Samples) # 0
    BY <1>1
  <2>2. 1 \in 1 .. Inserted(w)
    BY <1>1, <2>1
  <2>3. PICK row \in tx[w].granted : row.keys = tx[w].asks[1]
    BY <1>1, <2>2 DEF TxOK, GrantedOK
  <2> QED BY <1>2, <1>3, <2>3 DEF InTable
<1>6. next'["products"] > Len(Samples)
  <2>1. tx[w].entering = {} /\ Cardinality(tx[w].entering) = 0
    BY <1>1, FS_EmptySet DEF TxOK, EnteringOK
  <2>2. next["products"] = Len(Samples) + 0 + 1 /\ Len(Samples) \in Nat
    BY <1>1, <2>1 DEF Seeding
  <2> QED BY <1>2, <2>2
<1>7. \A v \in Workers : tx'[v].pc \in {"none", "created", "skipped"}
  BY <1>2 DEF Seeding, Sessions
<1>8. \A r \in Requests : tx'[r].pc \in Active => \A row \in Made(r)' : row.table # "products"
  <2>1. ~ Serving
    <3>1. \A v \in Workers : tx[v].pc \notin Over
      BY DEF Seeding, Over
    <3> QED BY <3>1 DEF Serving
  <2>2. \A r \in Requests : tx'[r] = tx[r]
    BY <1>2, RecordsAssumption DEF Sessions
  <2>3. \A r \in Requests : tx[r].pc \in Active => tx[r].table # "products"
    BY <2>1 DEF TxInv, RequestOK, Active
  <2> QED BY <2>2, <2>3 DEF TxInv, IdsOK, Made, Sessions
<1> QED BY <1>3, <1>4, <1>5, <1>6, <1>7, <1>8 DEF Seeded

\* One worker seeds, and nobody disturbs it.
LEMMA SeedingGoesOn ==
    ASSUME TxInv, StepEffect, Samples # <<>>, ~ raced', ~ Fault, NEW w \in Workers, Seeding(w)
    PROVE  Seeding(w)' \/ Seeded'
<1>1. w \in Sessions /\ w \notin Requests /\ \A v \in Workers : v \notin Requests /\ v \in Sessions
  BY RecordsAssumption DEF Sessions
<1>2. ~ Serving
  <2>1. \A v \in Workers : tx[v].pc \notin Over
    BY DEF Seeding, Over
  <2> QED BY <2>1 DEF Serving
<1>3. \A v \in Workers \ {w} : tx'[v] = tx[v]
  <2> SUFFICES ASSUME NEW v \in Workers \ {w}, tx'[v] # tx[v]
               PROVE  FALSE
    OBVIOUS
  <2>1. tx[v].pc = "none"
    BY DEF Seeding
  <2>2. StartEffect(v)
    BY <1>1, <2>1, EffectOn
       DEF TakeEffect, GrantEffect, ConflictEffect, AbortEffect, RollbackEffect, CommitEffect, Active
  <2>3. tx'[v].pc = "insert" /\ tx[w].pc \in Active
    BY <2>2 DEF StartEffect, Seeding, Active
  <2> QED BY <2>2, <2>3 DEF StartEffect
<1>4. CASE tx'[w] = tx[w]
  <2>1. \A v \in Workers : tx'[v] = tx[v]
    BY <1>3, <1>4
  <2>2. InTable("products")' = {} /\ next'["products"] = next["products"]
    BY <1>2, <2>1, QuietProducts DEF Seeding
  <2>3. Inserted(w)' = Inserted(w) /\ Made(w)' = Made(w)
    BY <1>4 DEF Inserted, Made
  <2> QED BY <1>4, <2>1, <2>2, <2>3 DEF Seeding
<1>5. CASE tx'[w] # tx[w]
  <2>1. ~ ConflictEffect(w)
    BY WorkersLoseToRows DEF Seeding
  <2>2. ~ AbortEffect(w) /\ ~ StartEffect(w)
    BY DEF AbortEffect, StartEffect, Seeding, NoTx
  <2>3. TakeEffect(w) \/ GrantEffect(w) \/ CommitEffect(w)
    BY <1>1, <1>5, <2>1, <2>2, EffectOn
  <2> QED BY <2>3, SeedingTakes, SeedingGrants, SeedingCommits
<1> QED BY <1>4, <1>5

\* Once the samples are there, later products have later ids.
LEMMA SeededStays ==
    ASSUME TxInv, StepEffect, Seeded
    PROVE  Seeded'
<1>1. /\ Samples \in Seq(SUBSET Keys) /\ Len(Samples) \in Nat
      /\ \A w \in Workers : w \in Sessions /\ w \notin Requests
  BY RecordsAssumption DEF Sessions
<1>2. \A id \in Nat : id > Len(Samples) => id \notin DOMAIN Samples
  BY <1>1
<1>3. \A w \in Workers : tx'[w].pc \in {"none", "created", "skipped"}
  <2> SUFFICES ASSUME NEW w \in Workers, tx'[w] # tx[w]
               PROVE  tx'[w].pc = "skipped"
    BY DEF Seeded
  <2>1. tx[w].pc \in {"none", "created", "skipped"}
    BY DEF Seeded
  <2>2. StartEffect(w)
    BY <1>1, <2>1, EffectOn
       DEF TakeEffect, GrantEffect, ConflictEffect, AbortEffect, RollbackEffect, CommitEffect, Active
  <2> QED BY <2>2 DEF StartEffect, Seeded
<1>4. InTable("products")' # {}
  BY CatalogueGrows DEF Seeded
<1>5. next'["products"] > Len(Samples) /\ next["products"] > Len(Samples)
  BY <1>1, IdsGrow DEF Seeded
<1>6. ASSUME NEW row \in InTable("products")'
      PROVE  AsSample(row)
  <2>1. row \in rows' /\ row.table = "products"
    BY DEF InTable
  <2>2. ASSUME NEW other \in rows, SameId(row, other), row.keys = other.keys
        PROVE  AsSample(row)
    BY <2>1, <2>2 DEF AsSample, SameId, Seeded, InTable
  <2>3. ASSUME NEW s \in Sessions, CommitEffect(s), row \in tx[s].granted
        PROVE  AsSample(row)
    <3>1. tx[s].pc = "insert" /\ tx[s].pc \in Active /\ tx[s].granted \subseteq Rows
      BY <2>3, TxFields DEF CommitEffect, Active, TxInv
    <3>2. s \in Requests
      BY <3>1 DEF Seeded, Sessions
    <3>3. row.id > Len(Samples) /\ row.id \in Nat
      BY <2>1, <2>3, <3>1, <3>2 DEF Seeded, Made, Rows
    <3> QED BY <1>2, <3>3 DEF AsSample
  <2> QED BY <2>1, <2>2, <2>3, WhatAppears
<1>7. ASSUME NEW r \in Requests, tx'[r].pc \in Active, NEW row \in Made(r)', row.table = "products"
      PROVE  row.id > Len(Samples)
  <2>1. r \in Sessions /\ r \notin Workers
    BY <1>1, <1>7 DEF Sessions
  <2>2. ASSUME tx[r].pc \in Active, row \in Made(r)
        PROVE  row.id > Len(Samples)
    BY <1>7, <2>2 DEF Seeded
  <2>3. CASE tx'[r] = tx[r]
    BY <1>7, <2>2, <2>3 DEF Made
  <2>4. CASE \E ins \in Inserts : BeginEffect(r, ins)
    BY <1>7, <2>4 DEF BeginEffect, Made
  <2>5. CASE VerifyEffect(r) \/ CheckEffect(r) \/ GrantEffect(r)
    <3>1. Made(r)' = Made(r) /\ tx[r].pc \in Active
      BY <2>5 DEF VerifyEffect, CheckEffect, MoveEffect, GrantEffect, Made, Active
    <3> QED BY <1>7, <2>2, <3>1
  <2>6. CASE TakeEffect(r)
    <3>1. row \in Made(r) \cup {NewRow(r)} /\ tx[r].pc \in Active
      BY <1>7, <2>6 DEF TakeEffect, Made, Active
    <3>2. CASE row = NewRow(r)
      BY <1>5, <1>7, <3>2 DEF NewRow
    <3> QED BY <2>2, <3>1, <3>2
  <2>7. ~ (ConflictEffect(r) \/ AbortEffect(r) \/ CommitEffect(r))
    BY <1>7 DEF ConflictEffect, AbortEffect, RollbackEffect, CommitEffect, MoveEffect, Active
  <2> QED BY <2>1, <2>3, <2>4, <2>5, <2>6, <2>7, EffectOn
<1> QED BY <1>3, <1>4, <1>5, <1>6, <1>7 DEF Seeded

LEMMA StockPreserved ==
    ASSUME TxInv, StockInv, [Next]_vars
    PROVE  StockInv'
<1>1. TypeOK' /\ StepEffect /\ TypeOK
  BY TypePreserved DEF TxInv
<1> SUFFICES ASSUME ~ raced', faults' = 0, Samples # <<>>
             PROVE  NotSeeded' \/ (\E w \in Workers : Seeding(w)') \/ Seeded'
  BY DEF StockInv
<1>2. faults = 0 /\ ~ Fault
  BY <1>1, FaultsOnlyGrow
<1>3. ~ raced
  BY <1>1 DEF StepEffect, BeginEffect, VerifyEffect, CheckEffect, StartEffect, MoveEffect, TakeEffect, GrantEffect,
       ConflictEffect, CommitEffect, AbortEffect, RollbackEffect, EditReadEffect, EditWriteEffect, vars
<1>4. NotSeeded \/ (\E w \in Workers : Seeding(w)) \/ Seeded
  BY <1>2, <1>3 DEF StockInv
<1> QED BY <1>1, <1>2, <1>4, SeedingBegins, SeedingGoesOn, SeededStays

\* The stock that the inventory is seeded with is that of the products with
\* the ids 1, 2, ..., unless two workers have seeded or a seeding has failed
\* (StockMatchesCatalogue).
THEOREM StockFits == Spec => []StockMatchesCatalogue
<1>1. Init => StockInv
  <2>1. Init => /\ \A w \in Workers : tx[w].pc = "none"
                /\ rows = {} /\ next["products"] = 1
    BY DEF Init, NoTx, Tables, Sessions
  <2> QED BY <2>1 DEF StockInv, NotSeeded, InTable
<1>2. StockInv => StockMatchesCatalogue
  <2> SUFFICES ASSUME StockInv, ~ raced, faults = 0, NEW row \in InTable("products"), row.id \in DOMAIN Samples
               PROVE  row.keys = Samples[row.id]
    BY DEF StockMatchesCatalogue
  <2>1. Samples # <<>>
    OBVIOUS
  <2>2. Seeded
    BY <2>1 DEF StockInv, NotSeeded, Seeding
  <2> QED BY <2>2 DEF Seeded, AsSample
<1> QED BY <1>1, <1>2, StockPreserved, TransactionsInOrder, PTL DEF Spec

=============================================================================
