# TLA+ models of the e-commerce platform

The repository is a shop of ten FastAPI services behind a gateway, with the charts that deploy
them and the scripts that build, scan and promote their images. The services share no database
and no transaction: an order is stock reserved in one service, a row in a second and a payment in
a third, held together by HTTP calls that may be lost, repeated or overtaken. These modules say
what that design guarantees and where it does not.

Paths below are relative to `src/`.

## 1. Inventory of the system

| Component | State | Operations that change it | Talks to |
|---|---|---|---|
| inventory (`services/inventory`) | tables `inventory` (quantity, reserved per product) and `stock_movements` | adjust, reserve, release, commit; seed at start-up | called by order |
| order (`services/order`) | table `orders` (status, items) | POST /orders, PUT /orders/{id}/status, DELETE /orders/{id} | product, inventory, cart, shipping, notification |
| payment (`services/payment`) | table `payments` (status, transaction_id, idempotency_key) | create, process, webhook, refund | order, notification |
| shipping (`services/shipping`) | table `shipments` (status, events list as JSON) | create, update status | order, notification |
| cart (`services/cart`) | one Redis value per user, TTL of 7 days | add, update, remove, clear | product |
| product (`services/product`) | table `products` | create, update, soft delete; seed | - |
| identity (`services/identity`) | table `users` | register, login, update | - |
| review (`services/review`) | table `reviews`, unique per user and product | create, update, delete | - |
| notification (`services/notification`) | table `notifications` | send, bulk send, mark read | - |
| gateway (`services/gateway`) | none | routes by prefix, forwards again when a request gets no answer | all services |
| database sessions (`services/*/app/database.py`) | a pool of 10+20 connections per process | a connection is held for the whole handler, awaits included | PostgreSQL |
| CI (`Jenkinsfile.*`, `scripts/ci`) | images and tags in the registry, the gitops branch | build, scan, promote, bump | registry, git |
| deployment (`helm-charts`, `argocd`, `terraform`, `observability`) | declarative | - | - |

How the parts meet. POST /orders asks the product and inventory services about every item,
reserves the items one HTTP call at a time, releases what it reserved if one is refused, inserts
the order and clears the cart. Processing a payment commits the payment's status and then PUTs
`confirmed` or `cancelled` to the order. That PUT commits the order's status and then calls
inventory (commit or release) and shipping. A shipment's own status changes PUT `shipped` and
`delivered` back. Every call after a commit is best effort: its failure is logged and forgotten.

What is hard in it:

- *Interleaving.* Every service runs two uvicorn workers in two or more replicas, and `def`
  handlers in a thread pool. Handlers SELECT, decide, and commit absolute values of the columns
  that differ from what they read; nothing locks a row, no table has a version column.
- *Partial failure.* Multi-step handlers (reservation of a basket, the loops of `update_status`,
  the call after `process_payment`'s commit) can stop after any step.
- *Unreliable calls.* Clients time out after 3 to 5 seconds; the call may have taken effect. The
  gateway repeats timed-out requests.
- *Ordering and repetition.* Nothing checks the transitions of an order's status; `confirmed` can
  arrive twice, after `cancelled`, or from a payment that was declined first.

What makes each component correct:

- inventory: no column goes negative; reserved never exceeds quantity; the columns are what the
  movement log says; one row per product; a commit is one operation of an abstract ledger.
- order: stock that an order holds is reserved until its own confirmation or cancellation; a
  refused order holds nothing; handlers terminate.
- payment: one payment per idempotency key; charged once, refunded once, after the charge; the
  order is told of the outcome.
- shipping: one shipment per order, no event lost, the order's status follows the shipment's.
- cart: one line per product; an acknowledged change did happen, no forward of a request takes effect
  twice or after its 404, and what it makes is one operation away from a cart that was current since it was
  sent.
- product, review, identity, notification: unique fields stay unique and only a loser is refused; the
  catalogue is seeded as a whole; a deleted review stays deleted; what was answered as sent is recorded.
- gateway: no request takes effect more often than it was forwarded, and what a caller is told happened.
- CI: what is promoted is what was scanned; a bump is never lost and never overwrites another, and
  changes nothing in a values file but the image.

`PROJECT.json` lists every component with its status and every hazard at its line.

## 2. Modules

| Module | Models | Kind |
|---|---|---|
| `InventoryLedger` | what the inventory service promises: adjust, reserve, release and commit as single atomic steps | abstract |
| `Inventory` | `services/inventory/app/main.py` as concurrent database sessions | detailed |
| `InventoryProofs` | inductive invariant and theorems about `Inventory` | proofs |
| `OrderSaga` | `services/order/app/main.py`, its handlers interleaved at every call, over `InventoryLedger` | composition |
| `Payment` | `services/payment/app/main.py` as concurrent sessions | detailed |
| `PaymentProofs` | inductive invariant and theorems about `Payment` | proofs |
| `Shipping` | `services/shipping/app/main.py` with the two steps of the order service that answer its call, and DELETE of the order | detailed |
| `GitopsBump` | `scripts/ci/gitops-bump.sh --push`, several runs of it against one branch | detailed |
| `ValuesFile` | the lines of a values file and how `bump_values.py`, `set_yaml_field.py` and `image_block_state.py` rewrite them | pure algorithm |
| `CartPromise` | what a customer may rely on of a cart behind the gateway | abstract |
| `Cart` | `services/cart/app/main.py` behind the forwarding loop of `services/gateway/app/main.py` | composition |
| `Records` | the tables of identity, product, review and notification: check, insert, commit, and the seeding of the catalogue | detailed |
| `GitopsBumpProofs` | inductive invariants and theorems about `GitopsBump` and about `ValuesFile` | proofs |
| `OrderSagaProofs` | the books of the inventory follow what the orders hold | proofs |
| `ShippingProofs` | event lists, and the order that follows its shipment | proofs |
| `CartProofs` | what the lines of a cart add up to, and the refinement of `CartPromise` | proofs |
| `RecordsProofs` | keys, ids, seeding, deletion and messages | proofs |
| `DataLemmas` | numbers, finite sets, sums over sets and recursion, for all of these | lemmas |
| `MCInventory`, `MCOrderSaga`, `MCPayment`, `MCShipping`, `MCGitopsBump`, `MCCart`, `MCRecords`, `MCValuesFile` | values and symmetry for TLC | runs |

### Inventory and InventoryLedger

`listed`, `quantity`, `reserved` are the committed table; `movements[p][op]` is the sum of the
deltas `op` has logged for `p` (the table itself grows without bound; sums are all that any
property needs). `session[s]` is what a request holds between its SELECT and its commit: the
operation, the amount and the row as it was read.

| Action | Code |
|---|---|
| `Load` | `db.query(Inventory)...first()` (main.py:84, 102, 115, 127) |
| `FlushInsert` | `db.add(inv); db.flush()` of a missing row (main.py:86-87); waits on the unique index |
| `adjust_stock`, `reserve_stock`, `release_stock`, `commit_stock` | check, UPDATE, movement row and `db.commit()` |
| `Refuse` | the HTTPExceptions 400, 404, 409 |
| `Abort` | a database error or dead worker before the commit |

`Write` is the heart of it: SQLAlchemy sends only the columns whose value differs from the loaded
one, with absolute values, so an overlapping commit overwrites (`reserved`) or misses (`quantity`)
what happened since. `stale` is a history variable: the products some commit has written from an
old row. The properties about values are claimed for the others, and `FreshStepsAreAtomic` says
that this is the *only* way the service departs from the ledger.

### OrderSaga

`create[o]` is a POST /orders handler and where it stands in its loops; `call[c]` is a PUT or
DELETE handler; `status[o]` is the committed column. Each inventory call is one atomic ledger
operation, so what goes wrong here goes wrong even with an inventory service that is perfect.
`Refused`, `ReserveAnswerLost`, `FailCreate` and `FailCall` are the error paths: refusals, 5xx before
or after the callee's commit, timeouts, database errors, dead workers. `Held(o, p)` says, from
the state of the handlers alone, what order `o` ought to have reserved of `p`; the properties
compare that with the table, summed over all orders (`SumFunctionOnSet`; the orders are therefore a finite
set, `OrderAssumption`).

Abstracted: prices, users and addresses; the product lookup is a free choice to refuse; the
notification and the cart are calls whose result nothing uses.

### Payment

`row` is the committed table, named by the request that inserts it; `handler[h]` is a request
between its SELECT and its last step; `told[o]` is the sequence of statuses the order service has
received for `o`. `ProcessRead`, `ProcessWrite`, `ProcessHook` are the three parts of
`process_payment`: SELECT and provider, commit, call. The provider's verdict, `force_status`
included, is a free choice of `success` or `failed`. The GET of the order in `create_payment`
influences only log lines and is the gap between `CreateCheck` and `CreateInsert`. Amounts,
methods and provider responses are left out.

### Shipping

`row` is the committed table, named by the request that inserts a shipment; `update[u]` is a PUT from
its SELECT (`UpdateRead`) over its commit (`UpdateWrite`) to its call to the order service
(`SendPut`, `AwaitPut`). `put` is that call at the other end: `PutRead` and `PutWrite` are the SELECT and
the commit of the order service, which goes on when the caller's three seconds are over. Of an event
only its status is kept. `IsPartOf` says that a list is in another one in its order, `LatestPropagated`
which status of a list has reached the order last. `log` (what was committed, in order), `stale` (shipments written from an old
row) and `overlapped` (shipments with overlapping updates) are history. The unusual transitions
that the handler logs and accepts are accepted here. Carriers, locations, tracking numbers and
estimates are left out; the notification is a call whose result nothing uses. The side effects of
an order's status are `OrderSaga`'s; the two statuses sent here have none but a notification.

### GitopsBump

A commit is its patch (per service, old and new tag), a head the commits it reaches and its tree.
`build[b]` is a run of the script at its next git command: `run_bump`, `CommitBump`, `PushBump`,
`FetchBranch`, `RebaseBump`, `RepushBump`. A push is accepted, accepted with its answer lost,
rejected because the branch has moved, or not sent; three failed attempts end a retry loop. Humans revert bumps
on the branch (`Rollback`), merge it into main, push source commits and run the script for
older manifests. `RerunsAddNothing` is setup.md:437's promise about reruns. It holds unless a commit on the branch has
set one of the build's tags back to what the build found (`SetBack`). That need not be a rollback: a build of an
older image does it too, started from a main into which the first bump has been merged. `GitopsBump_replay`
has no room for that run; the attempt to prove the property without rollbacks led to it. git itself (fast-forward check, three-way merge of a patch, rebase dropping what
upstream has) is external and modelled from what the script relies on. Only commits that change
a tag are kept, since source commits touch no values file. A build's `bump` is its commit.

### Cart and CartPromise

`cart` is the JSON value in Redis as a sequence of lines. A request is `asked` once; the gateway forwards
it as copy `attempt[r]` and, when it gets no answer, as the next one, while the old copy goes on:
`handler[r][k]` is copy k in the cart service, `sent`, `read` (the GET is done, the whole cart is in
hand), `unsure` (its Redis command has failed and may still be carried out) or `Over`. A copy is `Open` until it
can no longer change the cart. `SetCart` writes the whole cart back as it was read, with the change. `Expire` is the
TTL: Redis counts the seven days from the last write (main.py:67, 112), whatever has read the value since, so the
cart may go at any moment, between a GET and its SETEX and under a request that waits included. `Goods` is what
the lines add up to, product by product: a sum
over the positions that have the product, since nothing in the code but `add_item`'s search keeps them apart.
`since[r][k]` is history, read by no action of the code: every `Goods(cart)` there has been since copy k was sent,
until it is over.

| Action | Code |
|---|---|
| `Ask`, `RequestError`, `Reply` | `proxy` of the gateway: the first attempt, `except httpx.RequestError`, the answer (main.py:109-167) |
| `GetCart` | `r.get` and the 404s |
| `SetCart` with `add_item`, `update_item`, `remove_item` | the change and `r.setex` |
| `clear_cart` | DELETE of the cart, by the user or by the order service after a checkout (once, without the gateway) |
| `RedisError` | an exception of the Redis client: a 500, which the gateway passes on as the answer, without a retry |
| `WriteUnanswered` | Redis carries out the SETEX or DEL whose answer was lost (main.py:112, 142, 156, 163), before or after the caller has its 500 |
| `Expire` | the end of `cart_ttl` |

`CartPromise` sees only the goods, the requests, what has become of each forward (`open`, `applied`, `refused`
or `failed`) and the answers. `Promise` is its instance, with `goods <- Goods(cart)` and `forward` the outcome of
each handler. It promises that a forward takes effect at most once and never after its 404; that what it makes is
one operation away from a cart that has been current since it was sent; that a 404 has a cause in such a cart; that a
200 or a 404 is what became of the last forward; and that there is another forward only while there is no answer. So
a change to a cart nobody has had since, a 200 without a change or a fourth forward are excluded.

It permits what the code does, and a customer may not like: what was changed between the sending of a forward and its
write may be lost, and a cart cleared or expired in that time may come back; a request whose first forward got no
answer may be made two or three times; a failure says nothing, neither that the change has not been made nor that it
will not be made later.

### Records

Four services insert in the same way, so one module has them: `tx[s]` is the transaction of a POST or of a
starting worker, `asks` the keys of the rows it will insert, `granted` the rows that are in the unique
indexes, `entering` the one that has its id and is not. `EnterIndex` waits for an open transaction with the same key and fails on a
committed one, as PostgreSQL does. `next` is each table's sequence, and a failed transaction gives no
id back. `edit[e]` is a PUT or DELETE between its SELECT and its commit, which sends only a column that
changed.

| Action | Code |
|---|---|
| `register`, `create_product`, `create_review`, `send_notification`, `bulk_send` | the POST handlers of the same names |
| `lifespan` (`StartWorker`, then the insert) | the seeding at product main.py:31-51, by every worker |
| `VerifyProduct`, `Check` | the GET of the product (review main.py:53-63) and the SELECT for the keys |
| `TakeId`, `EnterIndex`, `Commit`, `Abort` | `db.add`/`flush` of a row, its unique index, `db.commit()`, an exception |
| `EditRead`, `EditWrite` | `update_user`, `update_product`, `delete_product`, `update_review`, `delete_review`, `mark_read` |

### ValuesFile

A file is a sequence of lines: indentation, key, value, and whether a comment follows. `set_field`,
`find_key` and `classify` are operators on lines, as in the code; `Bump` is `main` for one service. `Texts` are
the strings, as a constant: nothing in the code looks into a value. `found` (the file before any bump),
`bumped` (the last image that was written, and in which mode) and `refused` are history.
`WellFormed` and `Says` say what YAML, and so Helm, reads in the same lines, independently of them.
`TwoLevel` is the shape `set_yaml_field.py:7` names, which every chart of a service has. Blank lines, lists
and quoting are left out. `GitopsBump` takes from here that a bump sets the tag, and nothing else, and
that a second one changes nothing.

## 3. Runs

The passing runs enumerate their state space completely; a refuting run stops at its counterexample.

| Run | Checks | States |
|---|---|---|
| `Inventory_overlap` | types, no negative column, log explains row, reserved within stock, one row, fresh commits atomic | 264,807 |
| `Inventory_serial` | refinement of `InventoryLedger` | 12,206 |
| `OrderSaga_settle` | types, held stock stays reserved, books balance without faults | 997,043 |
| `OrderSaga_finish` | handlers terminate | 2,949 |
| `OrderSaga_double_confirm` | *refutes* `PendingOrdersAreReserved` | - |
| `OrderSaga_lost_answer` | *refutes* `FailedOrdersHoldNothing` | - |
| `Payment_retries` | types, retries are safe, fresh payments settle once, outcome is told | 578,717 |
| `Shipping_updates` | types, one shipment per order, events are commits, fresh history complete, order follows shipment | 3,516,263 |
| `Cart_retries` | types, one line per product, refinement of `CartPromise` | 1,705,743 |
| `Records_races` | types, unique keys, losers have a rival, no deadlock of inserts, catalogue seeded as a whole, ids match the inventory's, reviews are of products, messages are recorded, deleted stays deleted | 1,977,776 |
| `ValuesFile_bumps` | types, Helm reads the image of the last bump, the rest is untouched, reruns change nothing | 506,259 |
| `GitopsBump_replay` | types, nothing unseen is replaced, pushed bumps stay, reruns add nothing | 300,770 |

### Bounds

- `Inventory_overlap`: two sessions on one product without a row. Products do not interact in the
  code, so one is enough; starting without a row makes its creation, and the race for it, one of
  the operations. `MaxStock` = 3 and `MaxMoved` = 2 bound the columns and the net movement of each
  operation; amounts of 1 and 2 against a stock of up to 3 give refusals, exact fits and both
  orders of two reserves that do not both fit. Two sessions show every lost update and write skew;
  the theorems hold for any number.
- `Inventory_serial`: one session and two products, one seeded and one not.
- `OrderSaga_settle`: two orders of one or two items, `<<p1, p2>>`, `<<p1>>` and `<<p1, p1>>`,
  against two units of p1 and one of p2, so that an order can fail on its second item while
  another holds stock; two PUTs or DELETEs; two faults, so that a fault can hit a rollback that a
  fault has caused.
- `OrderSaga_finish`: no symmetry (liveness); two orders of two items, one call and one fault.
- `Payment_retries`: five requests, enough for two creates under one key, two processes of the
  payment and a refund or webhook; one fault.
- `Shipping_updates`: three updates of one shipment, so that two can overlap after a first one has
  moved it; two POSTs, one DELETE, one fault (a lost call, a timeout or a dead worker).
- `GitopsBump_replay`: two runs of the script (three were tried as well), three services of which one is
  malformed, three revisions so that an older manifest can be replayed on a newer head, two
  rollbacks so that a bump can be reverted and the revert reverted.
- `Cart_retries`: three requests, so that a third one can write between two copies of the others; two
  products; one quantity, since an update to the quantity an add has set or doubled tells them apart;
  two attempts in place of three, and two faults: a copy can be overtaken by the next, and the next by
  another request, and a request can be repeated while a write of another is unanswered. Nothing bounds
  how often the cart expires.
- `Records_races`: two requests of any kind (two registrations of one name, a product with the sku of a sample,
  a review of a product whose id may come from a POST or from a lost seeding, one message and two), two
  workers, a catalogue of two samples (the least that can deadlock or be seeded by halves), two edits and
  one fault.
- `ValuesFile_bumps`: all 28,727 well-formed files of up to five lines out of fourteen kinds: `image` as a mapping, as a scalar,
  nested, and with a comment; a second block with keys of the same names; a deeper level; comments. Five
  lines are enough for a block with three children or another block before and after it. Three images, with and
  without a digest, in each of the three modes, any number of times. The theorems hold for any length.
- No run of `OrderSaga`, `Payment`, `Shipping`, `GitopsBump`, `Cart`, `Records` or `ValuesFile` checks
  deadlock: every request is made once, and the system stops when all have been answered. (A refused
  values file stays refused.) That transactions never all wait for each other is `SomebodyMoves`.

### What holds by assumption

- `SettledOnce` in `HeldStockIsReserved` and `StockExplained`: callers confirm or cancel a pending
  order once. The code does not enforce it, and `OrderSaga_double_confirm` shows what happens
  otherwise.
- `LogExplainsRow`, `ReservedWithinStock`, `FreshStepsAreAtomic`, `FreshPaymentsSettleOnce` and
  `FreshHistoryIsComplete` leave out the rows that were written from an old reading (`stale`), the payment ones
  those a webhook has written (`hooked`) as well. On such rows the code does lose a reservation, charge or
  refund twice, and lose an event; what holds of them too is `NonNegative`, `RetriesAreSafe`, `OutcomeIsTold`
  (webhooks apart) and `EventsAreCommits`. The note of each hazard in `PROJECT.json` says what its properties leave open.
- Amounts are at least 1: the order service enforces it (`services/order/app/schemas.py`), the
  inventory service does not.
- `OrderFollowsShipment` is claimed without faults, for shipments whose updates do not overlap and
  orders without a DELETE past its check: nothing in the code repairs what those leave.
- `GitopsBump`: nobody forces a push or deletes the branch; source commits touch no values file.
- `StockMatchesCatalogue` excepts two workers that both found the table empty: the loser uses up ids, and the
  winner's products get others than the 1 to 8 the inventory is seeded with (`services/inventory/app/main.py:35`).
  `CatalogueIsSeeded`, `StockMatchesCatalogue` and `ReviewsAreOfProducts` are claimed without faults: a
  failed seeding is logged and the worker serves all the same, and an unverified review is accepted.
- `ValuesFile`'s properties are claimed for files of two levels. In others the code departs from its
  "leaves every other byte untouched" (`set_yaml_field.py:8`): it rewrites a nested `image` that comes
  before the top one and a `tag` at a deeper level of the block, takes the comment of `image: # note`
  for a scalar, and inserts a missing child at two columns whatever the block's indentation. A digest in
  another block makes `if-present` write one.
- `OutcomeIsTold` is claimed without faults and apart from webhooks: those tell nobody by design.

### Fairness

`Spec` of every module has none, and no safety property needs any. `OrderSaga!FairSpec` assumes weak
fairness of each handler's own steps. The code justifies it: every HTTP client has a timeout of 3
or 5 seconds, so a call ends with an answer or an exception, and the event loop and thread pool run
what can run. A new request is never forced to arrive and a fault never forced to happen.

### What the refuting runs show

- *Double confirm* (`services/order/app/main.py:157`): every PUT of `confirmed` commits stock from the
  product's common `reserved`; a repeated one consumes another pending order's reservation.
- *Lost answer* (`:102`): a reserve that took effect but did not answer 200 is never released.
Other weaknesses show only as the conditions of a passing property. Two reserves that overlap both answer 200 and one is lost
from `reserved`, and an adjustment and a reserve that pass each other leave reserved > quantity
(`LogExplainsRow` and `ReservedWithinStock` speak of rows never written from an old snapshot). Two refunds
that overlap both answer 200 (`FreshPaymentsSettleOnce`). A rerun of a build whose bump was rolled back is
rebased to nothing, and the script reports a push (`PushedBumpsStay` finds the rolled-back commit). DELETE of a
reserved order releases nothing (`StockExplained` counts its items as held), and a lost call to
confirm an order is never made again (`OutcomeIsTold` is claimed without faults).

## 4. Proofs

All theorems hold for every value of the constants; the only assumptions are the named ones of the
modules (`InventoryAssumption`, `OrderAssumption`, `PaymentAssumption`, `ShippingAssumption`, `GitopsAssumption`,
`CartAssumption`, `RecordsAssumption`, `ValuesAssumption`), which TLC evaluates in the passing runs. Every inductive invariant was checked by TLC on the
component's passing run before it was proved.

The library's induction theorems take a predicate as a parameter, which the provers cannot instantiate. `DataLemmas`
does induction by the least counterexample instead: a non-empty set of numbers has a least element
(`LeastNatural`, from the well-foundedness of `<`), a non-empty set of finite sets a smallest one
(`SmallestSubset`). From these it builds what folds and recursion need: `SumRecursion` says that
`SumFunctionOnSet` is what its recursive table says, `SumSplit` and `SumChange` what one element contributes
and what changes when one element does; `StepTable` gives a recursion over 1..N its function.

**InventoryProofs.** The columns' invariants are not inductive alone: a commit writes values computed from
a snapshot, so the invariant must know about snapshots. `IInv` adds `Snapshots` (a
snapshot's columns are not negative, a row that was found is still there, a flushed insert is an
adjust of a missing row) and `StaleAreListed`. `WriteEffect` says once what a commit does to a row,
fresh or stale; `WritePreserves` reduces the four operations to arithmetic on the snapshot.

- `TypeCorrect`, `ColumnsNonNegative`, `RowsAreUnique`: `[]TypeOK`, `[]NonNegative`, `[]OneRowPerProduct`.
- `FreshLogIsExact`: `[]LogExplainsRow`. `FreshStockCoversReserved`: `[]ReservedWithinStock`.
- `FreshCommitsAreAtomic`: the action property `FreshStepsAreAtomic`, for any number of sessions.
- `SerialRefinement`: with one session, `Spec => ImplementsLedger`. With one session nothing
  can commit between a SELECT and its commit, so every snapshot equals the row and every commit is a
  ledger operation.

**PaymentProofs.** `IInv` adds `HandlerOK` (what a handler between two steps knows: a pending insert has
no row yet; a pending write has passed its check), `RowsByCreates`, and `FreshOK`, which ties a
fresh payment's status to the commits made: `pending` or `failed` means nobody has charged or
refunded it, `success` means charged and not refunded, `refunded` means charged.
`QuietPreserves` covers every step that leaves the table alone, `CommitPreserves` the three commits.

- `TypeCorrect`: `[]TypeOK`. `RetriesSafe`: `[]RetriesAreSafe`. `FreshSettleOnce`: `[]FreshPaymentsSettleOnce`.
- `OutcomesAreTold`: `[]OutcomeIsTold`. `ToldInv` strengthens it to the middle of a request: while nothing
  fails, a payment that stands at success has told its order, or some handler is between the commit and the call.

**GitopsBumpProofs.** That a push is a fast-forward says only that the branch's commits are a subset of the
head's; the properties are about tags. `IInv` closes the gap: two heads known anywhere (main, the
branch, what a run started from, built or fetched) that reach the same commits have the same tags
(`Coherent`); every tag but the placeholder was set by a commit its head reaches (`HeadsAreSet`); what a
run started from and fetched is behind the branch; and `RunOK` says what the run knows at each git command. So
a head that is accepted adds at most the run's one commit to the branch, and replaces exactly
the head its patch was made for (`PushReplaces`). `StepOK` and `BuildStep` reduce an action to its own
record and the one head it makes; each action has a lemma.

- `TypeCorrect`: `[]TypeOK`. `PushesStay`: `[]PushedBumpsStay`. `NothingUnseen`: `NothingUnseenIsReplaced`.
- `RerunsAddNoCommit`: `[]RerunsAddNothing`. `RerunInv` is about all heads known anywhere: a head with the bump
  of a run has that run's tags, or a later commit of the head has set them (`HasTags`). A second run of the same build
  whose patch applies therefore finds a tag that was set back (`Rivals`); otherwise the rebase drops it.

The second half of the module is about `ValuesFile`. `FileInv` says what `HelmReadsTheImage` leaves open, so that the
next bump finds its way again: the first `image` of the file is at the top and opens a block (`Ready`), in which the
fields are read (`Carries`), and the rest and the comments are those of the file that was found (`Keeps`).

- *Where Helm looks.* In a file of two levels the lines that say a field are those of the block with its key
  (`SaysBlock`), and no key occurs twice in it (`ReadyBlock`). So the first line `find_key` meets is the only one
  Helm reads (`FoundInBlock`).
- *What a write does.* `set_field` gives the field's line the value, or adds one line right below `image` (`Wrote`). The
  lines below move by `At`. `WrittenSiblings` and `WrittenOpens` carry the nesting over line by line, and from them the
  text stays well formed and of two levels (`WrittenWellFormed`, `WrittenReady`), the field is read (`WrittenIsRead`),
  and the rest is as it was (`WrittenRest`, by the least line at which two rests would differ).
- *A file without a block* gets one at its end, below every other mapping (`AppendedReady`, `AppendedRest`).
- *What a bump finds.* `classify` is `ok` exactly where there is such a block (`OkIsReady`, `ReadyIsOk`), and
  `re_has_digest` sees a digest exactly where Helm does (`HasDigest`): the expressions of two scripts agree with one
  another and with YAML on these files.

- `FileTypeCorrect`: `[]FileTypeOK`, for any file. `HelmAlwaysReadsTheImage`: `[]HelmReadsTheImage`.
- `RestIsNeverTouched`: `[]RestIsUntouched`. `RerunsNeverChange`: `[]RerunsChangeNothing`.

**OrderSagaProofs.** `SagaInv` keeps the handlers in their loops: which loop a call is in follows from what it asks
for, an index is at an item of its order, `reserved` is covered by `quantity`. `StockInv` is the balance: what all
orders hold is at most what is reserved, and without a fault just that, with what was sold missing from the quantity. Each action
has a lemma that says how it moves *one* order's share of one product (`Held`, `Sold`) and the columns; `SumChange`
turns that into the change of the totals. The share of an order in the middle of its loop is what
the loop has left, which splits off one item at every step. `SettledOnce` is what makes an order's share that of *one* call.

- `TypeCorrect`: `[]TypeOK`. `HeldIsReserved`: `[]HeldStockIsReserved`. `Explained`: `[]StockExplained`.

**ShippingProofs.** `HistoryInv` adds that an update about to write has read a part of what has been committed
by then, and that shipments of one order are one. `OrderInv` says where the order stands in the middle of an update: where
the commits have put it once every update is at rest, and otherwise the one update under way is the latest
commit and has seen the order as it is.

- `TypeCorrect`: `[]TypeOK`. `OneShipment`: `[]OneShipmentPerOrder`. `EventListIsPartOfCommits`: `[]EventsAreCommits`.
- `FreshHistory`: `[]FreshHistoryIsComplete`. `OrderFollows`: `[]OrderFollowsShipment`.

**CartProofs.** First the operators. A cart with one line per product (`Carts`) is as good as the sums it adds up to
(`GoodsOfLine`, `GoodsAre`); `AddItem`, `UpdateItem` and `RemoveItem` say that the code's edits of the lines are the
promise's edits of the sums and leave one line per product, `RemoveItem` by induction along the lines. Then the steps. `CartInv` adds
to the types that the copies that have a handler are the first `attempt[r]`, that the present goods are in `since`
of every open copy, and that what a handler has read is a cart it may change whose goods are in its `since`
(`HasRead`, which covers the `unsure` ones too). It is needed because a write happens long after the read it rests on:
only `HasRead` still says then that the value in hand was once the cart. So whoever writes, however late and whatever
has expired (`Writing`), applies its request to a cart in its `since`.

- `TypeCorrect`: `[]TypeOK`. `OneLineEach`: `[]OneLinePerProduct`.
- `KeepsThePromise`: `Spec => ImplementsPromise`, the whole refinement: writes are `Apply`, a 404 or an error before
  any write is `End`, a request error is `ForwardAgain` or `Answer`, the TTL is `Expire`; reading, and losing the
  answer of Redis, are stutters.

**RecordsProofs.** `TxInv`: what is in the making is what was asked for, under ids nobody else has. `KeysInv`: rivals for a
key are never both granted, since the second one waits, and rows have owners; so one row has a key and nobody
loses to nobody. `SomebodyMoves` follows from the order in which all workers insert the samples: of a group of waiting
transactions, the one that is furthest waits for nobody in it. `SeedInv`, `ReviewInv` and `MessageInv` carry their properties through
the steps of a handler. `StockInv` says where seeding stands: not begun, one worker at it alone, with the first ids, or over.

- `TypeCorrect`: `[]TypeOK`. `OneRowPerKey`: `[]KeysAreUnique`. `NobodyLosesToNobody`: `[]LosersHaveARival`.
- `NoDeadlock`: `[]SomebodyMoves`. `CatalogueComplete`: `[]CatalogueIsSeeded`. `StockFits`: `[]StockMatchesCatalogue`.
- `ReviewedProductsExist`: `[]ReviewsAreOfProducts`. `MessagesAccountedFor`: `[]MessagesAreRecorded`.
- `DeletedForGood`: the action property `DeletedStaysDeleted`.

Only model-checked: `HandlersFinish`, since liveness under fairness is beyond the proof system. Every invariant,
action property and refinement of the passing runs is a theorem. That the refuted properties fail needs no proof:
TLC shows a run.

## 5. Not modelled

The dry-run, commit-only and pull-request modes of the bump script; request logging, metrics and
health endpoints; GET endpoints, the statistics of reviews among them (three SELECTs that may see three
states); prices, currencies and text; passwords and tokens. The routing of the gateway: a lookup in a
constant table, of which no prefix is a prefix of another. It maps `/api/shipping` to `/shipping`, which the
shipping service does not serve. The scripts that lint, smoke-test and report run tools one after the other
and keep no state. Build, scan and promote work on registries and scanners outside the repository. The
charts, Terraform and dashboards are declarative configuration, where the models take their environment
from: two workers, two replicas, PostgreSQL at READ COMMITTED.

## 6. Plan

In order of importance:

1. `Checkout`: payment and order composed, calls in the other order than the commits.
2. `ConnectionPool`: connections held across awaits, and the deadlock of a pool that only the blocked
   event loop could refill.
3. `Pipeline`: build, scan, promote of concurrent builds of one revision; only scanned bytes are
   promoted.
