# Automotive Workshop API: a TLA+ model

This directory models the Go back end of the workshop (`src/`): the life of a
service order, its quote, its executions, the parts used for it, the registries
and prices it rests on, what the read side shows of it, how administrators get
in, and the HTTP requests that work on all of this concurrently. TLC checks the
models on small instances; TLAPS proves the central theorems for every value of
the constants.

## 1. The system

One process (`cmd/api`) serves HTTP; any number of replicas share a PostgreSQL
database, which holds all the state there is. Every request runs in a goroutine:
a handler decodes it, a use case reads what it needs with single statements on
the connection pool, the domain checks what was read, and a repository commits
one transaction. There is no lock between the reads and the transaction. What
keeps concurrent requests apart is the `WHERE` of each UPDATE, re-evaluated by
PostgreSQL (READ COMMITTED) on the row it has locked, and a few unique indexes.

| Component | State | Operations | What makes it correct |
|---|---|---|---|
| Order lifecycle (`service-order/domain`, `usecase/lifecycle.go`, `adapter/postgres`) | `service_orders.status`, `service_order_history` | start diagnosis, send, approve, reject, finalize, deliver, from two channels | one legal transition at a time, each with one entry |
| Quotes (`usecase/quotes.go`) | `quotes`, `quote_products`, `quote_services` | compose, send, decide | agrees with the order; total is the sum of the lines; presented once; decided once |
| Executions (`usecase/executions.go`) | `audit_services` | start, finish | only after approval; ended once; all ended before completion |
| Notification (`adapter/notifier`) | none (external provider) | e-mail after the send's commit | at most one, only after a commit |
| Stock usage (`usecase/stock_usage.go`) | `products.current_stock`, `stock_movements` | use, reverse, list | all lines or none; never below zero; movements explain balances |
| Products (`product`) | `products` | create, edit, deactivate, adjust, query | the same, with the same rows |
| Customers, vehicles (`customer`, `vehicle`) | `customers`, `vehicles` | create, edit, deactivate, query | unique document and plate; inactive stays inactive; active owner |
| Service catalogue (`service-catalog`) | `services` | create, edit, deactivate, query | unique code; edits of different columns do not lose each other |
| Opening (`usecase/opening.go`) | the order, its requested items, `service_order_tracking_tokens` | create | all or nothing; active customer and own vehicle; the token reaches the client |
| Queries, metrics, tracking | none | detail, quote, paginated lists, tracking page | what is shown together belongs together; a walk through the pages misses nobody who stayed |
| Auth, bootstrap (`auth`, `shared/token`, `cmd/bootstrap-admin`) | `users` | create administrator, login, check a token | created once, never overwritten, truly reported; tokens lapse |
| Money (`shared/money`, `shared/database/money.go`) | none | parse, store, multiply, add, show | exact, bounded, no overflow |
| Documents, plates, tokens | none | validate, format, hash | pure functions on strings |
| HTTP adapters, configuration, deployment | none | decode, wire, deploy | no state of their own |

Components meet in the database: the order's status is read by quotes,
executions and stock usage; the executions decide about finalization; products
are written by two features with SQL of their own; opening reads customers,
vehicles and both catalogues. `PROJECT.json` lists the components with their
sources and, under `hazards`, what is hard to test, each at its line.

What is hard: a request decides on a snapshot that may be stale when it commits
(some checks are repeated by a guarded UPDATE, others are not); a quote is three
tables read by three statements; the e-mail goes out after the commit and may be
lost; a stock usage locks several rows one after the other; views are put
together from several statements with no transaction around them, and the trail
is listed by the start of transactions and not by their end; amounts are int64
with bounds of their own; a bootstrap job is retried after a commit nobody heard
of; replicas have clocks of their own; a request may end between any two steps.

## 2. The modules

| Module | Models |
|---|---|
| `OrderLifecycle` | the abstract lifecycle: status and decision, one domain method per action |
| `ServiceOrderWorkflow` | requests that read step by step and commit: order, quote, executions, trail, e-mail |
| `OrderViews` | on top of it, the tracking page, the detail view and the quote, statement by statement, and the times of the trail |
| `AtomicStock` | the abstract stock: one indivisible step per call |
| `StockLedger` | usage, reversal, adjustment and product edits, statement by statement under row locks |
| `Registry` | customers, vehicles, products and services: registration, edits, deactivation |
| `Opening` | `Registry` and, on top of it, the opening of orders |
| `Money` | amounts: parsing, the NUMERIC column, multiplication, addition, the answer; and what they should be |
| `PriceList` | prices on their way from a request into the catalogue and a quote, with `Money` |
| `PageWalk` | a client's walk through a listing that changes meanwhile |
| `AdminAccess` | bootstrap jobs with retries, login, tokens and the clocks of replicas |
| `ServiceOrderWorkflowProofs`, `StockLedgerProofs`, `OrderViewsProofs`, `OpeningProofs`, `PriceListProofs`, `PageWalkProofs`, `AdminAccessProofs` | the theorems, one module per component |
| `Positions` | lemmas about the last position of a sequence with a property and about sums over a finite set |
| `MCServiceOrderWorkflow`, `MCOrderViews`, `MCStockLedger`, `MCOpening`, `MCStaffApi` | the instances TLC checks |

### ServiceOrderWorkflow

`status`, `quote`, `items`, `history` and `executions` are the tables of one
order. The rows of two orders are disjoint and every statement names the order,
so one order shows every interleaving. `at`, `op` and `seen` are the goroutines:
the next step, the operation and what was read. `mails` is what the provider
accepted, and `sentTotal` a history variable that no action reads.

Each read is an action named after the repository's method
(`FindServiceOrder`, `FindQuote`, `FindQuoteProducts`, ...), each transaction an
action named after its method (`SaveQuote`, `DecideQuote`, ...). A transaction
is one step: every row it reads it locks, or it has only one statement that
matters, so it is equivalent to running alone when it commits. `Refuse...` are
the early returns with an error, `RollBack` the guarded UPDATE that finds no
row, `Drop` a request that ends for a reason outside the program: an error of
the database, a canceled context, a dead process. The external channels
(`UpdateStatusExternal`, `DecideQuoteExternal`) dispatch to the same cores.

Choices worth knowing:

- An order read in a status that the operation does not admit ends the request
  without a step, because nothing changes and nothing was held.
- `history` is in commit order. The program lists it by `occurred_at`, the start
  of the writing transaction, which is another order: `OrderViews` has both.
- A composition has at most one line per catalogue entry: the primary keys of
  the item tables refuse the rest, and the transaction rolls back.
- Prices, quantities and descriptions are reduced to the total of a line, the
  only thing a property tells apart here. `PriceList` has prices and quantities.
- Finalizing a quote without services skips the read of the executions; the
  model takes the read and finds that nothing is required.
- A recomposition after `MaxVersion` is cut off by the bound, not refused.

### OrderViews

`OrderViews` extends `ServiceOrderWorkflow` with the read side. `view` is a view
under way: the statements left, in the order of `Statements`, and what the
earlier ones read. The token's check and the rows of the customer, the vehicle
and the requested services say nothing of the order's progress and are left out.
`occurred_at` is `DEFAULT now()`, which PostgreSQL fixes when the transaction
begins, so `BeginTransaction` is a step of its own and `stamps[i]` is the number
of entries that were committed when the writer of entry `i` began. A complete
view does not change any more, so nothing is interleaved with it until its
`Answer`. `quiet` records whether a composition that had passed its check was
still to be saved: the unguarded upsert (first finding) is the only way a
decided quote can be shown torn.

### StockLedger

`stock`, `active` and `movements` are what is committed; `job[r].work` is what
the transaction of `r` has written and not committed, so `Balance(r, p)` is the
row as `r` sees it; `locks` are PostgreSQL's row locks. A line's UPDATE and the
INSERT of its movement are one step because the row stays locked in between. An
UPDATE whose `WHERE` fails on the committed row, or whose value leaves the
column's range, fails at once; one that fits waits for the lock and is tried
again. `SaveProduct` writes back the status read by `FindProduct`, as the
whole-row UPDATE does. Foreign keys take a share lock that does not conflict
with these UPDATEs. The order appears as its status, which `FinalizeOrder`
(`ServiceOrderWorkflow`'s) may change at any time. `Free`, `Waits`, `Deadlocked`
and `AbortDeadlocked` stand for PostgreSQL.

### Registry and Opening

`rows` are the committed rows of four tables by id, each reduced to what a rule
is about: the key (document, plate or code), the owner of a vehicle, the status.
`job[r]` is the row that request `r` has loaded or built and is about to write;
every statement commits on its own, so it is one step. `Edit` and `Deactivate`
load a row as `FindByID` does, and `Save` writes it back whole, as the UPDATEs of
customers, vehicles and products do; services change by UPDATEs of single
columns and have no such gap. `Taken` is the unique index, asked once in advance
(`CheckUnique`) where the code asks, and again by `Save`. No row is ever deleted.

`Opening` extends `Registry`: `form[r]` is what the opening run by `r` has
resolved, with one action per statement of `Opening.Create`, while registry
requests change the same rows. `Create` is the transaction; the order stands for
its requested items, its first trail entry and its tracking token, which are
inserted with it or not at all. From there on the order is
`ServiceOrderWorkflow`'s, whose `Init` is what `Create` leaves behind.

Left out: the customer's e-mail (a second unique key that nobody asks for in
advance), names, prices and the quantities of requested products. A plate is
looked up as the client spelled it, without the normalisation that registration
applies; a plate that is not found that way ends the opening, as `Abandon` does.
A requested service may be inactive (the code asks only for its existence). A
service id sent twice violates a primary key and rolls back, `Abandon` again.

### Money and PriceList

`Money` translates `shared/money` and the NUMERIC conversion as operators. A
JSON number is taken apart into sign, digits, decimals, exponent and the number
of digits the exponent is written with, which is what `splitNumber` and `Parse`
work on; an int64 wraps (`Wrap`). Behind them
stand `Denotes` and `Representable`, which say over the integers, without a word
or a column, which amount a number is. The size of the column and of the word
are constants. `Power10` is the power of ten, which the code gets from
`big.Int.Exp` or writes as zeros behind the digits.

`PriceList` is the way of a price: `Create`, the two kinds of product edits
(`BeginRepricing`, `BeginRenaming`, `EndEdit`: read, change, write the whole row),
the service's UPDATE of single columns, and a composition that copies prices
line by line and then multiplies and adds. `lastSet`, `overran` and
`quote.exact` are history variables that no action reads. Two reductions: a
number that is refused is asked before there are any entries, since nothing is
read or written; and a composition that has copied its prices is not interleaved
with edits, since neither reads the other.

The code refuses an exponent by the length of its text (`ExponentTooLong`), not
by its value: `1e0000000001` is 10.00 and refused, and so is `0e9999999999`. The
comment at `money.go:114` ("any exponent this large is out of range or has too
many decimals anyway") is wrong for both. `PriceIsWhatWasSent` names exactly
these two exceptions, zeros in front of the exponent and a number that is zero,
and numbers of both kinds are among those of the run: no other number that fits
may be refused.

### PageWalk

The listings of products and of the order queue: one statement per page with
`LIMIT`/`OFFSET` in a total order, and the total counted by the same statement,
so that a page past the end says zero. `listed` is the order in which the rows
stand; they enter anywhere, move up or leave. The movements of a product are
ordered by `occurred_at` alone, which leaves ties open: a walk may miss any of
them, and the model does not cover that listing. Customers and vehicles
are listed the same way as products, services all at once.

### AdminAccess

`users` is the table, `job[j]` a bootstrap job with the pods it has used; a pod
may fail before or after its INSERT, also after the commit and before the
report. `Login` and `Verify` use the clocks of the replicas they run on. A token
is what its claims say; bcrypt and the signature are libraries that are relied
on.

## 3. The runs

| Run | Question | Bounds |
|---|---|---|
| `WorkflowSafety` | Do order, quote, executions, trail and e-mails stay consistent, and do the requests implement `OrderLifecycle`? | 2 requests, 3 compositions (a service; a product; two services), 2 executions, 2 versions |
| `WorkflowLiveness` | Do competing transitions settle? | 2 requests, 1 composition, 1 execution, 2 versions |
| `Stock` | Do movements explain balances, is every call atomic, what does a finalized order still lose, does every call end? | 2 requests, 2 products (2 pieces and 1), 3 usages in both orders, `MaxStock` 2, 5 movements |
| `Reception` | Do keys stay unique, do orders name their customer's vehicle, does what is deactivated stay so? | 2 requests, 2 customers, 2 keys, 1 vehicle, 1 product, 1 service, 1 order |
| `Views` | Does what is shown together ever contradict itself? | 2 requests, 2 compositions (a service; a product), 2 versions, no executions, 1 view at a time |
| `StaffApi` | Are prices exact and kept, do walks find what stayed, are accounts and tokens right? | column of 3 digits, word of 2048, 252 numbers, exponents of one digit at most, 1 product, 1 service, 2 edits, 5 quotes; 4 rows, 3 changes per walk; 3 jobs with 2 tries, 2 replicas, clocks one apart, TTL 2 |
| `DecidedQuoteFrozen` | "A quote that has already been decided cannot be altered" | violated |
| `CompletedOrderClosed` | "Once an order is COMPLETED, it no longer accepts new executions" | violated |
| `TrailStatus` | "Service order status immediately before the event" | violated |
| `MailedTotal` | `SentVersion` is "which Version was actually presented" | violated |
| `DoubleReversal` | "A movement is reversed at most once" | violated |
| `Reactivated` | "never reactivated automatically" | violated |

Why the bounds are enough to be interesting: every race here is between two
requests, one of which commits between two steps of the other, and a slot is
reused, so longer chains of requests occur too. Two compositions of different
items show every mixture of header, products and services. Two products in both
orders give the shortest lock cycle; a product of one piece makes the second
taker fail; `MaxStock` 2 is the column's largest value and is reached by an
entry or a reversal. `MaxVersion` and `MaxMovements` cut histories off and
appear only in guards. In `Reception` two customers quarrel about two keys, so
that a document can be given away and claimed back while a copy of the row is
under way; the other kinds share the actions and need one row each, and one
order is enough because an order is never changed here. 6 movements were also run (294,000 states) with the same
result. The request slots, execution ids,
customers and keys are interchangeable, which the safety runs use as symmetry; the runs with liveness do not.

`StaffApi` holds three modules that share no table and no variable, so that their
steps commute: `MCStaffApi` picks one of the three "desks" at the start and
leaves the others alone. Its column of three digits and word of 2048 keep the
proportions of the program's twelve digits and 63 bits as far as they matter:
the sum of two amounts fits the word, the product of an amount and a quantity
does not. The numbers reach both ends of the column from both sides, with the
point and the exponent in every relation to two decimals; exponents of two
digits, one more than allowed, occur with a zero in front and without. Two clocks one apart
and a TTL of two give every order of issue, check and expiry.

Each violated run is a finding of `PROJECT.json` with the quoted line. The
pattern is the same in most of them: a read before the transaction that the
transaction does not repeat. `DoubleReversal` does read inside the transaction,
but without a lock, so that what was read may change before the
commit. `Reactivated` writes the old read back. `MailedTotal` is the reverse: the transaction uses
the current version and the notification the old read.

Every property of a passing run has a mutant: a faulty variant of one action
("Faulty variant" in the modules) under which TLC finds it violated.

### Properties

- `OrderAgreesWithQuote`: status and decision tell the same story. Two tables,
  moved by six operations, most of them guarded on one of the two only.
- `ChecksStayTrue`: what a request checks once and never again is still true
  when it commits. The unguarded commits of `SaveQuote` and `StartExecution`
  rest on it.
- `ExecutionsFollowApproval`: no execution without approval, although the INSERT
  asks nothing.
- `TrailLeadsToStatus`: the transitions in the trail chain up to the status.
- `VersionCountsCompositions`, `TotalIsSumOfItems`: concurrent recompositions
  lose neither a version nor a line.
- `PresentedOnce`: one send, at most one e-mail.
- `CompletedWorkIsDone`: completion implies ended executions of all services,
  unless a composition came after the approval (the first finding).
- `NoCrossedLocks`: a send locks the order and then the quote, a decision the
  quote and then the order; the guards exclude each other, so they never wait
  for each other.
- `EndIsRecordedOnce`, `ImplementsLifecycle`: action property and refinement.
- `CompetingTransitionsSettle`: not everybody loses a race.
- `TrailInTimeOrder`: the status changes stand in the order of their times,
  although a time is a transaction's start and not its end.
- `TrackingHangsTogether`, `QuoteKeepsUpWithTrail`, `DecidedQuoteShownWhole`: views
  read by several statements hang together. The first two rest on the order of
  the statements: read the other way round, they fail.
- `LedgerExplainsStock`, `ImplementsAtomicStock`, `EveryCallEnds`: the ledger.
- `LateUsagesRunOut`: how much of "A usage deduction can only be registered while
  the service order is `IN_PROGRESS`" the code does keep. The usage reads the
  status again inside its transaction, which is meant to close the race
  (`design.md:157` of the stock usage), but the SELECT locks nothing, so the
  order may be finalized before the commit. Each part it then still loses ends
  one of the usages that had read it before; no other comes to deduct.
- `KeysUnique`: neither racing registrations nor a row written back from an old
  copy, with a document given away since, produce a duplicate.
- `OrdersNameOwnVehicle`: three reads of different moments, one order.
- `RetiredForGood`: how much of "never reactivated" and of "ACTIVE customers
  only" the code does keep. A deactivation may be undone, and an inactive
  customer may get an order or a vehicle, only by requests that were under way
  when it committed; once these have ended, never again.
- `PriceIsWhatWasSent`, `PriceSurvivesTheRoundTrip`: an accepted number is the
  amount it denotes, a refused one is negative or denotes none that fits, but for
  the over-long exponents named above, and what is shown can be sent back.
- `LastPriceHolds`: an entry has the price last set, always for services, and for
  products unless an edit wrote over a newer row.
- `QuoteIsExact`, `OnlyTooLargeIsRefused`: the word never overflows, and only what
  does not fit is refused.
- `WalkMissesAtMostLeavers`: a walk misses no more of the rows that kept their
  place than rows have left.
- `AccountNeverReplaced`, `ReportsAreTrue`: retries and races of bootstrap jobs.
- `TokensLapse`: TTL and difference of clocks bound a token's use.

### Fairness

`WorkflowLiveness` assumes weak fairness of each request's next step: a
goroutine that can run does. Clients owe no call, and `Drop` stays possible at
every step, so the property speaks of the requests that are not dropped.
`Stock` assumes strong fairness of a request's steps, because PostgreSQL queues
the waiters of a row and so serves one whose row is released again and again,
and weak fairness of the abort of a deadlock, which `deadlock_timeout`
guarantees. Nobody has to call, finalize or fail.

## 4. The proofs

Checked by TLAPS with Z3, Zenon and LS4, for any value of the constants that the
assumptions admit:

| Module | Theorem | Says |
|---|---|---|
| `ServiceOrderWorkflowProofs` | `TypeCorrect` | `[]TypeOK` |
| | `OrderAlwaysAgreesWithQuote` | `[]OrderAgreesWithQuote` |
| | `ChecksAlwaysStayTrue` | `[]ChecksStayTrue` |
| | `ExecutionsAlwaysFollowApproval` | `[]ExecutionsFollowApproval` |
| | `LocksNeverCross` | `[]NoCrossedLocks` |
| | `RequestsImplementLifecycle` | `ImplementsLifecycle` |
| | `EndIsAlwaysRecordedOnce` | `EndIsRecordedOnce` |
| | `VersionAlwaysCountsCompositions` | `[]VersionCountsCompositions` |
| | `TotalIsAlwaysSumOfItems` | `[]TotalIsSumOfItems` |
| | `TrailAlwaysLeadsToStatus` | `[]TrailLeadsToStatus` |
| | `AlwaysPresentedOnce` | `[]PresentedOnce` |
| | `CompletedWorkIsAlwaysDone` | `[]CompletedWorkIsDone` |
| `StockLedgerProofs` | `StockTypeCorrect` | `[]TypeOK` |
| | `LedgerAlwaysExplainsStock` | `[]LedgerExplainsStock` |
| | `CallInvariant` | `[]CallInv`: each slot serves one call, line by line |
| | `LedgerImplementsAtomicStock` | `ImplementsAtomicStock` |
| | `LateUsagesAlwaysRunOut` | `LateUsagesRunOut` |
| `OrderViewsProofs` | `ViewsOnlyWatch` | `ViewSpec => Spec` |
| | `ViewTypeCorrect` | `[]ViewTypeOK` |
| | `TrackingAlwaysHangsTogether` | `[]TrackingHangsTogether` |
| | `TrailAlwaysInTimeOrder` | `[]TrailInTimeOrder` |
| | `QuoteAlwaysKeepsUpWithTrail` | `[]QuoteKeepsUpWithTrail` |
| | `DecidedQuoteAlwaysShownWhole` | `[]DecidedQuoteShownWhole` |
| `OpeningProofs` | `OpeningTypeCorrect` | `[]TypeOK` |
| | `OrdersAlwaysNameOwnVehicle` | `[]OrdersNameOwnVehicle` |
| | `KeysAlwaysUnique` | `[]KeysUnique` |
| | `RetiredAlwaysForGood` | `RetiredForGood` |
| `PriceListProofs` | `PricesAreTyped` | `[]PriceTypeOK` |
| | `PriceIsAlwaysWhatWasSent` | `[]PriceIsWhatWasSent` |
| | `PriceAlwaysSurvivesTheRoundTrip` | `[]PriceSurvivesTheRoundTrip` |
| | `QuotesAreExact` | `[]QuoteIsExact` |
| | `TotalInvariant` | `[]TotalInv`: the total is the worth of the lines added |
| | `OnlyTooLargeIsEverRefused` | `[]OnlyTooLargeIsRefused` |
| | `LastPriceAlwaysHolds` | `[]LastPriceHolds` |
| `PageWalkProofs` | `WalkInvariant` | `[]WalkInv`: rows are missed only as others leave |
| | `WalkAlwaysMissesAtMostLeavers` | `[]WalkMissesAtMostLeavers` |
| `AdminAccessProofs` | `AccountsAreNeverReplaced` | `AccountNeverReplaced` |
| | `ReportsAreAlwaysTrue` | `[]ReportsAreTrue` |
| | `TokensAlwaysLapse` | `[]TokensLapse` |
| | `AccessTypeCorrect` | `[]AccessTypeOK` |

The workflow. `OrderAgreesWithQuote` is not inductive: a send commits on the
order's status alone, and that there is a quote to send is known only from a
read made earlier. `ExecutionsFollowApproval` is not inductive either: starting
an execution commits on nothing. `ChecksStayTrue` is what is missing: it says of
each slot that what it read once cannot have become false. The three together,
`WorkflowInv`, are inductive (`WorkflowInvariant`). The lemmas follow the shape
of the steps: a step that touches no row leaves the claims of the other slots
alone (`RowsUntouched`), a step that touches rows undoes nothing a claim rests
on (`ClaimOutlives`), and a slot that ends claims nothing (`ClearedSlot`). The
refinement maps each step to a domain method or a stutter with the help of the
same invariant.

The trail. `PresentedInv` adds that before a send nothing has been mailed and that a
slot about to notify belongs to the one send. `WorkInv` adds what a finalization
has read: as long as no composition follows the approval, the services it found
ended are the services of the quote.

The views. A step of `OrderViews` is a step of the requests or leaves the order
alone (`ViewsOnlyWatch`), so every theorem about the workflow holds under the
views too. Each view then rests on what cannot be undone between its statements.
Tracking: a status the order has had stays in the trail (`TrackingInv`). Detail:
the quote never lags behind the trail, a decision and a presentation are final
(`DetailInv`). Quote: with no composition pending a decided quote and its lines
rest, because a composition that starts later is refused (`WholeInv`, which
needs `ComposersPace`: a composing request reads the quote and commits, with
nothing in between). The times of the trail rest on `InTime`: transitions only
lead forward (`Rank`), so if the order still has the status a request read, no
transition was committed since its transaction began.

The ledger. `LedgerInv` adds to the property what a transaction has not
committed: each of its movements stands on a row it holds the lock of and starts
where its own view of the row stands (`SlotOK`). A commit then appends a chain
that begins where the ledger ended, and no other transaction's view moves,
because the rows are locked.

That a call is atomic (`LedgerImplementsAtomicStock`) needs to know more: which
call a slot serves. `CallInv` says that the lines already booked and the lines to
come are together one usage, one adjustment or the return of one exit
(`Called`), that what a usage or an adjustment has booked stands on rows that are still active,
because whoever deactivates a row needs its lock, and that every movement names
the call's order. So a commit appends what `AtomicStock` books in one step: the
n-th movement starts at the committed balance plus what the lines before it
change, which a sum over positions says (`SumFunctionOnSet`); every other step
leaves the three tables alone, or is the deactivation.
`LateUsagesAlwaysRunOut` follows from it too: at a commit the exits of an order
belong to a usage (`TakingEndsAUsage`), and only `ConfirmOrder`, which asks for
an order in progress, makes one more request deduct (`UsersOnlyLeave`).

Reception. `OpeningInv` says what a slot's copy of a row has in common with the
row (`HeldRow`), that a new row has one writer (`OneWriter`) and what an opening
has resolved (`Resolved`). `KeysUnique` follows from it and the unique index.
`RetiredForGood` follows step by step: a request without a copy of a deactivated
row, or a form that names it, cannot get one.

Prices. `ExactInv` says that copied prices fit the column and line totals are
exact products; each addition then stays inside a word of more than twice the
column. `TotalInv` adds that the total is the exact worth of the lines added:
when a product or a sum does not fit, it is part of what the quote is worth, so
the quote is worth more than the column holds. `EditInv` says what an edit
carries while its row is still the one it read, and `DeskInv` that it fits.

What `Parse` makes of a number does not depend on the state, so
`PriceIsWhatWasSent` is arithmetic (`DecodeIsExact`): how many zeros are trimmed
(`TrailingZerosTrimmed`), that a count of digits bounds a number by powers of ten
(`DigitCountBounds`, `DigitsTellTheRange`), and which multiples of a power of ten
are whole cents (`MultipleDenotes`, `DenotedIsMultiple`). The round trip follows
from it and from the form `MarshalJSON` chooses (`ShownIsDenoted`,
`ShownIsAccepted`). That an
exponent which needs more than nine digits makes a number too large or too small
is `LongExponentIsLarge` and the assumption `LengthAssumption`, the least obvious
one: it is so only if the number is not written with about 10^9 digits of its
own to make up for it. The code sets no limit on the body of
a request; a number of a gigabyte is what the assumption leaves out.

Walks. The invariant behind `WalkMissesAtMostLeavers` counts the rows that
stayed, were not seen and stand before the page asked for next (`Missed`). A row
that enters or moves up pushes others towards later pages and cannot add to
them; a row that leaves before that page pulls one row over the boundary, and
one is what the right-hand side grows by. Reading a page adds nobody, since what
the page passes is seen, and the last page leaves nobody behind it
(`LastPageReaches`).

Access. `ReportInv` follows the creator of an account from its INSERT through its
report; `TokenInv` remembers of each token the clock it was issued by.

The assumptions are those the modules name: items name services of the
catalogue, a composition is a finite non-empty set of items with one line per
catalogue entry, usages consist of EXIT lines, the word is more than twice the
largest amount, and the "nothing" values are outside their sets. TLC evaluates
them in every run.

Recursion. Powers of ten and sums are defined by recursion, and the library's
induction rules take an operator as a parameter, which the provers cannot
instantiate. The equations that define them are therefore shown by a smallest
counterexample (`LeastNumber`, `SmallestSet` in `Positions`, from the
library's well-founded order on numbers, a set by its cardinality), and everything
else from these equations (`PowerSteps`, `PowerSum`, `SumAdd`, `SumMonotone`).

Every invariant, the action properties and both refinements are theorems. Only
model-checked are the liveness properties, `CompetingTransitionsSettle` and
`EveryCallEnds`: liveness under fairness and ENABLED are out of the prover's
reach.

## 5. Not modelled, and why

Routing, JSON, status codes and error wording carry no state of their own.
Filters of the listings choose rows and the metrics are one aggregate SELECT.
Configuration, migrations, infrastructure and CI are declarative; several
replicas share only the database, and their clocks are in `AdminAccess`. bcrypt,
the JWT's signature and the e-mail provider are libraries and services.
Documents, plates and tracking tokens are validated, formatted or hashed by pure
functions on strings; what matters of them is whether two are the same, which is
a key in `Registry`. The tracking token that a failed read after the commit never
shows to anyone, and the order of a product's movements with equal times, are
listed as hazards without a property: the sources promise nothing about either.

## 6. The plan

Done: every module of the table above, its runs, and the theorems of section 4.
What is left:

1. The listing of a product's movements, whose order leaves ties open, and the
   customer's e-mail as a second unique key.
2. Helpful facts behind the two liveness properties that need no fairness, for
   example that a deadlock always has a victim that can be aborted.
