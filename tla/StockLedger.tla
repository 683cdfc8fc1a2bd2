---------------------------- MODULE StockLedger -----------------------------
(***************************************************************************)
(* The stock of the workshop's products.  Two features write it, each with *)
(* SQL of its own: the usage of a service order and its reversal           *)
(* (service-order), and the manual adjustments and the registration data   *)
(* (product).  Their transactions run statement by statement under the row *)
(* locks of PostgreSQL: an UPDATE locks its product until the transaction  *)
(* ends, another UPDATE of that product waits, a plain SELECT neither      *)
(* locks nor waits and sees what is committed.                             *)
(*                                                                         *)
(* The UPDATE of a line and the INSERT of its movement are one step: the   *)
(* product stays locked in between.  Row locks and deadlock detection are  *)
(* PostgreSQL's and modelled from what the statements rely on.             *)
(***************************************************************************)
EXTENDS Integers, Sequences, FiniteSets, FiniteSetsExt

CONSTANTS
    Products, Orders, Requests,
    Demands,       \* the usage requests: sequences of EXIT lines
    Adjustments,   \* the manual adjustments: ENTRY and EXIT lines
    InitialStock,  \* the balances before the first movement
    MaxStock,      \* largest value of the INTEGER column current_stock
    MaxMovements,  \* bound on the lines admitted
    NoOrder, NoProduct, NoRequest

Lines == [type : {"ENTRY", "EXIT"}, product : Products, quantity : Nat \ {0}]

\* Usage has at least one line and only positive quantities
\* (validateStockUsageItems); a product may be named twice.
ASSUME DemandsAssumption ==
    \A d \in Demands :
        /\ d \in Seq(Lines) /\ d # <<>>
        /\ \A i \in DOMAIN d : d[i].type = "EXIT"
ASSUME AdjustmentsAssumption == Adjustments \subseteq Lines
ASSUME StockAssumption ==
    /\ MaxStock \in Nat
    /\ InitialStock \in [Products -> 0..MaxStock]
ASSUME NothingAssumption ==
    NoOrder \notin Orders /\ NoProduct \notin Products /\ NoRequest \notin Requests

VARIABLES
    status,     \* service_orders.status of the orders under work
    stock,      \* products.current_stock, committed
    active,     \* products.status = 'ACTIVE', committed
    movements,  \* stock_movements, in commit order; an id is an index
    locks,      \* which request's transaction holds a product's row
    at,         \* the step each request takes next
    job         \* what each request works on

vars == <<status, stock, active, movements, locks, at, job>>
-----------------------------------------------------------------------------
\* todo: the lines still to be booked; work: the movements inserted and not
\* committed; product, writes: the row a product request saves.
NoJob == [order |-> NoOrder, todo |-> <<>>, work |-> <<>>, reverses |-> 0,
          product |-> NoProduct, writes |-> FALSE]

Init ==
    /\ status = [o \in Orders |-> "IN_PROGRESS"]
    /\ stock = InitialStock
    /\ active = [p \in Products |-> TRUE]
    /\ movements = <<>>
    /\ locks = [p \in Products |-> NoRequest]
    /\ at = [r \in Requests |-> "idle"]
    /\ job = [r \in Requests |-> NoJob]

Goto(r, step) == at' = [at EXCEPT ![r] = step]

\* The lines admitted and neither committed nor refused yet.
Pending == MapThenSumSet(LAMBDA r : Len(job[r].todo) + Len(job[r].work), Requests)

Room(n) == Len(movements) + Pending + n <= MaxMovements

Delta(line) == IF line.type = "ENTRY" THEN line.quantity ELSE - line.quantity

\* The current_stock that a statement of r sees: its own uncommitted
\* UPDATE of the row, or else what is committed.
Balance(r, p) ==
    LET mine == {i \in DOMAIN job[r].work : job[r].work[i].product = p}
    IN  IF mine = {} THEN stock[p] ELSE job[r].work[Max(mine)].new

\* Faulty variant: the UPDATE does not ask for enough stock.
FitsColumn(r, line) == Balance(r, line.product) + Delta(line) <= MaxStock

Fits(r, line) == Balance(r, line.product) + Delta(line) \in 0..MaxStock

Free(r, p) == locks[p] \in {NoRequest, r}

\* The transaction ends, by COMMIT or by the deferred Rollback.
End(r) ==
    /\ Goto(r, "idle")
    /\ job' = [job EXCEPT ![r] = NoJob]
    /\ locks' = [p \in Products |-> IF locks[p] = r THEN NoRequest ELSE locks[p]]
-----------------------------------------------------------------------------
(* The reads and checks before a product row is touched.                   *)

\* RegisterStockUsage, admitted on a read of the order.
AdmitUsage(r, o, lines) ==
    /\ at[r] = "idle"
    /\ status[o] = "IN_PROGRESS"
    /\ Room(Len(lines))
    /\ Goto(r, "begin")
    /\ job' = [job EXCEPT ![r].order = o, ![r].todo = lines]
    /\ UNCHANGED <<status, stock, active, movements, locks>>

\* Faulty variant: the status is not read again.
ConfirmUnread(r) ==
    /\ at[r] = "begin"
    /\ Goto(r, "deduct")
    /\ UNCHANGED <<status, stock, active, movements, locks, job>>

\* The transaction reads the status again, without a lock.
ConfirmOrder(r) ==
    /\ at[r] = "begin"
    /\ status[job[r].order] = "IN_PROGRESS"
    /\ Goto(r, "deduct")
    /\ UNCHANGED <<status, stock, active, movements, locks, job>>

RefuseOrder(r) ==
    /\ at[r] = "begin"
    /\ status[job[r].order] # "IN_PROGRESS"
    /\ End(r)
    /\ UNCHANGED <<status, stock, active, movements>>

IsReversed(m) == \E i \in DOMAIN movements : movements[i].reverses = m

\* ReverseStockMovement: the order's EXIT movement, in whatever status the
\* order is, and no reversal of it committed yet.  Neither read locks.
FindMovement(r, m) ==
    /\ at[r] = "idle"
    /\ m \in DOMAIN movements
    /\ movements[m].order # NoOrder /\ movements[m].type = "EXIT"
    /\ ~ IsReversed(m)
    /\ Room(1)
    /\ Goto(r, "credit")
    /\ job' = [job EXCEPT ![r] = [NoJob EXCEPT
                 !.order = movements[m].order, !.reverses = m,
                 !.todo = <<[type |-> "ENTRY", product |-> movements[m].product,
                             quantity |-> movements[m].quantity]>>]]
    /\ UNCHANGED <<status, stock, active, movements, locks>>

\* AdjustStock: the aggregate is loaded and tries the adjustment on itself.
ApplyStockAdjustment(r, line) ==
    /\ at[r] = "idle"
    /\ active[line.product]
    /\ line.type = "EXIT" => stock[line.product] >= line.quantity
    /\ Room(1)
    /\ Goto(r, "adjust")
    /\ job' = [job EXCEPT ![r].todo = <<line>>]
    /\ UNCHANGED <<status, stock, active, movements, locks>>

\* Update and Deactivate load the whole product; both write back its status.
FindProduct(r, p, deactivate) ==
    /\ at[r] = "idle"
    /\ Goto(r, "save")
    /\ job' = [job EXCEPT ![r].product = p, ![r].writes = active[p] /\ ~ deactivate]
    /\ UNCHANGED <<status, stock, active, movements, locks>>
-----------------------------------------------------------------------------
(* The statements that write.                                              *)

\* The UPDATE of the next line matches a row and stays in the column's range.
\* A reversal's re-credit does not ask for an ACTIVE product.
Fitting(r) ==
    LET line == Head(job[r].todo) IN
    /\ Fits(r, line)
    /\ at[r] = "credit" \/ active[line.product]

\* The next line's guarded UPDATE of the product and INSERT of its movement.
BookLine(r, step) ==
    LET line == Head(job[r].todo)
        b    == Balance(r, line.product)
    IN
    /\ at[r] = step
    /\ Free(r, line.product)
    /\ Fitting(r)
    /\ locks' = [locks EXCEPT ![line.product] = r]
    /\ job' = [job EXCEPT ![r].todo = Tail(@),
                          ![r].work = Append(@,
                 [type |-> line.type, product |-> line.product, quantity |-> line.quantity,
                  order |-> job[r].order, previous |-> b, new |-> b + Delta(line),
                  reverses |-> job[r].reverses])]
    /\ Goto(r, IF Len(job[r].todo) = 1 THEN "commit" ELSE step)
    /\ UNCHANGED <<status, stock, active, movements>>

Deduct(r) == BookLine(r, "deduct")

Adjust(r) == BookLine(r, "adjust")

Credit(r) == BookLine(r, "credit")

Booking(r) == at[r] \in {"deduct", "adjust", "credit"}

\* Faulty variant: the lines booked so far are committed.
RefuseLineKeepsWork(r) ==
    /\ Booking(r) /\ ~ Fitting(r)
    /\ stock' = [p \in Products |-> Balance(r, p)]
    /\ movements' = movements \o job[r].work
    /\ End(r)
    /\ UNCHANGED <<status, active>>

\* Faulty variant: the deferred Rollback is missing.
RefuseLineKeepsLocks(r) ==
    /\ Booking(r) /\ ~ Fitting(r)
    /\ Goto(r, "idle")
    /\ job' = [job EXCEPT ![r] = NoJob]
    /\ UNCHANGED <<status, stock, active, movements, locks>>

\* Zero rows, or a value out of the column's range: the call fails and the
\* lines it has booked are rolled back.  The statement is tried on the
\* committed row first, so a line that does not fit fails without waiting.
RefuseLine(r) ==
    /\ Booking(r) /\ ~ Fitting(r)
    /\ End(r)
    /\ UNCHANGED <<status, stock, active, movements>>

\* Faulty variant: the balance is written without its movements.
CommitStockOnly(r) ==
    /\ at[r] = "commit"
    /\ stock' = [p \in Products |-> Balance(r, p)]
    /\ End(r)
    /\ UNCHANGED <<status, active, movements>>

Commit(r) ==
    /\ at[r] = "commit"
    /\ stock' = [p \in Products |-> Balance(r, p)]
    /\ movements' = movements \o job[r].work
    /\ End(r)
    /\ UNCHANGED <<status, active>>

SaveProduct(r) ==
    /\ at[r] = "save"
    /\ Free(r, job[r].product)
    /\ active' = [active EXCEPT ![job[r].product] = job[r].writes]
    /\ End(r)
    /\ UNCHANGED <<status, stock, movements>>
-----------------------------------------------------------------------------
(* What the surroundings do.                                               *)

\* The next UPDATE finds its row, held by another transaction.
Waits(r) ==
    /\ Booking(r) /\ Fitting(r)
    /\ ~ Free(r, Head(job[r].todo).product)

Deadlocked(r) ==
    \E S \in SUBSET {x \in Requests : Waits(x)} :
        r \in S /\ S = {locks[Head(job[x].todo).product] : x \in S}

\* PostgreSQL aborts a transaction of a waiting cycle.
AbortDeadlocked(r) ==
    /\ Deadlocked(r)
    /\ End(r)
    /\ UNCHANGED <<status, stock, active, movements>>

\* The connection breaks, the context is canceled or the process dies.
Drop(r) ==
    /\ at[r] # "idle"
    /\ End(r)
    /\ UNCHANGED <<status, stock, active, movements>>

\* ServiceOrderWorkflow's FinalizeOrder, seen from here.
FinalizeOrder(o) ==
    /\ status[o] = "IN_PROGRESS"
    /\ status' = [status EXCEPT ![o] = "COMPLETED"]
    /\ UNCHANGED <<stock, active, movements, locks, at, job>>

Serve(r) ==
    \/ ConfirmOrder(r) \/ RefuseOrder(r)
    \/ Deduct(r) \/ Adjust(r) \/ Credit(r) \/ RefuseLine(r)
    \/ Commit(r) \/ SaveProduct(r)

Next ==
    \/ \E r \in Requests :
        \/ \E o \in Orders, lines \in Demands : AdmitUsage(r, o, lines)
        \/ \E m \in DOMAIN movements : FindMovement(r, m)
        \/ \E line \in Adjustments : ApplyStockAdjustment(r, line)
        \/ \E p \in Products, deactivate \in BOOLEAN : FindProduct(r, p, deactivate)
        \/ Serve(r)
        \/ AbortDeadlocked(r)
        \/ Drop(r)
    \/ \E o \in Orders : FinalizeOrder(o)

Spec == Init /\ [][Next]_vars

\* A goroutine whose statement can be executed goes on.  Waiters queue for a
\* row in PostgreSQL, so one whose row is released again and again gets it at
\* last: strong fairness.  Every deadlock is resolved.  Nobody has to call,
\* to finalize or to fail.
FairSpec ==
    /\ Spec
    /\ \A r \in Requests : SF_vars(Serve(r)) /\ WF_vars(AbortDeadlocked(r))
-----------------------------------------------------------------------------
(* Properties.                                                             *)

Steps == {"idle", "begin", "deduct", "adjust", "credit", "commit", "save"}

Movements == [type : {"ENTRY", "EXIT"}, product : Products, quantity : Nat \ {0},
              order : Orders \cup {NoOrder}, previous : 0..MaxStock, new : 0..MaxStock,
              reverses : Nat]

Jobs == [order : Orders \cup {NoOrder}, todo : Seq(Lines), work : Seq(Movements),
         reverses : Nat, product : Products \cup {NoProduct}, writes : BOOLEAN]

\* No balance, committed or not, leaves the range from zero to the column's
\* largest value, and no reversal names a movement that does not exist.
TypeOK ==
    /\ status \in [Orders -> {"IN_PROGRESS", "COMPLETED"}]
    /\ stock \in [Products -> 0..MaxStock]
    /\ active \in [Products -> BOOLEAN]
    /\ movements \in Seq(Movements)
    /\ locks \in [Products -> Requests \cup {NoRequest}]
    /\ at \in [Requests -> Steps]
    /\ job \in [Requests -> Jobs]
    /\ \A r \in Requests : job[r].reverses \in 0..Len(movements)

\* The balance of p that the first n movements account for.
BalanceAfter(p, n) ==
    LET ofProduct == {i \in 1..n : movements[i].product = p}
    IN  IF ofProduct = {} THEN InitialStock[p] ELSE movements[Max(ofProduct)].new

\* Each movement starts at the balance the one before it left, previous_stock
\* and new_stock differ by its quantity, and the last one leaves what the
\* product's row holds: usage, reversals and manual adjustments, written by
\* two features, lose no update of each other.
LedgerExplainsStock ==
    /\ \A i \in DOMAIN movements :
        /\ movements[i].previous = BalanceAfter(movements[i].product, i - 1)
        /\ movements[i].new = movements[i].previous + Delta(movements[i])
    /\ \A p \in Products : stock[p] = BalanceAfter(p, Len(movements))

AtomicLedger == INSTANCE AtomicStock

\* Statements, locks, waiting and rollbacks amount to calls that happen at
\* once: all lines of a usage or none, each on an active product, none below
\* zero, and reversals of an order's own EXIT movements only.
ImplementsAtomicStock == AtomicLedger!Spec

\* The usages of o that have passed their last check of its status, and what
\* usages have taken for it so far.
Using(o) == {r \in Requests :
    at[r] \in {"deduct", "commit"} /\ job[r].order = o /\ job[r].reverses = 0}

PartsOf(o) == {i \in DOMAIN movements :
    movements[i].order = o /\ movements[i].type = "EXIT"}

\* The status is read without a lock, so an order may be finalized under a
\* usage and take its parts afterwards; but once it is, no other usage comes
\* to deduct, and whatever is still taken ends one of those under way.
LateUsagesRunOut ==
    [][\A o \in Orders : status[o] # "IN_PROGRESS" =>
         /\ Using(o)' \subseteq Using(o)
         /\ PartsOf(o)' # PartsOf(o) => Using(o)' # Using(o)]_vars

\* Every call ends, also when two usages name the same products in opposite
\* orders: no request waits forever and no row stays locked.
EveryCallEnds == \A r \in Requests : at[r] # "idle" ~> at[r] = "idle"
-----------------------------------------------------------------------------
(* What the documents say and the code does not keep.                      *)

\* A movement is reversed at most once, enforced at the application layer
\* (the comment on stock_movements.reversed_movement_id).
ReversedAtMostOnce ==
    \A i, j \in DOMAIN movements :
        movements[i].reverses # 0 /\ movements[i].reverses = movements[j].reverses => i = j
=============================================================================
