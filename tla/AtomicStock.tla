---------------------------- MODULE AtomicStock -----------------------------
(***************************************************************************)
(* What the two stock ledgers promise together: the products' balances and *)
(* the movements change in one indivisible step per call, a call takes     *)
(* either all of its lines or none, nothing is taken from an inactive      *)
(* product or below zero, and every balance is explained by the movements. *)
(*                                                                         *)
(* StockLedger, where the lines are booked statement by statement under    *)
(* row locks, is shown to implement this module.                           *)
(***************************************************************************)
EXTENDS Integers, Sequences, FiniteSetsExt

CONSTANTS Products, Orders, Demands, Adjustments, InitialStock, MaxStock, NoOrder

VARIABLES
    stock,      \* products.current_stock
    active,     \* products.status = 'ACTIVE'
    movements   \* stock_movements, in commit order

vars == <<stock, active, movements>>

Delta(line) == IF line.type = "ENTRY" THEN line.quantity ELSE - line.quantity

\* What the lines before the n-th one change at product p.
Before(lines, n, p) ==
    SumFunctionOnSet([i \in DOMAIN lines |-> Delta(lines[i])],
                     {i \in 1..(n - 1) : lines[i].product = p})

\* The movements that lines leave behind when they are booked together.
Booked(lines, order, reverses) ==
    [n \in 1..Len(lines) |->
        LET l == lines[n]
            b == stock[l.product] + Before(lines, n, l.product)
        IN  [type |-> l.type, product |-> l.product, quantity |-> l.quantity,
             order |-> order, previous |-> b, new |-> b + Delta(l), reverses |-> reverses]]

Book(lines, order, reverses) ==
    LET booked == Booked(lines, order, reverses) IN
    /\ \A n \in DOMAIN booked : booked[n].new \in 0..MaxStock
    /\ movements' = movements \o booked
    /\ stock' = [p \in Products |-> stock[p] + Before(lines, Len(lines) + 1, p)]
    /\ UNCHANGED active

Init ==
    /\ stock = InitialStock
    /\ active = [p \in Products |-> TRUE]
    /\ movements = <<>>

RegisterStockUsage(order, lines) ==
    /\ \A n \in DOMAIN lines : active[lines[n].product]
    /\ Book(lines, order, 0)

\* Nothing here says that a movement is reversed only once.
ReverseStockMovement(m) ==
    /\ movements[m].type = "EXIT"
    /\ movements[m].order # NoOrder
    /\ Book(<<[type |-> "ENTRY", product |-> movements[m].product,
               quantity |-> movements[m].quantity]>>, movements[m].order, m)

AdjustStock(line) ==
    /\ active[line.product]
    /\ Book(<<line>>, NoOrder, 0)

SaveProduct(p, b) ==
    /\ active' = [active EXCEPT ![p] = b]
    /\ UNCHANGED <<stock, movements>>

Next ==
    \/ \E o \in Orders, lines \in Demands : RegisterStockUsage(o, lines)
    \/ \E m \in DOMAIN movements : ReverseStockMovement(m)
    \/ \E line \in Adjustments : AdjustStock(line)
    \/ \E p \in Products, b \in BOOLEAN : SaveProduct(p, b)

Spec == Init /\ [][Next]_vars
=============================================================================
