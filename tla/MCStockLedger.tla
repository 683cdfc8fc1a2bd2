--------------------------- MODULE MCStockLedger ----------------------------
(***************************************************************************)
(* Two products, two pieces of one and one of the other; usages that name  *)
(* both in either order or one of them twice; adjustments that empty the   *)
(* shelf and that fill the column up.                                      *)
(***************************************************************************)
EXTENDS StockLedger, TLC

CONSTANTS r1, r2, p1, p2

MCRequests == {r1, r2}
MCProducts == {p1, p2}
MCInitialStock == p1 :> 2 @@ p2 :> 1

Exit(p, q) == [type |-> "EXIT", product |-> p, quantity |-> q]

MCDemands == {<<Exit(p1, 1), Exit(p2, 1)>>,
              <<Exit(p2, 1), Exit(p1, 1)>>,
              <<Exit(p1, 1), Exit(p1, 1)>>}
MCAdjustments == {Exit(p1, 1), [type |-> "ENTRY", product |-> p1, quantity |-> 1]}

RequestsAreAlike == Permutations(Requests)
=============================================================================
