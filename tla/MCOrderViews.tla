----------------------------- MODULE MCOrderViews -----------------------------
(***************************************************************************)
(* A small instance of OrderViews: two requests, two compositions of       *)
(* different kind and total.  No execution rows: they are no part of a     *)
(* view, and an order without services completes without them.             *)
(***************************************************************************)
EXTENDS OrderViews, TLC

CONSTANTS r1, r2

MCRequests == {r1, r2}
MCServices == {"oil"}

Oil  == [kind |-> "SERVICE", id |-> "oil",  total |-> 1]
Pads == [kind |-> "PRODUCT", id |-> "pads", total |-> 4]

MCItems == {Oil, Pads}
MCCompositions == {{Oil}, {Pads}}

SlotsAreAlike == Permutations(Requests)
=============================================================================
