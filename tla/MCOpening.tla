----------------------------- MODULE MCOpening ------------------------------
(***************************************************************************)
(* Two customers and two keys to quarrel about, and one row of each other  *)
(* kind, so that every kind is registered, changed and ordered.            *)
(***************************************************************************)
EXTENDS Opening, TLC

CONSTANTS r1, r2, c1, c2, k1, k2

MCRequests == {r1, r2}
MCCustomers == {c1, c2}
MCKeys == {k1, k2}

Alike == Permutations(Requests) \cup Permutations(Customers) \cup Permutations(Keys)
=============================================================================
