--------------------------- MODULE OrderLifecycle ---------------------------
(***************************************************************************)
(* What the service-order aggregate promises, with no requests, no         *)
(* transactions and no stale reads: the order's status and its quote's     *)
(* decision move together, one legal transition at a time, and a decision  *)
(* is taken once.  The transitions are the domain methods of               *)
(* service_order.go; the conjuncts on the decision are the promises of the *)
(* specifications the methods cite (only a composed quote is sent, only a  *)
(* pending one is decided).                                                *)
(*                                                                         *)
(* ServiceOrderWorkflow, where requests read and commit separately, is     *)
(* shown to implement this module.                                         *)
(***************************************************************************)

VARIABLES
    status,    \* service_orders.status
    decision   \* quotes.status, "NONE" while no quote row exists

vars == <<status, decision>>

Statuses == {"RECEIVED", "IN_DIAGNOSIS", "AWAITING_APPROVAL", "IN_PROGRESS",
             "COMPLETED", "DELIVERED", "CANCELED"}

QuoteStatuses == {"PENDING", "APPROVED", "REJECTED"}

\* A new order always starts RECEIVED, and nothing is quoted yet.
Init ==
    /\ status = "RECEIVED"
    /\ decision = "NONE"

StartDiagnosis ==
    /\ status = "RECEIVED"
    /\ status' = "IN_DIAGNOSIS"
    /\ UNCHANGED decision

\* The first composition.  A recomposition changes neither variable.
ComposeQuote ==
    /\ status = "IN_DIAGNOSIS"
    /\ decision = "NONE"
    /\ decision' = "PENDING"
    /\ UNCHANGED status

SendQuote ==
    /\ status = "IN_DIAGNOSIS"
    /\ decision = "PENDING"
    /\ status' = "AWAITING_APPROVAL"
    /\ UNCHANGED decision

ApproveQuote ==
    /\ status = "AWAITING_APPROVAL"
    /\ decision = "PENDING"
    /\ status' = "IN_PROGRESS"
    /\ decision' = "APPROVED"

RejectQuote ==
    /\ status = "AWAITING_APPROVAL"
    /\ decision = "PENDING"
    /\ status' = "CANCELED"
    /\ decision' = "REJECTED"

Finalize ==
    /\ status = "IN_PROGRESS"
    /\ status' = "COMPLETED"
    /\ UNCHANGED decision

Deliver ==
    /\ status = "COMPLETED"
    /\ status' = "DELIVERED"
    /\ UNCHANGED decision

Next ==
    \/ StartDiagnosis
    \/ ComposeQuote
    \/ SendQuote
    \/ ApproveQuote
    \/ RejectQuote
    \/ Finalize
    \/ Deliver

Spec == Init /\ [][Next]_vars
=============================================================================
