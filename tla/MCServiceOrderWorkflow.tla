----------------------- MODULE MCServiceOrderWorkflow -----------------------
(***************************************************************************)
(* Small instances of ServiceOrderWorkflow.  The three compositions differ *)
(* in kind, so that a quote read in several statements can come out mixed  *)
(* or empty, and in the services they require.                             *)
(***************************************************************************)
EXTENDS ServiceOrderWorkflow, TLC

CONSTANTS r1, r2, e1, e2

MCRequests == {r1, r2}
MCExecutionIds == {e1, e2}
MCServices == {"oil", "brakes"}

Oil    == [kind |-> "SERVICE", id |-> "oil",    total |-> 1]
Brakes == [kind |-> "SERVICE", id |-> "brakes", total |-> 2]
Pads   == [kind |-> "PRODUCT", id |-> "pads",   total |-> 4]

MCItems == {Oil, Brakes, Pads}
MCCompositions == {{Oil}, {Pads}, {Oil, Brakes}}
MCTwoCompositions == {{Oil}, {Pads}}
MCOneComposition == {{Oil, Pads}}

SlotsAreAlike == Permutations(Requests) \cup Permutations(ExecutionIds)
=============================================================================
