------------------------------- MODULE MCStaffApi -------------------------------
(***************************************************************************)
(* Small instances of PriceList, PageWalk and AdminAccess in one run.      *)
(* They share no table and no variable, so their steps commute; a run      *)
(* works at one desk, chosen at the start, and the other two stay as they  *)
(* are.                                                                    *)
(***************************************************************************)
EXTENDS PriceList, PageWalk, AdminAccess, TLC

CONSTANTS r1, r2

VARIABLE desk

deskVars == <<desk, priceVars, walkVars, accessVars>>

StaffInit ==
    /\ desk \in {"prices", "listing", "access"}
    /\ PriceInit /\ WalkInit /\ AccessInit
    /\ desk # "access" => \A r \in Replicas : skew[r] = 0

StaffNext ==
    /\ UNCHANGED desk
    /\ \/ desk = "prices" /\ PriceNext /\ UNCHANGED <<walkVars, accessVars>>
       \/ desk = "listing" /\ WalkNext /\ UNCHANGED <<priceVars, accessVars>>
       \/ desk = "access" /\ AccessNext /\ UNCHANGED <<priceVars, walkVars>>

StaffSpec == StaffInit /\ [][StaffNext]_deskVars
-----------------------------------------------------------------------------
(* Prices: a column of three digits, a word in which its products wrap.    *)

MCProducts == {"pads"}
MCServices == {"oil"}
MCEditors == {r1, r2}

Number(negative, digits, decimals, exponent, written) ==
    [negative |-> negative, digits |-> digits, decimals |-> decimals,
     exponent |-> exponent, exponentDigits |-> written]

\* Exponents and the digits they are written with, of which one is allowed:
\* none, both signs, a zero in front, and two digits that are needed.
MCNumbers ==
    {Number(negative, digits, decimals, e[1], e[2]) :
        negative \in BOOLEAN, digits \in {0, 5, 150, 999, 1000, 9990}, decimals \in 0..3,
        e \in {<<0, 0>>, <<-6, 1>>, <<-1, 1>>, <<6, 1>>, <<1, 2>>}}
    \cup {Number(FALSE, digits, decimals, e, 2) :
            digits \in {0, 5, 9990}, decimals \in 0..1, e \in {-10, 10}}

MCNewNumbers == {Number(FALSE, 7, 0, 0, 0), Number(FALSE, 25, 2, 0, 0)}

Line(id, quantity) == [id |-> id, quantity |-> quantity]

MCRequests ==
    {<<>>, <<Line("pads", 0)>>, <<Line("oil", 3), Line("pads", 1)>>,
     <<Line("pads", 2), Line("oil", 1)>>, <<Line("pads", 200)>>}
-----------------------------------------------------------------------------
(* Listings and accounts.                                                  *)

MCRows == 1..4

\* Two jobs that compete for one e-mail, and one whose password is refused.
MCInput ==
    [j \in Jobs |-> [email    |-> "ana",
                     password |-> <<"long enough", "another one", "short">>[j]]]

EditorsAreAlike == Permutations(Editors)
=============================================================================
