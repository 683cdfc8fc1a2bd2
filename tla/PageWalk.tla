-------------------------------- MODULE PageWalk --------------------------------
(***************************************************************************)
(* A client walks through a paginated listing while its rows change.       *)
(*                                                                         *)
(* Products and the queue of orders are listed alike: ORDER BY a total     *)
(* order with LIMIT and OFFSET, one statement per page, and the total      *)
(* counted by the same statement on the rows it returns.  Products stand   *)
(* in the order of their codes and never leave the unfiltered listing.     *)
(* Orders stand in the order of their status and age: they move up as they *)
(* are worked on, and leave when they are completed or canceled.  A        *)
(* filtered listing is left by a row that no longer matches.  The          *)
(* movements of a product are not covered: their order leaves ties open.   *)
(***************************************************************************)
EXTENDS Integers, SequencesExt

CONSTANTS
    Rows,             \* rows that may be listed
    SizesAsked,       \* pageSize parameters sent; 0 if absent or no number
    DefaultPageSize, MaxPageSize,
    MaxMoves          \* bound on the changes during a walk

ASSUME PageSizesAssumption == DefaultPageSize \in 1..MaxPageSize /\ MaxPageSize \in Nat

ASSUME SizesAskedAssumption == SizesAsked \subseteq Int

VARIABLES
    listed,  \* the rows, in the order of the listing
    walk     \* the client's walk through it

walkVars == <<listed, walk>>
-----------------------------------------------------------------------------
\* stayed holds the rows that were there when the walk began and kept their
\* place; left counts the rows that left since.
NoWalk == [page |-> 0, size |-> 1, done |-> FALSE, seen |-> {}, stayed |-> {},
           left |-> 0, moves |-> 0]

Walking == walk.page > 0 /\ ~ walk.done

WalkInit == listed = <<>> /\ walk = NoWalk

PageSize(asked) ==
    IF asked < 1 THEN DefaultPageSize ELSE Min({asked, MaxPageSize})

\* Faulty variant: the pages are counted from zero.
PageFromZero(page, size) == SubSeq(listed, page * size + 1, Min({(page + 1) * size, Len(listed)}))

\* The statement's rows.
Page(page, size) ==
    SubSeq(listed, (page - 1) * size + 1, Min({page * size, Len(listed)}))

\* The total comes with the rows, so a page without rows says zero.
Total(page, size) == IF Page(page, size) = <<>> THEN 0 ELSE Len(listed)

TotalPages(page, size) == (Total(page, size) + size - 1) \div size
-----------------------------------------------------------------------------
(* The client.                                                             *)

BeginWalk(asked) ==
    /\ ~ Walking
    /\ walk' = [NoWalk EXCEPT !.page = 1, !.size = PageSize(asked), !.stayed = ToSet(listed)]
    /\ UNCHANGED listed

\* The client asks for the next page until the last one it was told of.
NextPage ==
    /\ Walking
    /\ walk' = [walk EXCEPT !.seen = @ \cup ToSet(Page(walk.page, walk.size)),
                            !.done = walk.page >= TotalPages(walk.page, walk.size),
                            !.page = @ + 1]
    /\ UNCHANGED listed
-----------------------------------------------------------------------------
(* The other requests, as far as the listing shows them.                   *)

\* The number of rows that leave is bounded by MaxMoves per walk.
Change(stayed, left) ==
    /\ walk.moves < MaxMoves
    /\ walk' = IF Walking
               THEN [walk EXCEPT !.stayed = @ \ stayed, !.left = @ + left, !.moves = @ + 1]
               ELSE NoWalk

\* A new row, anywhere: a product with a code of its own, an order, a row that
\* now matches the filter.
Enter(x) ==
    /\ x \notin ToSet(listed)
    /\ \E i \in 1..(Len(listed) + 1) : listed' = InsertAt(listed, i, x)
    /\ Change({}, 0)

\* An order is worked on: it stands with those of its new status.
MoveUp ==
    \E i \in 2..Len(listed) : \E j \in 1..(i - 1) :
        /\ listed' = InsertAt(RemoveAt(listed, i), j, listed[i])
        /\ Change({listed[i]}, 0)

Leave ==
    \E i \in 1..Len(listed) :
        /\ listed' = RemoveAt(listed, i)
        /\ Change({listed[i]}, 1)

WalkNext ==
    \/ \E asked \in SizesAsked : BeginWalk(asked)
    \/ NextPage
    \/ \E x \in Rows : Enter(x)
    \/ MoveUp \/ Leave

WalkSpec == WalkInit /\ [][WalkNext]_walkVars
-----------------------------------------------------------------------------
(* Properties.                                                             *)

\* A walk to the last page misses no more of the rows that kept their place
\* than rows have left meanwhile: none in a listing that rows only enter or
\* move up in, however the pages shift between two statements.
WalkMissesAtMostLeavers == walk.done => Cardinality(walk.stayed \ walk.seen) <= walk.left
=============================================================================
