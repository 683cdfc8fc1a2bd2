------------------------------ MODULE OrderViews ------------------------------
(***************************************************************************)
(* What the read side shows of an order while requests change it: the      *)
(* customer's tracking page, the detail view and the quote of the          *)
(* administrative API.                                                     *)
(*                                                                         *)
(* Each view is put together from several statements on the connection     *)
(* pool, with no transaction around them, so each part is as of another    *)
(* moment.  The trail is listed by occurred_at, which is the start of the  *)
(* writing transaction and not its commit; a transaction therefore begins  *)
(* in a step of its own here.                                              *)
(***************************************************************************)
EXTENDS ServiceOrderWorkflow

VARIABLES
    began,   \* entries committed when each request's transaction began
    stamps,  \* occurred_at of each entry: began of its writer
    view     \* the view being put together

viewVars == <<vars, began, stamps, view>>

NotBegun == -1

\* Faulty variant: every view reads its parts in the opposite order.
StatementsBackwards ==
    [tracking |-> <<"trail", "order">>,
     detail   |-> <<"quote", "trail", "order">>,
     quote    |-> <<"services", "products", "quote", "order">>]

\* The statements behind each view, in the order of the code.  The token
\* check and the customer's, vehicle's and services' rows are left out, which
\* tell nothing of the order's progress.  The detail view goes on to the
\* lines exactly as the quote view does.
Statements ==
    [tracking |-> <<"order", "trail">>,
     detail   |-> <<"order", "trail", "quote">>,
     quote    |-> <<"order", "quote", "products", "services">>]

Kinds == DOMAIN Statements

\* left are the statements still to run; quiet says that no composition was
\* about to be saved when the header was read.
NothingShown == [kind |-> "none", left |-> <<>>, status |-> "NONE", trail |-> 0,
                 quote |-> NoQuote, items |-> {}, quiet |-> FALSE]

ViewInit ==
    /\ Init
    /\ began = [r \in Requests |-> NotBegun]
    /\ stamps = <<0>>
    /\ view = NothingShown
-----------------------------------------------------------------------------
(* The requests of ServiceOrderWorkflow, with the start of a transaction.  *)

\* Begin fixes now() for the whole transaction.
BeginTransaction(r) ==
    /\ at[r] = "commit"
    /\ began[r] = NotBegun
    /\ began' = [began EXCEPT ![r] = Len(history)]
    /\ UNCHANGED <<vars, stamps, view>>

\* Faulty variant: the entry is written without its time.
EndTransactionUnstamped(r) ==
    /\ began[r] # NotBegun
    /\ Commit(r)
    /\ began' = [began EXCEPT ![r] = NotBegun]
    /\ UNCHANGED <<stamps, view>>

\* Every statement of the transaction, the entry's DEFAULT now() included.
EndTransaction(r) ==
    /\ began[r] # NotBegun
    /\ Commit(r)
    /\ began' = [began EXCEPT ![r] = NotBegun]
    /\ stamps' = IF history' = history THEN stamps ELSE Append(stamps, began[r])
    /\ UNCHANGED view

\* The reads.  The e-mail after a send is no part of any view.
WorkOutside(r) ==
    /\ (\E o \in Operations : FindServiceOrder(r, o)) \/ Read(r)
    /\ UNCHANGED <<began, stamps, view>>

\* The request ends; its transaction, if it had begun one, is rolled back.
Lose(r) ==
    /\ Drop(r)
    /\ began' = [began EXCEPT ![r] = NotBegun]
    /\ UNCHANGED <<stamps, view>>
-----------------------------------------------------------------------------
(* The views.                                                              *)

Show(v) == view' = v /\ UNCHANGED <<vars, began, stamps>>

OpenView(kind) ==
    /\ view.kind = "none"
    /\ Show([NothingShown EXCEPT !.kind = kind, !.left = Statements[kind]])

Reads(statement) == view.left # <<>> /\ Head(view.left) = statement

Rest == [view EXCEPT !.left = Tail(@)]

\* By id or by code.  Of the columns a view shows, only those a property
\* speaks about are kept.
ViewOrder ==
    /\ Reads("order")
    /\ Show(IF view.kind = "tracking" THEN [Rest EXCEPT !.status = status] ELSE Rest)

ViewTrail ==
    /\ Reads("trail")
    /\ Show([Rest EXCEPT !.trail = Len(history)])

\* A missing quote is shown as none by the detail view and is an error of
\* the quote view.
ViewQuote ==
    /\ Reads("quote")
    /\ Show(IF view.kind = "quote" /\ quote.status = "NONE" THEN NothingShown
            ELSE [Rest EXCEPT !.quote = quote,
                              !.quiet = ~ \E r \in Requests : Commits(r, "ComposeQuote")])

ViewLines(statement, kind) ==
    /\ Reads(statement)
    /\ Show([Rest EXCEPT !.items = @ \cup {i \in items : i.kind = kind}])

Complete == view.kind # "none" /\ view.left = <<>>

\* The answer is sent.
Answer == Complete /\ Show(NothingShown)

\* What a complete view shows does not change any more, so nothing else
\* moves until it is sent.
ViewNext ==
    \/ /\ ~ Complete
       /\ \E r \in Requests :
            BeginTransaction(r) \/ EndTransaction(r) \/ WorkOutside(r) \/ Lose(r)
    \/ \E kind \in Kinds : OpenView(kind)
    \/ ViewOrder \/ ViewTrail \/ ViewQuote
    \/ ViewLines("products", "PRODUCT") \/ ViewLines("services", "SERVICE")
    \/ Answer

ViewSpec == ViewInit /\ [][ViewNext]_viewVars
-----------------------------------------------------------------------------
(* Properties.                                                             *)

\* began, stamps and view are what their readers expect.
ViewTypeOK ==
    /\ began \in [Requests -> {NotBegun} \cup 0..Len(history)]
    /\ Len(stamps) = Len(history)
    /\ \A i \in 1..Len(stamps) : stamps[i] \in 0..(i - 1)
    /\ view.kind \in Kinds \cup {"none"}
    /\ view.trail \in 0..Len(history)
    /\ view.quote.version \in 0..quote.version
    /\ view.items \subseteq Items

Transitions == {i \in 1..Len(history) : history[i].from # history[i].to}

\* Listed by occurred_at, the status changes stand in the order in which they
\* happened: the transaction of each began only after the previous change was
\* committed, because its request had read the status that change left.
TrailInTimeOrder == \A i, j \in Transitions : i < j => stamps[j] >= i

Shown(kind) == Complete /\ view.kind = kind

\* The status on the tracking page is explained by the milestones on the same
\* page, although the two are read at different moments.
TrackingHangsTogether ==
    Shown("tracking") => \E i \in 1..view.trail : history[i].to = view.status

ShownEvents(event) == {i \in 1..view.trail : history[i].event = event}

\* The detail view never shows a quote that lags behind the trail beside it:
\* after an approval it is APPROVED, after a cancellation REJECTED, after a
\* send it has a version presented, and all compositions listed are counted.
QuoteKeepsUpWithTrail ==
    Shown("detail") =>
        /\ ShownEvents("approval") # {} => view.quote.status = "APPROVED"
        /\ ShownEvents("cancellation") # {} => view.quote.status = "REJECTED"
        /\ ShownEvents("quote_sent") # {} => view.quote.sentVersion # 0
        /\ view.quote.version >= Cardinality(ShownEvents("quote_composed"))

\* A decided quote is shown whole: the lines under the total add up to it,
\* unless a composition that had passed its check was still to be saved when
\* the header was read.
DecidedQuoteShownWhole ==
    Shown("quote") /\ view.quiet /\ view.quote.status \in {"APPROVED", "REJECTED"}
        => view.quote.total = CalculateTotal(view.items)
=============================================================================
