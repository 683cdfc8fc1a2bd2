---------------------------- MODULE OrderViewsProofs ----------------------------
(***************************************************************************)
(* Proofs about OrderViews: that what is shown together of an order hangs  *)
(* together, for any number of request slots, any catalogue and any        *)
(* compositions, although every part is read at another moment.            *)
(***************************************************************************)
EXTENDS OrderViews, ServiceOrderWorkflowProofs

-----------------------------------------------------------------------------
(* The views only watch.                                                   *)

\* A step of OrderViews is a step of the requests or leaves the order alone.
LEMMA StepIsNext ==
  ASSUME [ViewNext]_viewVars
  PROVE  [Next]_vars
<1>1. ASSUME NEW r \in Requests,
             BeginTransaction(r) \/ EndTransaction(r) \/ WorkOutside(r) \/ Lose(r)
      PROVE  [Next]_vars
  BY <1>1 DEF BeginTransaction, EndTransaction, WorkOutside, Lose, Next, Serve
<1>2. CASE \/ \E kind \in Kinds : OpenView(kind)
           \/ ViewOrder \/ ViewTrail \/ ViewQuote
           \/ ViewLines("products", "PRODUCT") \/ ViewLines("services", "SERVICE")
           \/ Answer
  BY <1>2 DEF OpenView, ViewOrder, ViewTrail, ViewQuote, ViewLines, Answer, Show
<1>3. CASE UNCHANGED viewVars
  BY <1>3 DEF viewVars
<1>4. QED
  BY <1>1, <1>2, <1>3 DEF ViewNext

\* With transactions that begin in a step of their own, and with views open
\* beside them, the requests do nothing that ServiceOrderWorkflow does not.
THEOREM ViewsOnlyWatch == ViewSpec => Spec
<1>1. ViewInit => Init
  BY DEF ViewInit
<1>2. [ViewNext]_viewVars => [Next]_vars
  BY StepIsNext
<1>3. QED
  BY <1>1, <1>2, PTL DEF ViewSpec, Spec

\* What is known of the order whoever watches it.
OrderInv ==
    /\ TypeOK /\ WorkflowInv
    /\ VersionCountsCompositions /\ TotalIsSumOfItems /\ TrailLeadsToStatus

\* It holds under every view.
LEMMA OrderStaysSound == ViewSpec => []OrderInv
  BY ViewsOnlyWatch, TypeCorrect, WorkflowInvariant, VersionAlwaysCountsCompositions,
     TotalIsAlwaysSumOfItems, TrailAlwaysLeadsToStatus, PTL DEF OrderInv

\* The trail is a sequence that grows at its end.
LEMMA TrailOnlyGrows ==
  ASSUME TypeOK, [Next]_vars
  PROVE  /\ history \in Seq(Entries)
         /\ Len(history) \in Nat /\ Len(history') \in Nat
         /\ Len(history) <= Len(history')
         /\ \A i \in 1..Len(history) : history'[i] = history[i]
<1>1. history \in Seq(Entries)
  BY DEF TypeOK, Entries
<1>2. ASSUME NEW event, NEW from, NEW to, Record(event, from, to)
      PROVE  /\ Len(history) \in Nat /\ Len(history') = Len(history) + 1
             /\ \A i \in 1..Len(history) : history'[i] = history[i]
  BY <1>1, <1>2, AppendedEntry
<1>3. CASE Composes \/ Moves
  BY <1>1, <1>2, <1>3 DEF Composes, Moves
<1>4. CASE UNCHANGED <<status, quote, items, history>>
  BY <1>1, <1>4
<1>5. QED
  BY <1>3, <1>4, TrailGrows
-----------------------------------------------------------------------------
(* The views and their statements.                                         *)

\* The statements a view has left: t for tracking, d for the detail view, q
\* for the quote, with their number.
T2 == <<"order", "trail">>
T1 == <<"trail">>
D3 == <<"order", "trail", "quote">>
D2 == <<"trail", "quote">>
D1 == <<"quote">>
Q4 == <<"order", "quote", "products", "services">>
Q3 == <<"quote", "products", "services">>
Q2 == <<"products", "services">>
Q1 == <<"services">>

\* What follows after each of them.
LEMMA StatementOrder ==
    /\ T2 # <<>> /\ Head(T2) = "order"    /\ Tail(T2) = T1
    /\ T1 # <<>> /\ Head(T1) = "trail"    /\ Tail(T1) = <<>>
    /\ D3 # <<>> /\ Head(D3) = "order"    /\ Tail(D3) = D2
    /\ D2 # <<>> /\ Head(D2) = "trail"    /\ Tail(D2) = D1
    /\ D1 # <<>> /\ Head(D1) = "quote"    /\ Tail(D1) = <<>>
    /\ Q4 # <<>> /\ Head(Q4) = "order"    /\ Tail(Q4) = Q3
    /\ Q3 # <<>> /\ Head(Q3) = "quote"    /\ Tail(Q3) = Q2
    /\ Q2 # <<>> /\ Head(Q2) = "products" /\ Tail(Q2) = Q1
    /\ Q1 # <<>> /\ Head(Q1) = "services" /\ Tail(Q1) = <<>>
  BY DEF T2, T1, D3, D2, D1, Q4, Q3, Q2, Q1

\* Where each view starts.
LEMMA StatementsOfViews ==
    /\ Kinds = {"tracking", "detail", "quote"}
    /\ Statements["tracking"] = T2 /\ Statements["detail"] = D3 /\ Statements["quote"] = Q4
  BY DEF Kinds, Statements, T2, D3, Q4

Quotes == [status : QuoteStatuses \cup {"NONE"}, version : 0..MaxVersion,
           sentVersion : 0..MaxVersion, total : Totals]

Views == [kind : Kinds \cup {"none"},
          left : {T2, T1, D3, D2, D1, Q4, Q3, Q2, Q1, <<>>},
          status : Statuses \cup {"NONE"}, trail : Nat, quote : Quotes,
          items : SUBSET Items, quiet : BOOLEAN]

\* A view has the statements of its kind left, the last ones of them.
Scheduled ==
    /\ view.kind = "none"     => view.left = <<>>
    /\ view.kind = "tracking" => view.left \in {T2, T1, <<>>}
    /\ view.kind = "detail"   => view.left \in {D3, D2, D1, <<>>}
    /\ view.kind = "quote"    => view.left \in {Q4, Q3, Q2, Q1, <<>>}

\* No view at all is a view.
LEMMA NothingShownType == NothingShown \in Views
<1>1. NoQuote \in Quotes
  BY MaxVersionAssumption DEF NoQuote, Quotes, Totals
<1>2. QED
  BY <1>1 DEF NothingShown, Views

\* Running a statement takes it off the list and touches nothing else.
LEMMA RestFields ==
  ASSUME view \in Views
  PROVE  /\ Rest.kind = view.kind /\ Rest.left = Tail(view.left)
         /\ Rest.status = view.status /\ Rest.trail = view.trail /\ Rest.quote = view.quote
         /\ Rest.items = view.items /\ Rest.quiet = view.quiet
  BY DEF Views, Rest

\* With a statement run it is still a view.
LEMMA RestType ==
  ASSUME view \in Views, view.left # <<>>
  PROVE  Rest \in Views
<1>1. Tail(view.left) \in {T2, T1, D3, D2, D1, Q4, Q3, Q2, Q1, <<>>}
  BY StatementOrder DEF Views
<1>2. QED
  BY <1>1 DEF Views, Rest

Watching == view \in Views /\ Scheduled

\* Whatever runs, the view stays one and keeps to the order of its statements.
LEMMA WatchingKept ==
  ASSUME TypeOK, Watching, [ViewNext]_viewVars
  PROVE  Watching'
<1> USE DEF Watching
<1>1. /\ Rest.kind = view.kind /\ Rest.left = Tail(view.left)
      /\ view.left # <<>> => Rest \in Views
  BY RestFields, RestType
<1>2. status \in Statuses /\ quote \in Quotes /\ Len(history) \in Nat
  BY DEF TypeOK, Quotes
<1>3. CASE view' = view
  BY <1>3 DEF Scheduled
<1>4. CASE view' = NothingShown
  BY <1>4, NothingShownType DEF Scheduled, NothingShown
<1>5. ASSUME NEW kind \in Kinds, OpenView(kind)
      PROVE  Watching'
  <2>1. view' = [NothingShown EXCEPT !.kind = kind, !.left = Statements[kind]]
    BY <1>5 DEF OpenView, Show
  <2>2. Statements[kind] \in {T2, D3, Q4}
    BY StatementsOfViews
  <2>3. view' \in Views /\ view'.kind = kind /\ view'.left = Statements[kind]
    BY <2>1, <2>2, NothingShownType DEF Views
  <2>4. QED
    BY <2>3, StatementsOfViews DEF Scheduled
<1>6. ASSUME view.left # <<>>, view' \in Views, view'.kind = view.kind,
             view'.left = Tail(view.left)
      PROVE  Watching'
  <2>1. CASE view.kind = "none"
    BY <1>6, <2>1 DEF Scheduled
  <2>2. CASE view.kind = "tracking"
    BY <1>6, <2>2, StatementOrder DEF Scheduled
  <2>3. CASE view.kind = "detail"
    BY <1>6, <2>3, StatementOrder DEF Scheduled
  <2>4. CASE view.kind = "quote"
    BY <1>6, <2>4, StatementOrder DEF Scheduled
  <2>5. QED
    BY <2>1, <2>2, <2>3, <2>4, StatementsOfViews DEF Views
<1>7. CASE ViewOrder \/ ViewTrail
  <2>1. view.left # <<>> /\ view' \in {Rest, [Rest EXCEPT !.status = status],
                                       [Rest EXCEPT !.trail = Len(history)]}
    BY <1>7 DEF ViewOrder, ViewTrail, Reads, Show
  <2>2. view' \in Views /\ view'.kind = view.kind /\ view'.left = Tail(view.left)
    BY <1>1, <1>2, <2>1 DEF Views
  <2>3. QED
    BY <1>6, <2>1, <2>2
<1>8. CASE ViewQuote
  <2>1. view.left # <<>>
    BY <1>8 DEF ViewQuote, Reads
  <2>2. \/ view' = NothingShown
        \/ \E quiet \in BOOLEAN : view' = [Rest EXCEPT !.quote = quote, !.quiet = quiet]
    BY <1>8 DEF ViewQuote, Show
  <2>3. ASSUME NEW quiet \in BOOLEAN, view' = [Rest EXCEPT !.quote = quote, !.quiet = quiet]
        PROVE  view' \in Views /\ view'.kind = view.kind /\ view'.left = Tail(view.left)
    BY <1>1, <1>2, <2>1, <2>3 DEF Views
  <2>4. QED
    BY <1>4, <1>6, <2>1, <2>2, <2>3
<1>9. ASSUME NEW statement, NEW kind, ViewLines(statement, kind)
      PROVE  Watching'
  <2>1. view.left # <<>> /\ view' = [Rest EXCEPT !.items = @ \cup {i \in items : i.kind = kind}]
    BY <1>9 DEF ViewLines, Reads, Show
  <2>2. items \subseteq Items
    BY CompositionsAssumption DEF TypeOK
  <2>3. view' \in Views /\ view'.kind = view.kind /\ view'.left = Tail(view.left)
    BY <1>1, <2>1, <2>2 DEF Views
  <2>4. QED
    BY <1>6, <2>1, <2>3
<1>10. ASSUME NEW r \in Requests,
              BeginTransaction(r) \/ EndTransaction(r) \/ WorkOutside(r) \/ Lose(r)
       PROVE  view' = view
  BY <1>10 DEF BeginTransaction, EndTransaction, WorkOutside, Lose
<1>11. CASE Answer
  BY <1>4, <1>11 DEF Answer, Show
<1>12. CASE UNCHANGED viewVars
  BY <1>3, <1>12 DEF viewVars
<1>13. QED
  BY <1>3, <1>5, <1>7, <1>8, <1>9, <1>10, <1>11, <1>12 DEF ViewNext

\* So it is with every view.
LEMMA AlwaysWatching == ViewSpec => []Watching
<1>1. ViewInit => Watching
  <2> SUFFICES ASSUME ViewInit PROVE Watching
    OBVIOUS
  <2>1. view = NothingShown /\ view.kind = "none" /\ view.left = <<>>
    BY DEF ViewInit, NothingShown
  <2>2. QED
    BY <2>1, NothingShownType, StatementsOfViews DEF Watching, Scheduled
<1>2. TypeOK /\ Watching /\ [ViewNext]_viewVars => Watching'
  BY WatchingKept
<1>3. QED
  BY <1>1, <1>2, OrderStaysSound, PTL DEF ViewSpec, OrderInv

NoCompositionPending == ~ \E r \in Requests : Commits(r, "ComposeQuote")

\* What running a statement adds to the view.
Adds(statement) ==
    CASE statement = "order"    -> /\ view.kind = "tracking" => view'.status = status
                                   /\ UNCHANGED <<view.trail, view.quote, view.items, view.quiet>>
      [] statement = "trail"    -> /\ view'.trail = Len(history)
                                   /\ UNCHANGED <<view.status, view.quote, view.items, view.quiet>>
      [] statement = "quote"    -> /\ view'.quote = quote /\ view'.quiet = NoCompositionPending
                                   /\ UNCHANGED <<view.status, view.trail, view.items>>
      [] statement = "products" -> /\ view'.items = view.items \cup {i \in items : i.kind = "PRODUCT"}
                                   /\ UNCHANGED <<view.status, view.trail, view.quote, view.quiet>>
      [] statement = "services" -> /\ view'.items = view.items \cup {i \in items : i.kind = "SERVICE"}
                                   /\ UNCHANGED <<view.status, view.trail, view.quote, view.quiet>>

\* The three ways a view can come out of a step: as it was, with nothing
\* moving once it is complete; just opened; with one more statement run.
Stays == view' = view /\ (Complete => UNCHANGED viewVars)
Opens == /\ UNCHANGED vars
         /\ view'.left = Statements[view'.kind] /\ view'.items = {}
Proceeds == /\ UNCHANGED vars
            /\ view.left # <<>> /\ view'.kind = view.kind /\ view'.left = Tail(view.left)
            /\ Adds(Head(view.left))

\* There is no fourth way, unless the view is answered or refused.
LEMMA ViewSteps ==
  ASSUME TypeOK, Watching, [ViewNext]_viewVars, view'.kind # "none"
  PROVE  Stays \/ Opens \/ Proceeds
<1> USE DEF Watching
<1>1. /\ Rest.kind = view.kind /\ Rest.left = Tail(view.left)
      /\ Rest.status = view.status /\ Rest.trail = view.trail /\ Rest.quote = view.quote
      /\ Rest.items = view.items /\ Rest.quiet = view.quiet
      /\ view.left # <<>> => Rest \in Views
  BY RestFields, RestType
<1>2. ASSUME NEW r \in Requests, ~ Complete,
             BeginTransaction(r) \/ EndTransaction(r) \/ WorkOutside(r) \/ Lose(r)
      PROVE  Stays
  BY <1>2 DEF BeginTransaction, EndTransaction, WorkOutside, Lose, Stays
<1>3. ASSUME NEW kind \in Kinds, OpenView(kind)
      PROVE  Opens
  BY <1>3 DEF OpenView, Show, Opens, NothingShown
<1>4. CASE ViewOrder
  <2>1. view.left # <<>> /\ Head(view.left) = "order" /\ UNCHANGED vars
    BY <1>4 DEF ViewOrder, Reads, Show
  <2>2. view' = IF view.kind = "tracking" THEN [Rest EXCEPT !.status = status] ELSE Rest
    BY <1>4 DEF ViewOrder, Show
  <2>3. QED
    BY <1>1, <2>1, <2>2 DEF Proceeds, Adds, Views
<1>5. CASE ViewTrail
  <2>1. view.left # <<>> /\ Head(view.left) = "trail" /\ UNCHANGED vars
    BY <1>5 DEF ViewTrail, Reads, Show
  <2>2. view' = [Rest EXCEPT !.trail = Len(history)]
    BY <1>5 DEF ViewTrail, Show
  <2>3. QED
    BY <1>1, <2>1, <2>2 DEF Proceeds, Adds, Views
<1>6. CASE ViewQuote
  <2>1. view.left # <<>> /\ Head(view.left) = "quote" /\ UNCHANGED vars
    BY <1>6 DEF ViewQuote, Reads, Show
  <2>2. view' = [Rest EXCEPT !.quote = quote, !.quiet = NoCompositionPending]
    BY <1>6 DEF ViewQuote, Show, NothingShown, NoCompositionPending
  <2>3. QED
    BY <1>1, <2>1, <2>2 DEF Proceeds, Adds, Views
<1>7. ASSUME NEW statement, NEW kind, ViewLines(statement, kind),
             <<statement, kind>> \in {<<"products", "PRODUCT">>, <<"services", "SERVICE">>}
      PROVE  Proceeds
  <2>1. view.left # <<>> /\ Head(view.left) = statement /\ UNCHANGED vars
    BY <1>7 DEF ViewLines, Reads, Show
  <2>2. view' = [Rest EXCEPT !.items = @ \cup {i \in items : i.kind = kind}]
    BY <1>7 DEF ViewLines, Show
  <2>3. QED
    BY <1>1, <1>7, <2>1, <2>2 DEF Proceeds, Adds, Views
<1>8. CASE Answer
  BY <1>8 DEF Answer, Show, NothingShown
<1>9. CASE UNCHANGED viewVars
  BY <1>9 DEF viewVars, Stays
<1>10. QED
  BY <1>2, <1>3, <1>4, <1>5, <1>6, <1>7, <1>8, <1>9 DEF ViewNext
-----------------------------------------------------------------------------
(* The tracking page.                                                      *)

Milestone(n, s) == \E i \in 1..n : history[i].to = s

\* Every status the order has is in the trail from the commit that gives it,
\* and stays there: the page reads the status first and the trail second.
TrackingInv ==
    /\ Milestone(Len(history), status)
    /\ view.kind = "tracking" /\ view.left = T1 => Milestone(Len(history), view.status)
    /\ TrackingHangsTogether

\* A milestone stays in the trail.
LEMMA MilestonesStay ==
  ASSUME TypeOK, [Next]_vars, NEW s, Milestone(Len(history), s)
  PROVE  \E i \in 1..Len(history') : history'[i].to = s
  BY TrailOnlyGrows DEF Milestone

\* The status a step gives the order is one.
LEMMA StatusIsMilestone ==
  ASSUME TypeOK, [Next]_vars, Milestone(Len(history), status)
  PROVE  \E i \in 1..Len(history') : history'[i].to = status'
<1>1. CASE status' = status
  BY <1>1, MilestonesStay
<1>2. ASSUME Moves PROVE history'[Len(history')].to = status' /\ Len(history') \in 1..Len(history')
  BY <1>2, TrailOnlyGrows, AppendedEntry DEF Moves
<1>3. QED
  BY <1>1, <1>2, TrailGrows DEF Composes

\* The customer never sees a status that the milestones beside it do not
\* explain.
THEOREM TrackingAlwaysHangsTogether == ViewSpec => []TrackingHangsTogether
<1>1. ViewInit => TrackingInv
  <2> SUFFICES ASSUME ViewInit PROVE TrackingInv
    OBVIOUS
  <2>1. view = NothingShown /\ view.kind = "none" /\ view.left = <<>>
    BY DEF ViewInit, NothingShown
  <2>2. Milestone(Len(history), status)
    BY DEF ViewInit, Init, Entry, Milestone
  <2>3. QED
    BY <2>1, <2>2, NothingShownType, StatementsOfViews
       DEF TrackingInv, TrackingHangsTogether, Shown
<1>2. TypeOK /\ Watching /\ TrackingInv /\ [ViewNext]_viewVars => TrackingInv'
  <2> SUFFICES ASSUME TypeOK, Watching, TrackingInv, [ViewNext]_viewVars
               PROVE  TrackingInv'
    OBVIOUS
  <2>1. Watching' /\ [Next]_vars
    BY WatchingKept, StepIsNext
  <2>2. Milestone(Len(history), status)'
    BY <2>1, StatusIsMilestone DEF TrackingInv, Milestone
  <2>3. ASSUME view'.kind = "tracking"
        PROVE  /\ view'.left = T1 => Milestone(Len(history), view.status)'
               /\ view'.left = <<>> => Milestone(view.trail, view.status)'
    <3>1. CASE Stays /\ view.left = <<>>
      BY <2>3, <3>1 DEF Stays, Complete, viewVars, vars, TrackingInv, TrackingHangsTogether,
                        Shown, Milestone
    <3>2. CASE Stays /\ view.left # <<>>
      BY <2>1, <2>3, <3>2, MilestonesStay DEF Stays, TrackingInv, Milestone
    <3>3. CASE Opens
      BY <2>3, <3>3, StatementOrder, StatementsOfViews DEF Opens
    <3>4. CASE Proceeds
      <4>1. CASE view.left = T2
        BY <2>2, <2>3, <3>4, <4>1, StatementOrder DEF Proceeds, Adds, vars, Milestone
      <4>2. CASE view.left = T1
        BY <2>3, <3>4, <4>2, StatementOrder DEF Proceeds, Adds, vars, Milestone, TrackingInv
      <4>3. QED
        BY <2>3, <3>4, <4>1, <4>2 DEF Proceeds, Watching, Scheduled
    <3>5. QED
      BY <2>3, <3>1, <3>2, <3>3, <3>4, ViewSteps
  <2>4. QED
    BY <2>1, <2>2, <2>3 DEF TrackingInv, TrackingHangsTogether, Shown, Complete, Milestone
<1>3. QED
  BY <1>1, <1>2, OrderStaysSound, AlwaysWatching, PTL DEF ViewSpec, OrderInv, TrackingInv
-----------------------------------------------------------------------------
(* The order of the trail.                                                 *)

\* How far an order has come.  No transition leads back.
Rank == [RECEIVED |-> 0, IN_DIAGNOSIS |-> 1, AWAITING_APPROVAL |-> 2,
         IN_PROGRESS |-> 3, CANCELED |-> 3, COMPLETED |-> 4, DELIVERED |-> 5]

Guarded == {"StartDiagnosis", "SendQuote", "ApproveQuote", "RejectQuote",
            "FinalizeOrder", "DeliverOrder"}

\* A request whose transaction has begun began it after it had read the
\* status.  If the order still has the status the transition leaves, it has
\* had it ever since, for it never comes back; so the last change was
\* committed before the transaction began.
InTime(r) ==
    /\ began[r] # NotBegun => at[r] = "commit"
    /\ op[r] \in Guarded => seen[r].status = Source[op[r]]
    /\ op[r] # "none" => Rank[seen[r].status] <= Rank[status]
    /\ began[r] # NotBegun /\ op[r] \in Guarded /\ status = Source[op[r]]
           => \A i \in Transitions : i <= began[r]

TimeInv ==
    /\ began \in [Requests -> Int]
    /\ stamps \in Seq(Int) /\ Len(stamps) = Len(history)
    /\ \A r \in Requests : InTime(r)
    /\ TrailInTimeOrder

\* A transition leaves the status its operation admits, for a later one.
LEMMA GuardedTransitions ==
  ASSUME TypeOK, NEW r \in Requests,
         \/ StartDiagnosis(r) \/ SendQuote(r) \/ ApproveQuote(r) \/ RejectQuote(r)
         \/ FinalizeOrder(r) \/ DeliverOrder(r)
  PROVE  /\ op[r] \in Guarded /\ status = Source[op[r]]
         /\ Rank[status'] \in Int /\ Rank[status'] > Rank[status]
  BY DEF StartDiagnosis, SendQuote, ApproveQuote, RejectQuote, FinalizeOrder, DeliverOrder,
         Transition, DecideQuote, Commits, Source, Guarded, Rank

\* What a commit does to the order, with its entry if it leaves one.
LEMMA CommitEffect ==
  ASSUME TypeOK, NEW r \in Requests, Commit(r)
  PROVE  \/ UNCHANGED <<status, history>>
         \/ Composes
         \/ /\ Moves
            /\ op[r] \in Guarded /\ status = Source[op[r]]
            /\ Rank[status'] \in Int /\ Rank[status'] > Rank[status]
<1>1. CASE SaveQuote(r)
  BY <1>1, SaveQuoteComposes
<1>2. CASE \/ StartDiagnosis(r) \/ SendQuote(r) \/ ApproveQuote(r) \/ RejectQuote(r)
           \/ FinalizeOrder(r) \/ DeliverOrder(r)
  BY <1>2, TransitionMoves, GuardedTransitions
<1>3. CASE StartExecution(r) \/ FinishExecution(r) \/ RollBack(r)
  BY <1>3 DEF StartExecution, FinishExecution, RollBack, rows
<1>4. QED
  BY <1>1, <1>2, <1>3 DEF Commit

\* The request is over when its commit is, but for a send, which goes on.
LEMMA CommitEnds ==
  ASSUME TypeOK, NEW r \in Requests, Commit(r)
  PROVE  /\ at' \in [Requests -> Steps] /\ at'[r] # "commit"
         /\ op'[r] = "none" \/ (op'[r] = op[r] /\ seen'[r] = seen[r])
         /\ \A x \in Requests \ {r} : at'[x] = at[x] /\ op'[x] = op[x] /\ seen'[x] = seen[x]
<1>1. CASE SendQuote(r)
  BY <1>1 DEF SendQuote, Goto, TypeOK, Steps
<1>2. CASE ~ SendQuote(r)
  <2>1. Return(r)
    BY <1>2 DEF Commit, SaveQuote, StartDiagnosis, ApproveQuote, RejectQuote, FinalizeOrder,
                DeliverOrder, Transition, DecideQuote, StartExecution, FinishExecution, RollBack
  <2>2. QED
    BY <2>1 DEF Return, Goto, TypeOK, Steps
<1>3. QED
  BY <1>1, <1>2

\* A read moves its request on or ends it, and never touches the order.
LEMMA ReadEffect ==
  ASSUME TypeOK, NEW r \in Requests, Read(r)
  PROVE  /\ UNCHANGED rows /\ at[r] # "commit"
         /\ op'[r] = "none" \/ (op'[r] = op[r] /\ seen'[r].status = seen[r].status)
         /\ \A x \in Requests \ {r} : at'[x] = at[x] /\ op'[x] = op[x] /\ seen'[x] = seen[x]
<1>1. CASE RefuseQuote(r) \/ RefuseEmptyQuote(r) \/ RefuseUnfinishedWork(r) \/ RefuseExecution(r)
  <2>1. Return(r) /\ UNCHANGED rows /\ at[r] # "commit"
    BY <1>1 DEF RefuseQuote, RefuseEmptyQuote, RefuseUnfinishedWork, RefuseExecution
  <2>2. QED
    BY <2>1 DEF Return, Goto, TypeOK
<1>2. CASE \/ FindQuote(r) \/ FindQuoteProducts(r) \/ FindQuoteServices(r)
           \/ FindExecutions(r) \/ FindExecution(r)
  BY <1>2 DEF FindQuote, FindQuoteProducts, FindQuoteServices, FindExecutions,
              FindExecution, Goto, TypeOK
<1>3. QED
  BY <1>1, <1>2 DEF Read

\* A slot that does not move is still in time: a composition adds no
\* transition, and after a transition the order has left what it waits for.
LEMMA OthersStayInTime ==
  ASSUME TypeOK, NEW x \in Requests, InTime(x),
         at'[x] = at[x], op'[x] = op[x], seen'[x] = seen[x], began'[x] = began[x],
         \/ UNCHANGED <<status, history>>
         \/ Composes
         \/ Moves /\ Rank[status'] \in Int /\ Rank[status'] > Rank[status]
  PROVE  InTime(x)'
<1>1. history \in Seq(Entries)
  BY DEF TypeOK, Entries
<1>2. op[x] # "none" => seen[x].status \in Statuses
  BY DEF TypeOK
<1>3. \A s \in Statuses : Rank[s] \in Int
  BY DEF Statuses, Rank
<1>4. status \in Statuses
  BY DEF TypeOK
<1>5. CASE UNCHANGED <<status, history>>
  BY <1>5 DEF InTime, Transitions
<1>6. CASE Composes
  <2>1. PICK from \in Statuses : Record("quote_composed", from, from)
    BY <1>6 DEF Composes
  <2>2. Transitions' = Transitions
    BY <1>1, <2>1, AppendedEntry DEF Transitions
  <2>3. QED
    BY <1>6, <2>2 DEF InTime, Composes
<1>7. CASE Moves /\ Rank[status'] \in Int /\ Rank[status'] > Rank[status]
  <2>1. op[x] # "none" => Rank[seen[x].status] < Rank[status']
    BY <1>2, <1>3, <1>4, <1>7 DEF InTime
  <2>2. op[x] \in Guarded => status' # Source[op[x]]
    BY <1>2, <1>3, <2>1 DEF InTime, Guarded
  <2>3. op[x] # "none" => Rank[seen[x].status] <= Rank[status']
    BY <1>2, <1>3, <1>7, <2>1
  <2>4. QED
    BY <2>2, <2>3 DEF InTime
<1>8. QED
  BY <1>5, <1>6, <1>7

\* A new entry is stamped with the start of its transaction, which is no
\* earlier than any change before it.
LEMMA StampsKeepOrder ==
  ASSUME TypeOK, TimeInv, NEW r \in Requests, EndTransaction(r)
  PROVE  stamps' \in Seq(Int) /\ Len(stamps') = Len(history') /\ TrailInTimeOrder'
<1>1. history \in Seq(Entries) /\ stamps \in Seq(Int) /\ Len(stamps) = Len(history)
      /\ began[r] \in Int
  BY DEF TypeOK, Entries, TimeInv
<1>2. Commit(r) /\ began[r] # NotBegun
  BY DEF EndTransaction
<1>3. CASE history' = history
  <2>1. stamps' = stamps
    BY <1>3 DEF EndTransaction
  <2>2. QED
    BY <1>1, <1>3, <2>1 DEF TimeInv, TrailInTimeOrder, Transitions
<1>4. ASSUME NEW event, NEW from, NEW to, Record(event, from, to),
             from # to => \A i \in Transitions : i <= began[r]
      PROVE  stamps' \in Seq(Int) /\ Len(stamps') = Len(history') /\ TrailInTimeOrder'
  <2>1. PICK n : n = Len(history)
    OBVIOUS
  <2>2. /\ n \in Nat /\ Len(history') = n + 1
        /\ \A i \in 1..n : history'[i] = history[i]
        /\ history'[n + 1].from = from /\ history'[n + 1].to = to
    BY <1>1, <1>4, <2>1, AppendedEntry
  <2>3. stamps' = Append(stamps, began[r])
    BY <2>1, <2>2 DEF EndTransaction
  <2>4. /\ stamps' \in Seq(Int) /\ Len(stamps') = n + 1
        /\ \A i \in 1..n : stamps'[i] = stamps[i]
        /\ stamps'[n + 1] = began[r]
    BY <1>1, <2>1, <2>3
  <2>5. Transitions' = {i \in 1..(n + 1) : history'[i].from # history'[i].to}
    BY <2>2 DEF Transitions
  <2>6. \A i \in Transitions' : i \in Transitions \/ (i = n + 1 /\ from # to)
    BY <2>1, <2>2, <2>5 DEF Transitions
  <2>7. Transitions \subseteq 1..n
    BY <2>1 DEF Transitions
  <2>8. ASSUME NEW i \in Transitions', NEW j \in Transitions', i < j
        PROVE  stamps'[j] >= i
    <3>1. i \in Transitions
      <4>1. i < n + 1
        BY <2>2, <2>5, <2>8
      <4>2. QED
        BY <2>2, <2>6, <2>8, <4>1
    <3>2. CASE j \in Transitions
      BY <2>4, <2>7, <2>8, <3>1, <3>2 DEF TimeInv, TrailInTimeOrder
    <3>3. CASE j = n + 1 /\ from # to
      BY <1>1, <1>4, <2>4, <2>7, <3>1, <3>3
    <3>4. QED
      BY <2>6, <3>2, <3>3
  <2>9. TrailInTimeOrder'
    BY <2>8 DEF TrailInTimeOrder
  <2>10. QED
    BY <2>2, <2>4, <2>9
<1>5. CASE Composes
  BY <1>4, <1>5 DEF Composes
<1>6. CASE Moves /\ op[r] \in Guarded /\ status = Source[op[r]]
  <2>1. \A i \in Transitions : i <= began[r]
    BY <1>2, <1>6 DEF TimeInv, InTime
  <2>2. QED
    BY <1>4, <1>6, <2>1 DEF Moves
<1>7. QED
  BY <1>2, <1>3, <1>5, <1>6, CommitEffect

\* The times of a request's slot fit its step, whatever it does.
LEMMA WorkersStayInTime ==
  ASSUME TypeOK, TimeInv, NEW r \in Requests,
         BeginTransaction(r) \/ EndTransaction(r) \/ WorkOutside(r) \/ Lose(r)
  PROVE  began' \in [Requests -> Int] /\ \A x \in Requests : InTime(x)'
<1>1. /\ began \in [Requests -> Int] /\ NotBegun \in Int /\ Len(history) \in Int
      /\ \A x \in Requests : InTime(x)
  BY DEF TypeOK, TimeInv, NotBegun
<1>2. \A s \in Statuses : Rank[s] \in Int
  BY DEF Statuses, Rank
<1>3. status \in Statuses /\ (op[r] # "none" => seen[r].status \in Statuses)
  BY DEF TypeOK
<1>4. CASE BeginTransaction(r)
  <2>1. UNCHANGED vars /\ at[r] = "commit" /\ began' = [began EXCEPT ![r] = Len(history)]
    BY <1>4 DEF BeginTransaction
  <2>2. \A x \in Requests \ {r} : InTime(x)'
    BY <1>1, <2>1, OthersStayInTime DEF vars
  <2>3. InTime(r)'
    BY <1>1, <2>1 DEF InTime, Transitions, vars
  <2>4. QED
    BY <1>1, <2>1, <2>2, <2>3
<1>5. CASE EndTransaction(r)
  <2>1. Commit(r) /\ began' = [began EXCEPT ![r] = NotBegun]
    BY <1>5 DEF EndTransaction
  <2>2. \A x \in Requests \ {r} : InTime(x)'
    BY <1>1, <2>1, CommitEnds, CommitEffect, OthersStayInTime
  <2>3. began'[r] = NotBegun
    BY <1>1, <2>1
  <2>4. Rank[status] <= Rank[status'] /\ Rank[status'] \in Int
    BY <1>2, <1>3, <2>1, CommitEffect DEF Composes
  <2>5. op'[r] = "none" \/ (op'[r] = op[r] /\ seen'[r] = seen[r])
    BY <2>1, CommitEnds
  <2>6. InTime(r)'
    BY <1>1, <1>2, <1>3, <2>3, <2>4, <2>5 DEF InTime, Guarded
  <2>7. QED
    BY <1>1, <2>1, <2>2, <2>6
<1>6. CASE WorkOutside(r) /\ Read(r)
  <2>1. began' = began /\ UNCHANGED <<status, history>>
    BY <1>6, ReadEffect DEF WorkOutside, rows
  <2>2. \A x \in Requests \ {r} : InTime(x)'
    BY <1>1, <1>6, <2>1, ReadEffect, OthersStayInTime
  <2>3. began[r] = NotBegun
    BY <1>1, <1>6, ReadEffect DEF InTime
  <2>4. InTime(r)'
    BY <1>1, <1>6, <2>1, <2>3, ReadEffect DEF InTime, Guarded
  <2>5. QED
    BY <1>1, <2>1, <2>2, <2>4
<1>7. ASSUME NEW o \in Operations, FindServiceOrder(r, o), WorkOutside(r)
      PROVE  began' \in [Requests -> Int] /\ \A x \in Requests : InTime(x)'
  <2>1. began' = began /\ UNCHANGED <<status, history>> /\ at[r] # "commit"
    BY <1>7 DEF WorkOutside, FindServiceOrder, rows
  <2>2. /\ op'[r] = o /\ seen'[r].status = status
        /\ \A x \in Requests \ {r} : at'[x] = at[x] /\ op'[x] = op[x] /\ seen'[x] = seen[x]
    BY <1>7 DEF FindServiceOrder, Goto, TypeOK
  <2>3. \A x \in Requests \ {r} : InTime(x)'
    BY <1>1, <2>1, <2>2, OthersStayInTime
  <2>4. o \in Guarded => status = Source[o]
    BY <1>7 DEF FindServiceOrder, Admitted, Guarded, Source
  <2>5. began[r] = NotBegun
    BY <1>1, <2>1 DEF InTime
  <2>6. InTime(r)'
    BY <1>2, <1>3, <2>1, <2>2, <2>4, <2>5 DEF InTime
  <2>7. QED
    BY <1>1, <2>1, <2>3, <2>6
<1>8. CASE Lose(r)
  <2>1. Drop(r) /\ began' = [began EXCEPT ![r] = NotBegun] /\ UNCHANGED <<status, history>>
    BY <1>8 DEF Lose, Drop, rows
  <2>2. /\ op'[r] = "none"
        /\ \A x \in Requests \ {r} : at'[x] = at[x] /\ op'[x] = op[x] /\ seen'[x] = seen[x]
    BY <2>1 DEF Drop, Goto, TypeOK
  <2>3. \A x \in Requests \ {r} : InTime(x)'
    BY <1>1, <2>1, <2>2, OthersStayInTime
  <2>4. InTime(r)'
    BY <1>1, <2>1, <2>2 DEF InTime, Guarded
  <2>5. QED
    BY <1>1, <2>1, <2>3, <2>4
<1>9. QED
  BY <1>4, <1>5, <1>6, <1>7, <1>8 DEF WorkOutside

\* The times fit, whoever watches.
LEMMA TimesAlwaysFit == ViewSpec => []TimeInv
<1>1. ViewInit => TimeInv
  <2> SUFFICES ASSUME ViewInit PROVE TimeInv
    OBVIOUS
  <2>1. stamps = <<0>> /\ Len(history) = 1 /\ began = [r \in Requests |-> NotBegun]
        /\ op = [r \in Requests |-> "none"]
    BY DEF ViewInit, Init
  <2>2. Transitions = {}
    BY DEF ViewInit, Init, Entry, Transitions
  <2>3. \A r \in Requests : InTime(r)
    BY <2>1 DEF InTime, Guarded
  <2>4. stamps \in Seq(Int) /\ Len(stamps) = Len(history)
    BY <2>1
  <2>5. QED
    BY <2>1, <2>2, <2>3, <2>4 DEF TimeInv, TrailInTimeOrder, NotBegun
<1>2. TypeOK /\ TimeInv /\ [ViewNext]_viewVars => TimeInv'
  <2> SUFFICES ASSUME TypeOK, TimeInv, [ViewNext]_viewVars PROVE TimeInv'
    OBVIOUS
  <2>1. ASSUME NEW r \in Requests, EndTransaction(r) PROVE TimeInv'
    BY <2>1, StampsKeepOrder, WorkersStayInTime DEF TimeInv
  <2>2. ASSUME NEW r \in Requests, BeginTransaction(r) \/ WorkOutside(r) \/ Lose(r)
        PROVE  TimeInv'
    <3>1. UNCHANGED <<stamps, history>>
      BY <2>2, ReadEffect DEF BeginTransaction, vars, WorkOutside, FindServiceOrder, Lose,
                              Drop, rows
    <3>2. QED
      BY <2>2, <3>1, WorkersStayInTime DEF TimeInv, TrailInTimeOrder, Transitions
  <2>3. CASE UNCHANGED <<vars, began, stamps>>
    BY <2>3 DEF vars, TimeInv, InTime, TrailInTimeOrder, Transitions
  <2>4. CASE \/ \E kind \in Kinds : OpenView(kind)
             \/ ViewOrder \/ ViewTrail \/ ViewQuote
             \/ ViewLines("products", "PRODUCT") \/ ViewLines("services", "SERVICE")
             \/ Answer
    BY <2>3, <2>4 DEF OpenView, ViewOrder, ViewTrail, ViewQuote, ViewLines, Answer, Show
  <2>5. QED
    BY <2>1, <2>2, <2>3, <2>4 DEF ViewNext, viewVars
<1>3. QED
  BY <1>1, <1>2, OrderStaysSound, PTL DEF ViewSpec, OrderInv

\* The trail, listed by the times of its entries, tells the status changes in
\* the order in which they happened.
THEOREM TrailAlwaysInTimeOrder == ViewSpec => []TrailInTimeOrder
<1>1. TimeInv => TrailInTimeOrder
  BY DEF TimeInv
<1>2. QED
  BY <1>1, TimesAlwaysFit, PTL
-----------------------------------------------------------------------------
(* The detail view.                                                        *)

\* The quote never lags behind the trail.
QuoteFollowsTrail ==
    /\ Recorded("approval") # {} => quote.status = "APPROVED"
    /\ Recorded("cancellation") # {} => quote.status = "REJECTED"
    /\ Recorded("quote_sent") # {} => quote.sentVersion # 0

\* A decision and a presentation are final, and an entry is written together
\* with what it says of the quote.
LEMMA QuoteSteps ==
  ASSUME TypeOK, WorkflowInv, [Next]_vars
  PROVE  /\ quote.status \in {"APPROVED", "REJECTED"} => quote'.status = quote.status
         /\ quote.sentVersion # 0 => quote'.sentVersion # 0
         /\ \/ history' = history
            \/ \E event, from, to :
                 /\ Record(event, from, to)
                 /\ event = "approval"     => quote'.status = "APPROVED"
                 /\ event = "cancellation" => quote'.status = "REJECTED"
                 /\ event = "quote_sent"   => quote'.sentVersion # 0
<1> DEFINE Goal == /\ quote.status \in {"APPROVED", "REJECTED"} => quote'.status = quote.status
                   /\ quote.sentVersion # 0 => quote'.sentVersion # 0
                   /\ \/ history' = history
                      \/ \E event, from, to :
                           /\ Record(event, from, to)
                           /\ event = "approval"     => quote'.status = "APPROVED"
                           /\ event = "cancellation" => quote'.status = "REJECTED"
                           /\ event = "quote_sent"   => quote'.sentVersion # 0
<1>1. quote \in Quotes
  BY DEF TypeOK, Quotes
<1>2. ASSUME NEW r \in Requests, SaveQuote(r) PROVE Goal
  <2>1. Record("quote_composed", seen[r].status, seen[r].status)
    BY <1>2 DEF SaveQuote
  <2>2. /\ quote'.status = IF quote.status = "NONE" THEN "PENDING" ELSE quote.status
        /\ quote'.sentVersion = quote.sentVersion
    BY <1>1, <1>2 DEF SaveQuote, Quotes
  <2>3. QED
    BY <2>1, <2>2
<1>3. ASSUME NEW r \in Requests, SendQuote(r) PROVE Goal
  <2>1. /\ Record("quote_sent", "IN_DIAGNOSIS", "AWAITING_APPROVAL")
        /\ status = "IN_DIAGNOSIS"
    BY <1>3 DEF SendQuote
  <2>2. quote'.status = quote.status /\ quote'.sentVersion = quote.version
    BY <1>1, <1>3 DEF SendQuote, Quotes
  <2>3. quote.sentVersion = 0 /\ quote.version # 0
    BY <1>3, <2>1 DEF SendQuote, Commits, WorkflowInv, OrderAgreesWithQuote, ChecksStayTrue,
                      ChecksHold
  <2>4. QED
    BY <2>1, <2>2, <2>3
<1>4. ASSUME NEW r \in Requests, ApproveQuote(r) PROVE Goal
  <2>1. /\ Record("approval", "AWAITING_APPROVAL", "IN_PROGRESS")
        /\ quote.status = "PENDING"
    BY <1>4 DEF ApproveQuote, DecideQuote
  <2>2. quote'.status = "APPROVED" /\ quote'.sentVersion = quote.sentVersion
    BY <1>1, <1>4 DEF ApproveQuote, DecideQuote, Quotes
  <2>3. QED
    BY <2>1, <2>2
<1>5. ASSUME NEW r \in Requests, RejectQuote(r) PROVE Goal
  <2>1. /\ Record("cancellation", "AWAITING_APPROVAL", "CANCELED")
        /\ quote.status = "PENDING"
    BY <1>5 DEF RejectQuote, DecideQuote
  <2>2. quote'.status = "REJECTED" /\ quote'.sentVersion = quote.sentVersion
    BY <1>1, <1>5 DEF RejectQuote, DecideQuote, Quotes
  <2>3. QED
    BY <2>1, <2>2
<1>6. ASSUME NEW r \in Requests, StartDiagnosis(r) \/ FinalizeOrder(r) \/ DeliverOrder(r)
      PROVE  Goal
  <2>1. /\ quote' = quote
        /\ \E event \in {"diagnosis_started", "completion", "delivery"},
              from \in Statuses, to \in Statuses : Record(event, from, to)
    BY <1>6 DEF StartDiagnosis, FinalizeOrder, DeliverOrder, Transition, Statuses
  <2>2. QED
    BY <2>1
<1>7. ASSUME UNCHANGED <<quote, history>> PROVE Goal
  BY <1>7
<1>8. ASSUME NEW r \in Requests,
             \/ \E o \in Operations : FindServiceOrder(r, o)
             \/ Read(r) \/ RollBack(r) \/ NotifyQuoteSent(r) \/ Drop(r)
             \/ StartExecution(r) \/ FinishExecution(r)
      PROVE  Goal
  <2>1. UNCHANGED <<quote, history>>
    BY <1>8, ReadEffect DEF FindServiceOrder, RollBack, NotifyQuoteSent, Drop, rows,
                            StartExecution, FinishExecution
  <2>2. QED
    BY <1>7, <2>1
<1>9. ASSUME UNCHANGED vars PROVE Goal
  BY <1>7, <1>9 DEF vars
<1>10. Goal
  <2> HIDE DEF Goal
  <2>1. CASE UNCHANGED vars
    BY <1>9, <2>1
  <2>2. ASSUME NEW r \in Requests, Commit(r) PROVE Goal
    BY <1>2, <1>3, <1>4, <1>5, <1>6, <1>8, <2>2 DEF Commit
  <2>3. CASE Next
    BY <1>8, <2>2, <2>3 DEF Next, Serve
  <2>4. QED
    BY <2>1, <2>3
<1>11. QED
  BY <1>10

\* So the quote keeps up with the trail at every step.
LEMMA QuoteKeepsFollowing ==
  ASSUME TypeOK, WorkflowInv, QuoteFollowsTrail, [Next]_vars
  PROVE  QuoteFollowsTrail'
<1>1. history \in Seq(Entries)
  BY DEF TypeOK, Entries
<1>2. CASE history' = history
  BY <1>2, QuoteSteps DEF QuoteFollowsTrail, Recorded
<1>3. ASSUME NEW event, NEW from, NEW to, Record(event, from, to),
             event = "approval"     => quote'.status = "APPROVED",
             event = "cancellation" => quote'.status = "REJECTED",
             event = "quote_sent"   => quote'.sentVersion # 0
      PROVE  QuoteFollowsTrail'
  <2>1. \A e : e # event => Recorded(e)' = Recorded(e)
    BY <1>1, <1>3, RecordedGrows
  <2>2. QED
    BY <1>3, <2>1, QuoteSteps DEF QuoteFollowsTrail
<1>4. QED
  BY <1>2, <1>3, QuoteSteps

\* The trail is read before the quote, which can only be ahead of it.
DetailInv ==
    /\ QuoteFollowsTrail
    /\ view.kind = "detail" /\ view.left = D1 => view.trail <= Len(history)
    /\ QuoteKeepsUpWithTrail

\* The entries shown are among those recorded.
LEMMA ShownIsRecorded ==
  ASSUME TypeOK, view.trail \in Nat, view.trail <= Len(history), NEW e
  PROVE  /\ ShownEvents(e) \subseteq Recorded(e)
         /\ Cardinality(ShownEvents(e)) \in Nat /\ Cardinality(Recorded(e)) \in Nat
         /\ Cardinality(ShownEvents(e)) <= Cardinality(Recorded(e))
<1>1. Len(history) \in Nat
  BY DEF TypeOK
<1>2. ShownEvents(e) \subseteq Recorded(e)
  BY <1>1 DEF ShownEvents, Recorded
<1>3. Recorded(e) \subseteq 1..Len(history) /\ IsFiniteSet(1..Len(history))
  BY <1>1, FS_Interval DEF Recorded
<1>4. IsFiniteSet(Recorded(e))
  BY <1>3, FS_Subset
<1>5. QED
  BY <1>2, <1>4, FS_Subset, FS_CardinalityType

\* The detail view shows no quote that is behind the trail beside it.
THEOREM QuoteAlwaysKeepsUpWithTrail == ViewSpec => []QuoteKeepsUpWithTrail
<1>1. ViewInit => DetailInv
  <2> SUFFICES ASSUME ViewInit PROVE DetailInv
    OBVIOUS
  <2>1. view = NothingShown /\ view.kind = "none" /\ view.left = <<>>
    BY DEF ViewInit, NothingShown
  <2>2. QuoteFollowsTrail
    BY DEF ViewInit, Init, Entry, Recorded, QuoteFollowsTrail
  <2>3. QED
    BY <2>1, <2>2, NothingShownType, StatementsOfViews
       DEF DetailInv, QuoteKeepsUpWithTrail, Shown
<1>2. OrderInv /\ OrderInv' /\ Watching /\ DetailInv /\ [ViewNext]_viewVars
        => DetailInv'
  <2> SUFFICES ASSUME OrderInv, OrderInv', Watching, DetailInv, [ViewNext]_viewVars
               PROVE  DetailInv'
    OBVIOUS
  <2>1. Watching' /\ [Next]_vars
    BY WatchingKept, StepIsNext DEF OrderInv
  <2>2. QuoteFollowsTrail'
    BY <2>1, QuoteKeepsFollowing DEF OrderInv, DetailInv
  <2>3. Len(history) \in Nat /\ Len(history') \in Nat /\ Len(history) <= Len(history')
    BY <2>1, TrailOnlyGrows DEF OrderInv
  <2>4. view.trail \in Nat /\ view'.trail \in Nat
    BY <2>1 DEF Watching, Views
  <2>5. ASSUME view'.kind = "detail"
        PROVE  /\ view'.left = D1 => view'.trail <= Len(history')
               /\ QuoteKeepsUpWithTrail'
    <3>1. CASE Stays /\ view.left = <<>>
      <4>1. UNCHANGED <<view, history>>
        BY <2>5, <3>1 DEF Stays, Complete, viewVars, vars
      <4>2. QED
        BY <3>1, <4>1, StatementOrder
           DEF DetailInv, QuoteKeepsUpWithTrail, Shown, Complete, ShownEvents
    <3>2. CASE Stays /\ view.left # <<>>
      BY <2>3, <2>4, <2>5, <3>2 DEF Stays, DetailInv, QuoteKeepsUpWithTrail, Shown, Complete
    <3>3. CASE Opens
      BY <2>5, <3>3, StatementOrder, StatementsOfViews
         DEF Opens, QuoteKeepsUpWithTrail, Shown, Complete
    <3>4. CASE Proceeds /\ view.left = D3
      BY <3>4, StatementOrder DEF Proceeds, QuoteKeepsUpWithTrail, Shown, Complete
    <3>5. CASE Proceeds /\ view.left = D2
      BY <2>3, <3>5, StatementOrder
         DEF Proceeds, Adds, vars, QuoteKeepsUpWithTrail, Shown, Complete
    <3>6. CASE Proceeds /\ view.left = D1
      <4>1. /\ UNCHANGED vars /\ view.kind = "detail" /\ view'.left = <<>>
            /\ view'.quote = quote /\ view'.trail = view.trail
        BY <2>5, <3>6, StatementOrder DEF Proceeds, Adds
      <4>2. history' = history
        BY <4>1 DEF vars
      <4>3. \A e : ShownEvents(e)' = ShownEvents(e)
        BY <4>1, <4>2 DEF ShownEvents
      <4>4. view.trail <= Len(history)
        BY <3>6, <4>1 DEF DetailInv
      <4>5. \A e : /\ ShownEvents(e) \subseteq Recorded(e)
                   /\ Cardinality(ShownEvents(e)) <= Cardinality(Recorded(e))
        BY <2>4, <4>4, ShownIsRecorded DEF OrderInv
      <4>6. quote.version >= Cardinality(ShownEvents("quote_composed"))
        <5>1. Cardinality(ShownEvents("quote_composed")) \in Nat
              /\ Cardinality(Recorded("quote_composed")) \in Nat
          BY <2>4, <4>4, ShownIsRecorded DEF OrderInv
        <5>2. QED
          BY <4>5, <5>1 DEF OrderInv, VersionCountsCompositions
      <4>7. QuoteKeepsUpWithTrail'
        BY <4>1, <4>3, <4>5, <4>6 DEF QuoteKeepsUpWithTrail, DetailInv, QuoteFollowsTrail
      <4>8. QED
        BY <4>1, <4>7, StatementOrder
    <3>7. QED
      BY <2>5, <3>1, <3>2, <3>3, <3>4, <3>5, <3>6, ViewSteps, StatementOrder
         DEF OrderInv, Proceeds, Watching, Scheduled
  <2>6. view'.kind # "detail" => QuoteKeepsUpWithTrail'
    BY DEF QuoteKeepsUpWithTrail, Shown
  <2>7. QED
    BY <2>1, <2>2, <2>5, <2>6 DEF DetailInv
<1>3. QED
  BY <1>1, <1>2, OrderStaysSound, AlwaysWatching, PTL DEF ViewSpec, DetailInv
-----------------------------------------------------------------------------
(* The quote view.                                                         *)

Decided(q) == q.status \in {"APPROVED", "REJECTED"}

\* A composing request reads the quote and commits, with nothing in between.
ComposersPace == \A r \in Requests : op[r] = "ComposeQuote" => at[r] \in {"quote", "commit"}

\* No other request is taken for a composing one.
LEMMA ComposersKeepPace ==
  ASSUME TypeOK, ComposersPace, [Next]_vars
  PROVE  ComposersPace'
<1>1. ASSUME NEW r \in Requests,
             /\ \A x \in Requests \ {r} : at'[x] = at[x] /\ op'[x] = op[x]
             /\ op'[r] = "ComposeQuote" => at'[r] \in {"quote", "commit"}
      PROVE  ComposersPace'
  BY <1>1 DEF ComposersPace
<1>2. ASSUME NEW r \in Requests, NEW o \in Operations, FindServiceOrder(r, o)
      PROVE  ComposersPace'
  <2>1. /\ at'[r] = FirstStep(o) /\ op'[r] = o
        /\ \A x \in Requests \ {r} : at'[x] = at[x] /\ op'[x] = op[x]
    BY <1>2 DEF FindServiceOrder, Goto, TypeOK
  <2>2. o = "ComposeQuote" => FirstStep(o) = "quote"
    BY DEF FirstStep
  <2>3. QED
    BY <1>1, <2>1, <2>2
<1>3. ASSUME NEW r \in Requests, Return(r) \/ Drop(r)
      PROVE  ComposersPace'
  <2>1. /\ op'[r] = "none"
        /\ \A x \in Requests \ {r} : at'[x] = at[x] /\ op'[x] = op[x]
    BY <1>3 DEF Return, Drop, Goto, TypeOK
  <2>2. QED
    BY <1>1, <2>1
<1>4. ASSUME NEW r \in Requests, FindQuote(r)
      PROVE  ComposersPace'
  <2>1. /\ op' = op
        /\ op[r] = "ComposeQuote" => at'[r] = "commit"
        /\ \A x \in Requests \ {r} : at'[x] = at[x]
    BY <1>4 DEF FindQuote, Goto, TypeOK
  <2>2. QED
    BY <1>1, <2>1
<1>5. ASSUME NEW r \in Requests,
             \/ FindQuoteProducts(r) \/ FindQuoteServices(r) \/ FindExecutions(r)
             \/ FindExecution(r) \/ SendQuote(r)
      PROVE  ComposersPace'
  <2>1. /\ op' = op /\ op[r] # "ComposeQuote"
        /\ \A x \in Requests \ {r} : at'[x] = at[x]
    BY <1>5 DEF FindQuoteProducts, FindQuoteServices, FindExecutions, FindExecution,
                SendQuote, Commits, Goto, TypeOK, ComposersPace
  <2>2. QED
    BY <1>1, <2>1
<1>6. ASSUME NEW r \in Requests, Serve(r)
      PROVE  ComposersPace'
  <2>1. \/ FindQuote(r)
        \/ FindQuoteProducts(r) \/ FindQuoteServices(r) \/ FindExecutions(r)
        \/ FindExecution(r) \/ SendQuote(r)
        \/ Return(r)
    BY <1>6 DEF Serve, Read, Commit, RefuseQuote, RefuseEmptyQuote, RefuseUnfinishedWork,
                RefuseExecution, SaveQuote, StartDiagnosis, ApproveQuote, RejectQuote,
                FinalizeOrder, DeliverOrder, Transition, DecideQuote, StartExecution,
                FinishExecution, RollBack, NotifyQuoteSent
  <2>2. QED
    BY <1>3, <1>4, <1>5, <2>1
<1>7. CASE UNCHANGED vars
  BY <1>7 DEF vars, ComposersPace
<1>8. QED
  BY <1>2, <1>3, <1>6, <1>7 DEF Next

\* With no composition pending, a decided quote and its lines stay as they
\* are: a composition that starts now is refused.
LEMMA DecidedQuoteRests ==
  ASSUME TypeOK, WorkflowInv, ComposersPace, [Next]_vars,
         NoCompositionPending, Decided(quote)
  PROVE  /\ \A r \in Requests : ~ (at'[r] = "commit" /\ op'[r] = "ComposeQuote")
         /\ UNCHANGED <<quote, items>>
<1> DEFINE Quiet(r) == ~ (at'[r] = "commit" /\ op'[r] = "ComposeQuote")
<1>1. \A r \in Requests : ~ (at[r] = "commit" /\ op[r] = "ComposeQuote")
  BY DEF NoCompositionPending, Commits
<1>2. ASSUME NEW r \in Requests, NEW o \in Operations, FindServiceOrder(r, o)
      PROVE  UNCHANGED <<quote, items>> /\ \A x \in Requests : Quiet(x)
  <2>1. /\ at'[r] = FirstStep(o) /\ op'[r] = o /\ UNCHANGED <<quote, items>>
        /\ \A x \in Requests \ {r} : at'[x] = at[x] /\ op'[x] = op[x]
    BY <1>2 DEF FindServiceOrder, Goto, TypeOK, rows
  <2>2. o = "ComposeQuote" => FirstStep(o) = "quote"
    BY DEF FirstStep
  <2>3. QED
    BY <1>1, <2>1, <2>2
<1>3. ASSUME NEW r \in Requests, Return(r) \/ Drop(r), NEW x \in Requests
      PROVE  Quiet(x)
  BY <1>1, <1>3 DEF Return, Drop, Goto, TypeOK
<1>4. ASSUME NEW r \in Requests, Read(r)
      PROVE  UNCHANGED <<quote, items>> /\ \A x \in Requests : Quiet(x)
  <2>1. /\ UNCHANGED <<quote, items>> /\ op'[r] \in {op[r], "none"}
        /\ \A x \in Requests \ {r} : at'[x] = at[x] /\ op'[x] = op[x]
    BY <1>4, ReadEffect DEF rows
  <2>2. op[r] = "ComposeQuote" => Return(r)
    <3>1. op[r] = "ComposeQuote" => at[r] = "quote" /\ ~ FindQuote(r)
      BY <1>1, <1>4, ReadEffect DEF ComposersPace, FindQuote, AcceptedQuote, Decided
    <3>2. QED
      BY <1>4, <3>1 DEF Read, RefuseQuote, RefuseEmptyQuote, RefuseUnfinishedWork,
                        RefuseExecution, FindQuoteProducts, FindQuoteServices, FindExecutions,
                        FindExecution
  <2>3. CASE op[r] = "ComposeQuote"
    BY <1>3, <2>1, <2>2, <2>3
  <2>4. CASE op[r] # "ComposeQuote"
    BY <1>1, <2>1, <2>4
  <2>5. QED
    BY <2>3, <2>4
<1>5. ASSUME NEW r \in Requests, Commit(r)
      PROVE  UNCHANGED <<quote, items>> /\ \A x \in Requests : Quiet(x)
  <2>1. ~ SaveQuote(r) /\ ~ SendQuote(r) /\ ~ ApproveQuote(r) /\ ~ RejectQuote(r)
    <3>1. status # "IN_DIAGNOSIS" /\ quote.status # "PENDING"
      BY DEF WorkflowInv, OrderAgreesWithQuote, Decided
    <3>2. QED
      BY <1>1, <3>1 DEF SaveQuote, SendQuote, ApproveQuote, RejectQuote, DecideQuote, Commits
  <2>2. UNCHANGED <<quote, items>> /\ Return(r)
    BY <1>5, <2>1 DEF Commit, StartDiagnosis, FinalizeOrder, DeliverOrder, Transition,
                      StartExecution, FinishExecution, RollBack, rows
  <2>3. QED
    BY <1>3, <2>2
<1>6. ASSUME NEW r \in Requests, NotifyQuoteSent(r) \/ Drop(r)
      PROVE  UNCHANGED <<quote, items>> /\ \A x \in Requests : Quiet(x)
  <2>1. UNCHANGED <<quote, items>> /\ (Return(r) \/ Drop(r))
    BY <1>6 DEF NotifyQuoteSent, Drop, rows
  <2>2. QED
    BY <1>3, <2>1
<1>7. ASSUME UNCHANGED vars
      PROVE  UNCHANGED <<quote, items>> /\ \A x \in Requests : Quiet(x)
  BY <1>1, <1>7 DEF vars
<1>8. UNCHANGED <<quote, items>> /\ \A x \in Requests : Quiet(x)
  <2> HIDE DEF Quiet
  <2>1. QED
    BY <1>2, <1>4, <1>5, <1>6, <1>7 DEF Next, Serve
<1>9. QED
  BY <1>8

LinesOf(kind) == {i \in items : i.kind = kind}

\* The lines are read after the header, and what was decided and quiet then
\* has not changed since.
WholeInv ==
    /\ ComposersPace
    /\ view.kind = "quote" /\ view.left \in {Q4, Q3, Q2} => view.items = {}
    /\ view.kind = "quote" /\ view.left \in {Q2, Q1} /\ view.quiet /\ Decided(view.quote)
           => /\ quote = view.quote /\ NoCompositionPending
              /\ view.left = Q1 => view.items = LinesOf("PRODUCT")
    /\ DecidedQuoteShownWhole

\* The two reads of the lines find all of them.
LEMMA LinesAreProductsAndServices ==
  ASSUME TypeOK
  PROVE  LinesOf("PRODUCT") \cup LinesOf("SERVICE") = items
<1>1. items \subseteq Items
  BY CompositionsAssumption DEF TypeOK
<1>2. \A i \in items : i.kind \in {"PRODUCT", "SERVICE"}
  BY <1>1, ItemsAssumption
<1>3. QED
  BY <1>2 DEF LinesOf

\* The administrative API shows a decided quote with the lines its total is
\* the sum of, unless a composition was about to slip in.
THEOREM DecidedQuoteAlwaysShownWhole == ViewSpec => []DecidedQuoteShownWhole
<1>1. ViewInit => WholeInv
  <2> SUFFICES ASSUME ViewInit PROVE WholeInv
    OBVIOUS
  <2>1. view = NothingShown /\ view.kind = "none" /\ view.left = <<>>
    BY DEF ViewInit, NothingShown
  <2>2. ComposersPace
    BY DEF ViewInit, Init, ComposersPace
  <2>3. QED
    BY <2>1, <2>2, NothingShownType, StatementsOfViews
       DEF WholeInv, DecidedQuoteShownWhole, Shown
<1>2. OrderInv /\ OrderInv' /\ Watching /\ WholeInv /\ [ViewNext]_viewVars
        => WholeInv'
  <2> SUFFICES ASSUME OrderInv, OrderInv', Watching, WholeInv, [ViewNext]_viewVars
               PROVE  WholeInv'
    OBVIOUS
  <2> DEFINE Fits == /\ view.left \in {Q4, Q3, Q2} => view.items = {}
                     /\ view.left \in {Q2, Q1} /\ view.quiet /\ Decided(view.quote)
                            => /\ quote = view.quote /\ NoCompositionPending
                               /\ view.left = Q1 => view.items = LinesOf("PRODUCT")
                     /\ DecidedQuoteShownWhole
  <2>1. Watching' /\ [Next]_vars
    BY WatchingKept, StepIsNext DEF OrderInv
  <2>2. ComposersPace'
    BY <2>1, ComposersKeepPace DEF OrderInv, WholeInv
  <2>3. view.kind = "quote" => Fits
    BY DEF WholeInv
  <2>4. ASSUME view'.kind = "quote" PROVE Fits'
    <3>1. CASE Stays /\ view.left = <<>>
      <4>1. UNCHANGED view
        BY <2>4, <3>1 DEF Stays
      <4>2. QED
        BY <2>3, <2>4, <3>1, <4>1, StatementOrder
           DEF DecidedQuoteShownWhole, Shown, Complete
    <3>2. CASE Stays /\ view.left # <<>>
      <4>1. UNCHANGED view
        BY <3>2 DEF Stays
      <4>2. view.left \in {Q2, Q1} /\ view.quiet /\ Decided(view.quote)
              => UNCHANGED <<quote, items>> /\ NoCompositionPending'
        BY <2>1, <2>3, <2>4, <4>1, DecidedQuoteRests
           DEF OrderInv, WholeInv, NoCompositionPending, Commits
      <4>3. QED
        BY <2>3, <2>4, <3>2, <4>1, <4>2
           DEF LinesOf, DecidedQuoteShownWhole, Shown, Complete, Decided
    <3>3. CASE Opens
      BY <2>4, <3>3, StatementOrder, StatementsOfViews
         DEF Opens, DecidedQuoteShownWhole, Shown, Complete
    <3>4. CASE Proceeds /\ view.left = Q4
      BY <2>3, <2>4, <3>4, StatementOrder
         DEF Proceeds, Adds, DecidedQuoteShownWhole, Shown, Complete
    <3>5. CASE Proceeds /\ view.left = Q3
      <4>1. /\ UNCHANGED vars /\ view'.left = Q2 /\ view'.items = {}
            /\ view'.quote = quote /\ view'.quiet = NoCompositionPending
        BY <2>3, <2>4, <3>5, StatementOrder DEF Proceeds, Adds
      <4>2. NoCompositionPending' = NoCompositionPending /\ quote' = quote
        BY <4>1 DEF NoCompositionPending, Commits, vars
      <4>3. QED
        BY <4>1, <4>2, StatementOrder DEF DecidedQuoteShownWhole, Shown, Complete
    <3>6. CASE Proceeds /\ view.left = Q2
      <4>1. /\ UNCHANGED vars /\ view'.left = Q1 /\ view'.items = LinesOf("PRODUCT")
            /\ view'.quote = view.quote /\ view'.quiet = view.quiet
        BY <2>3, <2>4, <3>6, StatementOrder DEF Proceeds, Adds, LinesOf
      <4>2. NoCompositionPending' = NoCompositionPending /\ UNCHANGED <<quote, items>>
        BY <4>1 DEF NoCompositionPending, Commits, vars
      <4>3. QED
        BY <2>3, <2>4, <3>6, <4>1, <4>2, StatementOrder
           DEF Proceeds, LinesOf, DecidedQuoteShownWhole, Shown, Complete, Decided
    <3>7. CASE Proceeds /\ view.left = Q1
      <4>1. /\ UNCHANGED vars /\ view'.left = <<>>
            /\ view'.items = view.items \cup LinesOf("SERVICE")
            /\ view'.quote = view.quote /\ view'.quiet = view.quiet
        BY <2>3, <2>4, <3>7, StatementOrder DEF Proceeds, Adds, LinesOf
      <4>2. view.quiet /\ Decided(view.quote) => quote = view.quote /\ view'.items = items
        BY <2>3, <2>4, <3>7, <4>1, LinesAreProductsAndServices DEF Proceeds, OrderInv
      <4>3. QED
        BY <4>1, <4>2, StatementOrder
           DEF OrderInv, TotalIsSumOfItems, DecidedQuoteShownWhole, Shown, Complete, Decided
    <3>8. QED
      BY <2>4, <3>1, <3>2, <3>3, <3>4, <3>5, <3>6, <3>7, ViewSteps, StatementOrder
         DEF OrderInv, Proceeds, Watching, Scheduled
  <2>5. view'.kind # "quote" => DecidedQuoteShownWhole'
    BY DEF DecidedQuoteShownWhole, Shown
  <2>6. QED
    BY <2>1, <2>2, <2>4, <2>5 DEF WholeInv
<1>3. QED
  BY <1>1, <1>2, OrderStaysSound, AlwaysWatching, PTL DEF ViewSpec, WholeInv
-----------------------------------------------------------------------------
(* Type correctness.                                                       *)

\* The version of a quote only rises, so none shown is newer than the stored.
LEMMA VersionsRise ==
  ASSUME TypeOK, [Next]_vars
  PROVE  quote'.version = quote.version \/ quote'.version = quote.version + 1
  BY TrailGrows DEF Composes, Moves

\* A new entry has the start of its transaction as its time, an earlier
\* length of the trail.
LEMMA StampsStayInRange ==
  ASSUME TypeOK, TimeInv, ViewTypeOK, NEW r \in Requests, EndTransaction(r)
  PROVE  \A i \in 1..Len(stamps') : stamps'[i] \in 0..(i - 1)
<1>1. /\ stamps \in Seq(Int) /\ Len(stamps) = Len(history)
      /\ \A i \in 1..Len(stamps) : stamps[i] \in 0..(i - 1)
      /\ began[r] \in 0..Len(history)
  BY DEF TimeInv, ViewTypeOK, EndTransaction
<1>2. CASE stamps' = stamps
  BY <1>1, <1>2
<1>3. CASE stamps' = Append(stamps, began[r])
  <2>1. /\ Len(stamps') = Len(stamps) + 1
        /\ \A i \in 1..Len(stamps) : stamps'[i] = stamps[i]
        /\ stamps'[Len(stamps) + 1] = began[r]
    BY <1>1, <1>3
  <2>2. QED
    BY <1>1, <2>1
<1>4. QED
  BY <1>2, <1>3 DEF EndTransaction

\* What is shown was stored when it was read, and no time lies in the future.
THEOREM ViewTypeCorrect == ViewSpec => []ViewTypeOK
<1>1. ViewInit => ViewTypeOK
  <2> SUFFICES ASSUME ViewInit PROVE ViewTypeOK
    OBVIOUS
  <2>1. /\ view.kind = "none" /\ view.trail = 0 /\ view.quote.version = 0 /\ view.items = {}
        /\ quote.version = 0
    BY DEF ViewInit, Init, NothingShown, NoQuote
  <2>2. stamps = <<0>> /\ Len(history) = 1 /\ began = [r \in Requests |-> NotBegun]
    BY DEF ViewInit, Init
  <2>3. QED
    BY <2>1, <2>2 DEF ViewTypeOK
<1>2. OrderInv /\ Watching /\ TimeInv /\ TimeInv' /\ ViewTypeOK /\ [ViewNext]_viewVars
        => ViewTypeOK'
  <2> SUFFICES ASSUME OrderInv, Watching, TimeInv, TimeInv', ViewTypeOK, [ViewNext]_viewVars
               PROVE  ViewTypeOK'
    OBVIOUS
  <2>1. Watching' /\ [Next]_vars
    BY WatchingKept, StepIsNext DEF OrderInv
  <2>2. Len(history) \in Nat /\ Len(history') \in Nat /\ Len(history) <= Len(history')
    BY <2>1, TrailOnlyGrows DEF OrderInv
  <2>3. /\ began' \in [Requests -> {NotBegun} \cup 0..Len(history')]
        /\ \A i \in 1..Len(stamps') : stamps'[i] \in 0..(i - 1)
    <3>1. ASSUME NEW r \in Requests, EndTransaction(r)
          PROVE  began' \in [Requests -> {NotBegun} \cup 0..Len(history')]
      BY <2>2, <3>1 DEF EndTransaction, ViewTypeOK
    <3>2. ASSUME NEW r \in Requests, BeginTransaction(r) \/ WorkOutside(r) \/ Lose(r)
          PROVE  /\ began' \in [Requests -> {NotBegun} \cup 0..Len(history')]
                 /\ stamps' = stamps
      BY <2>2, <3>2 DEF BeginTransaction, WorkOutside, Lose, ViewTypeOK
    <3>3. CASE UNCHANGED <<began, stamps>>
      BY <2>2, <3>3 DEF ViewTypeOK
    <3>4. CASE \/ \E kind \in Kinds : OpenView(kind)
               \/ ViewOrder \/ ViewTrail \/ ViewQuote
               \/ ViewLines("products", "PRODUCT") \/ ViewLines("services", "SERVICE")
               \/ Answer
      BY <3>3, <3>4 DEF OpenView, ViewOrder, ViewTrail, ViewQuote, ViewLines, Answer, Show
    <3>5. ASSUME NEW r \in Requests, EndTransaction(r)
          PROVE  \A i \in 1..Len(stamps') : stamps'[i] \in 0..(i - 1)
      BY <3>5, StampsStayInRange DEF OrderInv
    <3>6. \A i \in 1..Len(stamps) : stamps[i] \in 0..(i - 1)
      BY DEF ViewTypeOK
    <3>7. QED
      BY <3>1, <3>2, <3>3, <3>4, <3>5, <3>6 DEF ViewNext, viewVars
  <2>4. view'.kind \in Kinds \cup {"none"} /\ view'.items \subseteq Items
    BY <2>1 DEF Watching, Views
  <2>5. quote.version \in Nat /\ quote'.version \in Nat /\ quote.version <= quote'.version
    BY <2>1, VersionsRise DEF OrderInv, TypeOK
  <2>6. view'.trail \in {view.trail, Len(history), 0}
        /\ view'.quote.version \in {view.quote.version, quote.version, 0}
    <3>1. ASSUME NEW kind \in Kinds, OpenView(kind)
          PROVE  view'.trail = 0 /\ view'.quote.version = 0
      BY <3>1 DEF OpenView, Show, NothingShown, NoQuote
    <3>2. CASE Answer
      BY <3>2 DEF Answer, Show, NothingShown, NoQuote
    <3>3. CASE view' = NothingShown
      BY <3>3 DEF NothingShown, NoQuote
    <3>4. CASE \/ ViewOrder \/ ViewTrail
               \/ ViewLines("products", "PRODUCT") \/ ViewLines("services", "SERVICE")
      BY <3>4, RestFields, RestType
         DEF ViewOrder, ViewTrail, ViewLines, Reads, Show, Watching, Views
    <3>5. CASE ViewQuote
      BY <3>3, <3>5, RestFields, RestType DEF ViewQuote, Reads, Show, Watching, Views
    <3>6. ASSUME NEW r \in Requests,
                 BeginTransaction(r) \/ EndTransaction(r) \/ WorkOutside(r) \/ Lose(r)
          PROVE  view' = view
      BY <3>6 DEF BeginTransaction, EndTransaction, WorkOutside, Lose
    <3>7. CASE UNCHANGED viewVars
      BY <3>7 DEF viewVars
    <3>8. QED
      BY <3>1, <3>2, <3>4, <3>5, <3>6, <3>7 DEF ViewNext
  <2>7. view'.trail \in 0..Len(history') /\ view'.quote.version \in 0..quote'.version
    BY <2>2, <2>5, <2>6 DEF ViewTypeOK
  <2>8. QED
    BY <2>3, <2>4, <2>7 DEF ViewTypeOK, TimeInv
<1>3. QED
  BY <1>1, <1>2, OrderStaysSound, AlwaysWatching, TimesAlwaysFit, PTL DEF ViewSpec
=============================================================================
