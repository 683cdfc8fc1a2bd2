--------------------- MODULE ServiceOrderWorkflowProofs ---------------------
(***************************************************************************)
(* Proofs about ServiceOrderWorkflow for any number of request slots, any  *)
(* catalogue, any compositions and any bound on the versions: the state of *)
(* the order first, then what its audit trail tells.                       *)
(***************************************************************************)
EXTENDS ServiceOrderWorkflow, FiniteSetTheorems, Positions, TLAPS

-----------------------------------------------------------------------------
(* Type correctness.                                                       *)

\* Every total the code stores or reads is one of Totals.
LEMMA CalculatedTotals == \A c \in Compositions : CalculateTotal(c) \in Totals
  BY DEF Totals

\* Every operation goes on with a known step after it has read the order.
LEMMA FirstStepType == \A o \in Operations : FirstStep(o) \in Steps
  BY DEF FirstStep, Steps, Operations, Admitted, Decisions

\* A returning request leaves well-typed slots behind.
LEMMA ReturnType ==
  ASSUME TypeOK, NEW r \in Requests, Return(r)
  PROVE  /\ at' \in [Requests -> Steps]
         /\ op' \in [Requests -> Operations \cup {"none"}]
         /\ seen' \in [Requests -> [status : Statuses \cup {"NONE"}, total : Totals,
                                    items : SUBSET Items,
                                    execution : ExecutionIds \cup {NoExecution}]]
         /\ \A x \in Requests : op'[x] # "none" => seen'[x].status \in Statuses
  BY DEF TypeOK, Return, Goto, Steps, NothingRead, Totals

\* Entries of known events between known statuses keep the trail well typed.
LEMMA RecordType ==
  ASSUME TypeOK, NEW event \in Events, NEW from \in Statuses, NEW to \in Statuses,
         Record(event, from, to)
  PROVE  history' \in Seq([event : Events, from : Statuses, to : Statuses])
  BY DEF TypeOK, Record, Entry

\* The variables keep the types of the columns and Go values they stand for.
THEOREM TypeCorrect == Spec => []TypeOK
<1>1. Init => TypeOK
  <2> SUFFICES ASSUME Init PROVE TypeOK
    OBVIOUS
  <2>1. history \in Seq([event : Events, from : Statuses, to : Statuses])
    BY DEF Init, Entry, Events, Statuses
  <2>2. quote \in [status : QuoteStatuses \cup {"NONE"}, version : 0..MaxVersion,
                   sentVersion : 0..MaxVersion, total : Totals]
    BY MaxVersionAssumption DEF Init, NoQuote, Totals
  <2>3. QED
    BY <2>1, <2>2 DEF Init, TypeOK, NotStarted, NothingRead, Statuses, Steps, Totals
<1>2. TypeOK /\ [Next]_vars => TypeOK'
  <2> SUFFICES ASSUME TypeOK, [Next]_vars PROVE TypeOK'
    OBVIOUS
  <2>1. ASSUME NEW r \in Requests, NEW o \in Operations, FindServiceOrder(r, o)
        PROVE  TypeOK'
    BY <2>1, FirstStepType DEF TypeOK, FindServiceOrder, Goto, rows
  <2>2. ASSUME NEW r \in Requests, FindQuote(r)
        PROVE  TypeOK'
    BY <2>2 DEF TypeOK, FindQuote, Goto, rows, Steps
  <2>3. ASSUME NEW r \in Requests,
               \/ RefuseQuote(r) \/ RefuseEmptyQuote(r) \/ RefuseUnfinishedWork(r)
               \/ RefuseExecution(r) \/ RollBack(r)
        PROVE  TypeOK'
    <3>1. Return(r) /\ UNCHANGED <<rows, mails, sentTotal>>
      BY <2>3 DEF RefuseQuote, RefuseEmptyQuote, RefuseUnfinishedWork,
                  RefuseExecution, RollBack
    <3>2. QED
      BY <3>1, ReturnType DEF TypeOK, rows
  <2>4. ASSUME NEW r \in Requests, FindQuoteProducts(r)
        PROVE  TypeOK'
    <3>1. {i \in items : i.kind = "PRODUCT"} \subseteq Items
      BY CompositionsAssumption DEF TypeOK
    <3>2. QED
      BY <2>4, <3>1 DEF TypeOK, FindQuoteProducts, Goto, rows, Steps
  <2>5. ASSUME NEW r \in Requests, FindQuoteServices(r)
        PROVE  TypeOK'
    <3>1. seen[r].items \cup {i \in items : i.kind = "SERVICE"} \subseteq Items
      BY CompositionsAssumption DEF TypeOK
    <3>2. QED
      BY <2>5, <3>1 DEF TypeOK, FindQuoteServices, Goto, rows, Steps
  <2>6. ASSUME NEW r \in Requests, FindExecutions(r)
        PROVE  TypeOK'
    BY <2>6 DEF TypeOK, FindExecutions, Goto, rows, Steps
  <2>7. ASSUME NEW r \in Requests, FindExecution(r)
        PROVE  TypeOK'
    <3>1. PICK e \in ExecutionIds : seen' = [seen EXCEPT ![r].execution = e]
      BY <2>7 DEF FindExecution
    <3>2. seen' \in [Requests -> [status : Statuses \cup {"NONE"}, total : Totals,
                                 items : SUBSET Items,
                                 execution : ExecutionIds \cup {NoExecution}]]
      <4>1. seen \in [Requests -> [status : Statuses \cup {"NONE"}, total : Totals,
                                  items : SUBSET Items,
                                  execution : ExecutionIds \cup {NoExecution}]]
        BY DEF TypeOK
      <4>2. QED
        BY <3>1, <4>1
    <3>3. \A x \in Requests : op'[x] # "none" => seen'[x].status \in Statuses
      BY <2>7, <3>1 DEF TypeOK, FindExecution
    <3>4. QED
      BY <2>7, <3>2, <3>3 DEF TypeOK, FindExecution, Goto, rows, Steps
  <2>8. ASSUME NEW r \in Requests,
               StartDiagnosis(r) \/ FinalizeOrder(r) \/ DeliverOrder(r)
        PROVE  TypeOK'
    <3>1. PICK o \in Operations, event \in Events, from \in Statuses, to \in Statuses :
             Transition(r, o, event, from, to)
      BY <2>8 DEF StartDiagnosis, FinalizeOrder, DeliverOrder, Events, Statuses,
                  Operations, Admitted
    <3>2. QED
      BY <3>1, ReturnType, RecordType DEF Transition, TypeOK
  <2>9. ASSUME NEW r \in Requests, SaveQuote(r)
        PROVE  TypeOK'
    <3>1. PICK c \in Compositions :
            /\ items' = c
            /\ quote' = [quote EXCEPT !.status  = IF @ = "NONE" THEN "PENDING" ELSE @,
                                      !.version = @ + 1,
                                      !.total   = CalculateTotal(c)]
      BY <2>9 DEF SaveQuote
    <3>2. quote.version < MaxVersion /\ quote.version + 1 \in 0..MaxVersion
      BY <2>9, MaxVersionAssumption DEF SaveQuote, TypeOK
    <3>3. quote' \in [status : QuoteStatuses \cup {"NONE"}, version : 0..MaxVersion,
                      sentVersion : 0..MaxVersion, total : Totals]
      BY <3>1, <3>2, CalculatedTotals DEF TypeOK, QuoteStatuses
    <3>4. history' \in Seq([event : Events, from : Statuses, to : Statuses])
      <4>1. seen[r].status \in Statuses /\ "quote_composed" \in Events
        BY <2>9 DEF SaveQuote, Commits, TypeOK, Events
      <4>2. QED
        BY <2>9, <4>1, RecordType DEF SaveQuote
    <3>5. QED
      BY <2>9, <3>1, <3>3, <3>4, ReturnType DEF SaveQuote, TypeOK
  <2>10. ASSUME NEW r \in Requests, SendQuote(r)
         PROVE  TypeOK'
    BY <2>10, RecordType DEF TypeOK, SendQuote, Goto, Steps, Events, Statuses
  <2>11. ASSUME NEW r \in Requests, NotifyQuoteSent(r)
         PROVE  TypeOK'
    <3>1. mails' \in Seq(Totals)
      <4>1. seen[r].total \in Totals
        BY DEF TypeOK
      <4>2. QED
        BY <2>11, <4>1 DEF TypeOK, NotifyQuoteSent
    <3>2. QED
      BY <2>11, <3>1, ReturnType DEF TypeOK, NotifyQuoteSent, rows
  <2>12. ASSUME NEW r \in Requests, ApproveQuote(r) \/ RejectQuote(r)
         PROVE  TypeOK'
    <3>1. PICK o \in Operations, decision \in QuoteStatuses, event \in Events, to \in Statuses :
             DecideQuote(r, o, decision, event, to)
      BY <2>12 DEF ApproveQuote, RejectQuote, Events, Statuses, QuoteStatuses,
                   Operations, Admitted
    <3>2. QED
      BY <3>1, ReturnType, RecordType DEF DecideQuote, TypeOK, Statuses
  <2>13. ASSUME NEW r \in Requests, StartExecution(r)
         PROVE  TypeOK'
    BY <2>13, ReturnType DEF TypeOK, StartExecution
  <2>14. ASSUME NEW r \in Requests, FinishExecution(r)
         PROVE  TypeOK'
    <3>1. executions' \in [ExecutionIds -> [service : Services \cup {"NONE"},
                                           endedBy : Requests \cup {NoRequest}]]
      <4>1. CASE seen[r].execution \in ExecutionIds
        <5>1. executions \in [ExecutionIds -> [service : Services \cup {"NONE"},
                                              endedBy : Requests \cup {NoRequest}]]
          BY DEF TypeOK
        <5>2. executions' = [executions EXCEPT ![seen[r].execution].endedBy = r]
          BY <2>14 DEF FinishExecution
        <5>3. QED
          BY <4>1, <5>1, <5>2
      <4>2. CASE seen[r].execution \notin ExecutionIds
        <5>1. executions' = executions
          BY <2>14, <4>2 DEF TypeOK, FinishExecution
        <5>2. QED
          BY <5>1 DEF TypeOK
      <4>3. QED
        BY <4>1, <4>2
    <3>2. QED
      BY <2>14, <3>1, ReturnType DEF TypeOK, FinishExecution
  <2>15. ASSUME NEW r \in Requests, Drop(r)
         PROVE  TypeOK'
    BY <2>15 DEF TypeOK, Drop, Goto, rows, Steps, NothingRead, Totals
  <2>16. CASE UNCHANGED vars
    BY <2>16 DEF TypeOK, vars
  <2>17. QED
    BY <2>1, <2>2, <2>3, <2>4, <2>5, <2>6, <2>7, <2>8, <2>9, <2>10, <2>11, <2>12,
       <2>13, <2>14, <2>15, <2>16 DEF Next, Serve, Read, Commit
<1>3. QED
  BY <1>1, <1>2, PTL DEF Spec
-----------------------------------------------------------------------------
(* The order agrees with its quote.  Alone this is not inductive: whether  *)
(* a send or an execution keeps it depends on what the request has found   *)
(* out earlier, so the checks that stay true are proved with it.           *)

WorkflowInv == OrderAgreesWithQuote /\ ChecksStayTrue /\ ExecutionsFollowApproval

\* Reads, refusals, notifications and drops change no row, so only what the
\* slots claim has to be looked at again.
LEMMA RowsUntouched ==
  ASSUME WorkflowInv, UNCHANGED rows, ChecksStayTrue'
  PROVE  WorkflowInv'
  BY DEF WorkflowInv, OrderAgreesWithQuote, ExecutionsFollowApproval, Started, rows

\* What a slot claims outlives every change of the rows that undoes no
\* start of a diagnosis, no composition, no approval and no execution.
LEMMA ClaimOutlives ==
  ASSUME TypeOK, NEW x \in Requests, ChecksHold(x),
         op'[x] = op[x], seen'[x].execution = seen[x].execution, at'[x] = at[x],
         status # "RECEIVED" => status' # "RECEIVED",
         status \notin {"RECEIVED", "IN_DIAGNOSIS"} => status' # "IN_DIAGNOSIS",
         quote.status # "NONE" => quote'.status # "NONE",
         quote.status = "APPROVED" => quote'.status = "APPROVED",
         \A e \in ExecutionIds : executions[e] # NotStarted => executions'[e] # NotStarted
  PROVE  ChecksHold(x)'
<1>1. seen[x].execution \in ExecutionIds \cup {NoExecution}
  BY DEF TypeOK
<1>2. QED
  BY <1>1 DEF ChecksHold, Started, Decisions

\* An idle or dropped slot claims nothing.
LEMMA ClearedSlot ==
  ASSUME NEW r \in Requests, TypeOK,
         op' = [op EXCEPT ![r] = "none"], seen' = [seen EXCEPT ![r] = NothingRead]
  PROVE  ChecksHold(r)'
<1>1. op'[r] = "none" /\ seen'[r] = NothingRead
  BY DEF TypeOK
<1>2. QED
  BY <1>1 DEF ChecksHold, NothingRead, Decisions

\* A returning request leaves only claims that outlive its transaction.
LEMMA ReturnKeepsChecks ==
  ASSUME TypeOK, ChecksStayTrue, NEW r \in Requests, Return(r),
         status # "RECEIVED" => status' # "RECEIVED",
         status \notin {"RECEIVED", "IN_DIAGNOSIS"} => status' # "IN_DIAGNOSIS",
         quote.status # "NONE" => quote'.status # "NONE",
         quote.status = "APPROVED" => quote'.status = "APPROVED",
         \A e \in ExecutionIds : executions[e] # NotStarted => executions'[e] # NotStarted
  PROVE  ChecksStayTrue'
<1> SUFFICES ASSUME NEW x \in Requests PROVE ChecksHold(x)'
  BY DEF ChecksStayTrue
<1>1. CASE x = r
  BY <1>1, ClearedSlot DEF Return
<1>2. CASE x # r
  <2>1. op'[x] = op[x] /\ seen'[x] = seen[x] /\ at'[x] = at[x]
    BY <1>2 DEF TypeOK, Return, Goto
  <2>2. QED
    BY <2>1, ClaimOutlives DEF ChecksStayTrue
<1>3. QED
  BY <1>1, <1>2

\* A request that reads and goes on answers for its own slot only.
LEMMA AdvanceKeepsChecks ==
  ASSUME TypeOK, WorkflowInv, NEW r \in Requests, UNCHANGED rows, ChecksHold(r)',
         \A x \in Requests \ {r} :
            op'[x] = op[x] /\ seen'[x].execution = seen[x].execution /\ at'[x] = at[x]
  PROVE  WorkflowInv'
<1>1. ASSUME NEW x \in Requests PROVE ChecksHold(x)'
  <2>1. CASE x = r
    BY <2>1
  <2>2. CASE x # r
    <3>1. UNCHANGED <<status, quote, executions>>
      BY DEF rows
    <3>2. QED
      BY <2>2, <3>1, ClaimOutlives DEF WorkflowInv, ChecksStayTrue
  <2>3. QED
    BY <2>1, <2>2
<1>2. QED
  BY <1>1, RowsUntouched DEF ChecksStayTrue

\* The admitted statuses say what the operation may rely on from then on.
LEMMA AdmittedChecks ==
  ASSUME OrderAgreesWithQuote, NEW o \in Operations, status \in Admitted[o]
  PROVE  /\ o # "StartDiagnosis" => status # "RECEIVED"
         /\ o \in {"StartExecution", "FinishExecution", "FinalizeOrder"}
               => quote.status = "APPROVED"
         /\ o \in Decisions => status # "IN_DIAGNOSIS"
         /\ FirstStep(o) = "quote" \/ o # "SendQuote"
  BY DEF OrderAgreesWithQuote, Operations, Admitted, FirstStep, Statuses, Decisions

\* The invariant survives the read that admits a request.
LEMMA FindServiceOrderKeepsInv ==
  ASSUME TypeOK, WorkflowInv, NEW r \in Requests, NEW o \in Operations,
         FindServiceOrder(r, o)
  PROVE  WorkflowInv'
<1>1. op'[r] = o /\ at'[r] = FirstStep(o) /\ seen'[r].execution = seen[r].execution
  BY DEF TypeOK, FindServiceOrder, Goto
<1>2. ChecksHold(r) /\ OrderAgreesWithQuote /\ status \in Admitted[o] /\ UNCHANGED rows
  BY DEF WorkflowInv, ChecksStayTrue, FindServiceOrder
<1>3. UNCHANGED <<status, quote, executions>>
  BY <1>2 DEF rows
<1>4. ChecksHold(r)'
  BY <1>1, <1>2, <1>3, AdmittedChecks DEF ChecksHold, Started
<1>5. \A x \in Requests \ {r} :
        op'[x] = op[x] /\ seen'[x].execution = seen[x].execution /\ at'[x] = at[x]
  BY DEF TypeOK, FindServiceOrder, Goto
<1>6. QED
  BY <1>2, <1>4, <1>5, AdvanceKeepsChecks

\* It survives the later reads: finding the quote is what sending relies on,
\* finding the execution what finishing relies on.
LEMMA ReadKeepsInv ==
  ASSUME TypeOK, WorkflowInv, NEW r \in Requests,
         \/ FindQuote(r) \/ FindQuoteProducts(r) \/ FindQuoteServices(r)
         \/ FindExecutions(r) \/ FindExecution(r)
  PROVE  WorkflowInv'
<1>1. UNCHANGED rows /\ op' = op /\ ChecksHold(r)
  BY DEF FindQuote, FindQuoteProducts, FindQuoteServices, FindExecutions,
         FindExecution, WorkflowInv, ChecksStayTrue
<1>2. UNCHANGED <<status, quote, executions>>
  BY <1>1 DEF rows
<1>3. \A x \in Requests \ {r} :
        op'[x] = op[x] /\ seen'[x].execution = seen[x].execution /\ at'[x] = at[x]
  <2>1. CASE FindExecution(r)
    BY <2>1 DEF TypeOK, FindExecution, Goto
  <2>2. CASE ~ FindExecution(r)
    BY <2>2 DEF TypeOK, FindQuote, FindQuoteProducts, FindQuoteServices,
                FindExecutions, Goto
  <2>3. QED
    BY <2>1, <2>2
<1>4. ChecksHold(r)'
  <2>1. CASE FindQuote(r)
    <3>1. seen'[r].execution = seen[r].execution
      BY <2>1 DEF TypeOK, FindQuote
    <3>2. op[r] = "SendQuote" => quote.status # "NONE"
      BY <2>1 DEF FindQuote, AcceptedQuote, QuoteStatuses
    <3>3. QED
      BY <1>1, <1>2, <3>1, <3>2 DEF ChecksHold, Started
  <2>2. CASE FindQuoteProducts(r) \/ FindQuoteServices(r) \/ FindExecutions(r)
    <3>1. seen'[r].execution = seen[r].execution /\ at[r] # "quote"
      BY <2>2 DEF TypeOK, FindQuoteProducts, FindQuoteServices, FindExecutions
    <3>2. QED
      BY <1>1, <1>2, <3>1 DEF ChecksHold, Started
  <2>3. CASE FindExecution(r)
    <3>1. PICK e \in ExecutionIds :
            Started(e) /\ seen' = [seen EXCEPT ![r].execution = e]
      BY <2>3 DEF FindExecution
    <3>2. seen'[r].execution = e
      BY <3>1 DEF TypeOK
    <3>3. at[r] # "quote"
      BY <2>3 DEF FindExecution
    <3>4. QED
      BY <1>1, <1>2, <3>1, <3>2, <3>3 DEF ChecksHold, Started
  <2>4. QED
    BY <2>1, <2>2, <2>3
<1>5. QED
  BY <1>1, <1>3, <1>4, AdvanceKeepsChecks

\* It survives a request that ends without touching a row.
LEMMA EndKeepsInv ==
  ASSUME TypeOK, WorkflowInv, NEW r \in Requests, UNCHANGED rows,
         Return(r) \/ Drop(r)
  PROVE  WorkflowInv'
<1>1. /\ op' = [op EXCEPT ![r] = "none"]
      /\ seen' = [seen EXCEPT ![r] = NothingRead]
      /\ \A x \in Requests \ {r} : at'[x] = at[x]
  BY DEF TypeOK, Return, Drop, Goto
<1>2. ChecksHold(r)'
  BY <1>1, ClearedSlot
<1>3. QED
  BY <1>1, <1>2, AdvanceKeepsChecks DEF TypeOK

\* The guarded transitions of the order that leave the quote alone.
LEMMA TransitionKeepsInv ==
  ASSUME TypeOK, WorkflowInv, NEW r \in Requests,
         StartDiagnosis(r) \/ FinalizeOrder(r) \/ DeliverOrder(r)
  PROVE  WorkflowInv'
<1>1. Return(r) /\ UNCHANGED <<quote, executions>>
  BY DEF StartDiagnosis, FinalizeOrder, DeliverOrder, Transition
<1>2. \/ status = "RECEIVED" /\ status' = "IN_DIAGNOSIS"
      \/ status = "IN_PROGRESS" /\ status' = "COMPLETED"
      \/ status = "COMPLETED" /\ status' = "DELIVERED"
  BY DEF StartDiagnosis, FinalizeOrder, DeliverOrder, Transition
<1>3. OrderAgreesWithQuote'
  BY <1>1, <1>2 DEF WorkflowInv, OrderAgreesWithQuote
<1>4. ExecutionsFollowApproval'
  BY <1>1 DEF WorkflowInv, ExecutionsFollowApproval, Started
<1>5. ChecksStayTrue'
  BY <1>1, <1>2, ReturnKeepsChecks DEF WorkflowInv
<1>6. QED
  BY <1>3, <1>4, <1>5 DEF WorkflowInv

\* Composing commits without a guard; that diagnosis has started is known
\* from the request's first read.
LEMMA SaveQuoteKeepsInv ==
  ASSUME TypeOK, WorkflowInv, NEW r \in Requests, SaveQuote(r)
  PROVE  WorkflowInv'
<1>1. Return(r) /\ UNCHANGED <<status, executions>>
  BY DEF SaveQuote
<1>2. PICK c \in Compositions :
        quote' = [quote EXCEPT !.status  = IF @ = "NONE" THEN "PENDING" ELSE @,
                               !.version = @ + 1,
                               !.total   = CalculateTotal(c)]
  BY DEF SaveQuote
<1>3. quote \in [status : QuoteStatuses \cup {"NONE"}, version : 0..MaxVersion,
                 sentVersion : 0..MaxVersion, total : Totals]
  BY DEF TypeOK
<1>4. /\ quote'.status = IF quote.status = "NONE" THEN "PENDING" ELSE quote.status
      /\ quote'.version = quote.version + 1
      /\ quote'.sentVersion = quote.sentVersion
  BY <1>2, <1>3
<1>5. quote'.status # "NONE" /\ quote'.version # 0
  BY <1>3, <1>4, MaxVersionAssumption DEF QuoteStatuses
<1>6. status # "RECEIVED"
  BY DEF WorkflowInv, ChecksStayTrue, ChecksHold, SaveQuote, Commits
<1>7. OrderAgreesWithQuote'
  BY <1>1, <1>3, <1>4, <1>5, <1>6, MaxVersionAssumption DEF WorkflowInv, OrderAgreesWithQuote
<1>8. ExecutionsFollowApproval'
  BY <1>1, <1>4 DEF WorkflowInv, ExecutionsFollowApproval, Started
<1>9. ChecksStayTrue'
  BY <1>1, <1>4, <1>5, ReturnKeepsChecks DEF WorkflowInv
<1>10. QED
  BY <1>7, <1>8, <1>9 DEF WorkflowInv

\* Sending commits on the guard of the order's status alone; that there is a
\* quote to send is known from the request's second read.
LEMMA SendQuoteKeepsInv ==
  ASSUME TypeOK, WorkflowInv, NEW r \in Requests, SendQuote(r)
  PROVE  WorkflowInv'
<1>1. /\ status = "IN_DIAGNOSIS" /\ status' = "AWAITING_APPROVAL"
      /\ UNCHANGED <<executions, op, seen>>
  BY DEF SendQuote
<1>2. op[r] = "SendQuote" /\ at[r] # "quote" /\ ChecksHold(r)
  BY DEF SendQuote, Commits, WorkflowInv, ChecksStayTrue
<1>3. /\ quote'.status = quote.status /\ quote'.version = quote.version
      /\ quote'.sentVersion = quote.version
  BY DEF SendQuote, TypeOK
<1>4. quote.status # "NONE" /\ quote.version # 0
  BY <1>2 DEF ChecksHold, WorkflowInv, OrderAgreesWithQuote
<1>5. OrderAgreesWithQuote'
  <2>1. quote.version \in 0..MaxVersion
    BY DEF TypeOK
  <2>2. QED
    BY <1>1, <1>3, <1>4, <2>1, MaxVersionAssumption DEF WorkflowInv, OrderAgreesWithQuote
<1>6. ExecutionsFollowApproval'
  BY <1>1, <1>3 DEF WorkflowInv, ExecutionsFollowApproval, Started
<1>7. ASSUME NEW x \in Requests PROVE ChecksHold(x)'
  <2>1. CASE x = r
    BY <1>1, <1>2, <1>3, <1>4, <2>1 DEF ChecksHold, Started
  <2>2. CASE x # r
    <3>1. at'[x] = at[x] /\ ChecksHold(x)
      BY <2>2 DEF SendQuote, Goto, TypeOK, WorkflowInv, ChecksStayTrue
    <3>2. QED
      BY <1>1, <1>3, <3>1 DEF ChecksHold, Started
  <2>3. QED
    BY <2>1, <2>2
<1>8. QED
  BY <1>5, <1>6, <1>7 DEF WorkflowInv, ChecksStayTrue

\* A decision moves both rows in one transaction, each guarded.  No slot and
\* no execution relies on an undecided quote.
LEMMA DecideQuoteKeepsInv ==
  ASSUME TypeOK, WorkflowInv, NEW r \in Requests, ApproveQuote(r) \/ RejectQuote(r)
  PROVE  WorkflowInv'
<1>1. Return(r) /\ UNCHANGED executions
  BY DEF ApproveQuote, RejectQuote, DecideQuote
<1>2. /\ quote.status = "PENDING" /\ status = "AWAITING_APPROVAL"
      /\ quote'.version = quote.version /\ quote'.sentVersion = quote.sentVersion
      /\ \/ quote'.status = "APPROVED" /\ status' = "IN_PROGRESS"
         \/ quote'.status = "REJECTED" /\ status' = "CANCELED"
  BY DEF ApproveQuote, RejectQuote, DecideQuote, TypeOK
<1>3. OrderAgreesWithQuote'
  BY <1>2 DEF WorkflowInv, OrderAgreesWithQuote
<1>4. ExecutionsFollowApproval'
  BY <1>1, <1>2 DEF WorkflowInv, ExecutionsFollowApproval, Started
<1>5. ChecksStayTrue'
  BY <1>1, <1>2, ReturnKeepsChecks DEF WorkflowInv
<1>6. QED
  BY <1>3, <1>4, <1>5 DEF WorkflowInv

\* Starting an execution commits without a guard; that the quote is approved
\* is known from the request's only read, and no operation withdraws it.
LEMMA StartExecutionKeepsInv ==
  ASSUME TypeOK, WorkflowInv, NEW r \in Requests, StartExecution(r)
  PROVE  WorkflowInv'
<1>1. Return(r) /\ UNCHANGED <<status, quote>>
  BY DEF StartExecution
<1>2. PICK e \in ExecutionIds, s \in Services :
        executions' = [executions EXCEPT ![e] = [service |-> s, endedBy |-> NoRequest]]
  BY DEF StartExecution
<1>3. [service |-> s, endedBy |-> NoRequest] # NotStarted
  BY ServicesAssumption DEF NotStarted
<1>4. \A x \in ExecutionIds : executions[x] # NotStarted => executions'[x] # NotStarted
  BY <1>2, <1>3 DEF TypeOK
<1>5. quote.status = "APPROVED"
  BY DEF StartExecution, Commits, WorkflowInv, ChecksStayTrue, ChecksHold
<1>6. OrderAgreesWithQuote'
  BY <1>1 DEF WorkflowInv, OrderAgreesWithQuote
<1>7. ExecutionsFollowApproval'
  BY <1>1, <1>5 DEF ExecutionsFollowApproval
<1>8. ChecksStayTrue'
  BY <1>1, <1>4, ReturnKeepsChecks DEF WorkflowInv
<1>9. QED
  BY <1>6, <1>7, <1>8 DEF WorkflowInv

\* Finishing an execution keeps it started.
LEMMA FinishExecutionKeepsInv ==
  ASSUME TypeOK, WorkflowInv, NEW r \in Requests, FinishExecution(r)
  PROVE  WorkflowInv'
<1>1. Return(r) /\ UNCHANGED <<status, quote>>
  BY DEF FinishExecution
<1>2. executions' = [executions EXCEPT ![seen[r].execution].endedBy = r]
  BY DEF FinishExecution
<1>3. executions \in [ExecutionIds -> [service : Services \cup {"NONE"},
                                       endedBy : Requests \cup {NoRequest}]]
  BY DEF TypeOK
<1>4. ASSUME NEW x \in ExecutionIds, executions[x] # NotStarted
      PROVE  executions'[x] # NotStarted
  <2>1. CASE x = seen[r].execution
    <3>1. executions'[x].endedBy = r
      BY <1>2, <1>3, <2>1
    <3>2. QED
      BY <3>1, NoRequestAssumption DEF NotStarted
  <2>2. CASE x # seen[r].execution
    BY <1>2, <1>3, <1>4, <2>2
  <2>3. QED
    BY <2>1, <2>2
<1>5. quote.status = "APPROVED"
  BY DEF FinishExecution, Commits, WorkflowInv, ChecksStayTrue, ChecksHold
<1>6. OrderAgreesWithQuote'
  BY <1>1 DEF WorkflowInv, OrderAgreesWithQuote
<1>7. ExecutionsFollowApproval'
  BY <1>1, <1>5 DEF ExecutionsFollowApproval
<1>8. ChecksStayTrue'
  BY <1>1, <1>4, ReturnKeepsChecks DEF WorkflowInv
<1>9. QED
  BY <1>6, <1>7, <1>8 DEF WorkflowInv

\* Order and quote agree, one-time checks stay true and work follows approval:
\* the three hold together, each step of a request relying on all of them.
THEOREM WorkflowInvariant == Spec => []WorkflowInv
<1>1. Init => WorkflowInv
  <2> SUFFICES ASSUME Init PROVE WorkflowInv
    OBVIOUS
  <2>1. OrderAgreesWithQuote
    BY DEF Init, NoQuote, OrderAgreesWithQuote
  <2>2. ChecksStayTrue
    BY DEF Init, ChecksStayTrue, ChecksHold, NothingRead
  <2>3. ExecutionsFollowApproval
    BY DEF Init, ExecutionsFollowApproval, Started
  <2>4. QED
    BY <2>1, <2>2, <2>3 DEF WorkflowInv
<1>2. TypeOK /\ WorkflowInv /\ [Next]_vars => WorkflowInv'
  <2> SUFFICES ASSUME TypeOK, WorkflowInv, [Next]_vars PROVE WorkflowInv'
    OBVIOUS
  <2>1. ASSUME NEW r \in Requests, NEW o \in Operations, FindServiceOrder(r, o)
        PROVE  WorkflowInv'
    BY <2>1, FindServiceOrderKeepsInv
  <2>2. ASSUME NEW r \in Requests,
               \/ FindQuote(r) \/ FindQuoteProducts(r) \/ FindQuoteServices(r)
               \/ FindExecutions(r) \/ FindExecution(r)
        PROVE  WorkflowInv'
    BY <2>2, ReadKeepsInv
  <2>3. ASSUME NEW r \in Requests,
               \/ RefuseQuote(r) \/ RefuseEmptyQuote(r) \/ RefuseUnfinishedWork(r)
               \/ RefuseExecution(r) \/ RollBack(r) \/ NotifyQuoteSent(r) \/ Drop(r)
        PROVE  WorkflowInv'
    <3>1. UNCHANGED rows /\ (Return(r) \/ Drop(r))
      BY <2>3 DEF RefuseQuote, RefuseEmptyQuote, RefuseUnfinishedWork,
                  RefuseExecution, RollBack, NotifyQuoteSent, Drop
    <3>2. QED
      BY <3>1, EndKeepsInv
  <2>4. ASSUME NEW r \in Requests,
               StartDiagnosis(r) \/ FinalizeOrder(r) \/ DeliverOrder(r)
        PROVE  WorkflowInv'
    BY <2>4, TransitionKeepsInv
  <2>5. ASSUME NEW r \in Requests, SaveQuote(r)
        PROVE  WorkflowInv'
    BY <2>5, SaveQuoteKeepsInv
  <2>6. ASSUME NEW r \in Requests, SendQuote(r)
        PROVE  WorkflowInv'
    BY <2>6, SendQuoteKeepsInv
  <2>7. ASSUME NEW r \in Requests, ApproveQuote(r) \/ RejectQuote(r)
        PROVE  WorkflowInv'
    BY <2>7, DecideQuoteKeepsInv
  <2>8. ASSUME NEW r \in Requests, StartExecution(r)
        PROVE  WorkflowInv'
    BY <2>8, StartExecutionKeepsInv
  <2>9. ASSUME NEW r \in Requests, FinishExecution(r)
        PROVE  WorkflowInv'
    BY <2>9, FinishExecutionKeepsInv
  <2>10. CASE UNCHANGED vars
    BY <2>10 DEF vars, WorkflowInv, OrderAgreesWithQuote, ChecksStayTrue, ChecksHold,
                 ExecutionsFollowApproval, Started
  <2>11. QED
    BY <2>1, <2>2, <2>3, <2>4, <2>5, <2>6, <2>7, <2>8, <2>9, <2>10
       DEF Next, Serve, Read, Commit
<1>3. QED
  BY <1>1, <1>2, TypeCorrect, PTL DEF Spec

\* The order's status and its quote tell the same story.
THEOREM OrderAlwaysAgreesWithQuote == Spec => []OrderAgreesWithQuote
<1>1. WorkflowInv => OrderAgreesWithQuote
  BY DEF WorkflowInv
<1>2. QED
  BY <1>1, WorkflowInvariant, PTL

\* The checks a request makes once, without a lock, hold until it ends.
THEOREM ChecksAlwaysStayTrue == Spec => []ChecksStayTrue
<1>1. WorkflowInv => ChecksStayTrue
  BY DEF WorkflowInv
<1>2. QED
  BY <1>1, WorkflowInvariant, PTL

\* Sends and decisions take the same two row locks in opposite orders and
\* never wait for each other: a decision is only under way after the order
\* has left the diagnosis.
THEOREM LocksNeverCross == Spec => []NoCrossedLocks
<1>1. WorkflowInv => NoCrossedLocks
  BY DEF WorkflowInv, ChecksStayTrue, ChecksHold, NoCrossedLocks
<1>2. QED
  BY <1>1, WorkflowInvariant, PTL

\* Every execution belongs to an order with an approved quote.
THEOREM ExecutionsAlwaysFollowApproval == Spec => []ExecutionsFollowApproval
<1>1. WorkflowInv => ExecutionsFollowApproval
  BY DEF WorkflowInv
<1>2. QED
  BY <1>1, WorkflowInvariant, PTL
-----------------------------------------------------------------------------
(* The requests implement the aggregate's lifecycle.                       *)

\* Every step of a request is a transition of the aggregate or leaves the
\* order's status and the quote's decision alone.
LEMMA StepImplementsLifecycle ==
  ASSUME TypeOK, WorkflowInv, [Next]_vars
  PROVE  [Lifecycle!Next]_(Lifecycle!vars)
<1>1. CASE UNCHANGED <<status, quote>>
  BY <1>1 DEF Lifecycle!vars
<1>2. ASSUME NEW r \in Requests,
             StartDiagnosis(r) \/ FinalizeOrder(r) \/ DeliverOrder(r)
      PROVE  Lifecycle!Next
  BY <1>2 DEF StartDiagnosis, FinalizeOrder, DeliverOrder, Transition, Lifecycle!Next,
              Lifecycle!StartDiagnosis, Lifecycle!Finalize, Lifecycle!Deliver
<1>3. ASSUME NEW r \in Requests, SaveQuote(r)
      PROVE  [Lifecycle!Next]_(Lifecycle!vars)
  <2>1. /\ quote'.status = IF quote.status = "NONE" THEN "PENDING" ELSE quote.status
        /\ UNCHANGED status
    BY <1>3 DEF SaveQuote, TypeOK
  <2>2. CASE quote.status = "NONE"
    <3>1. status # "RECEIVED"
      BY <1>3 DEF WorkflowInv, ChecksStayTrue, ChecksHold, SaveQuote, Commits
    <3>2. quote.sentVersion \in Nat
      BY MaxVersionAssumption DEF TypeOK
    <3>3. quote.sentVersion = 0
      BY <2>2, <3>2 DEF WorkflowInv, OrderAgreesWithQuote
    <3>4. status = "IN_DIAGNOSIS"
      BY <3>1, <3>3 DEF WorkflowInv, OrderAgreesWithQuote
    <3>5. QED
      BY <2>1, <2>2, <3>4 DEF Lifecycle!Next, Lifecycle!ComposeQuote
  <2>3. CASE quote.status # "NONE"
    BY <2>1, <2>3 DEF Lifecycle!vars
  <2>4. QED
    BY <2>2, <2>3
<1>4. ASSUME NEW r \in Requests, SendQuote(r)
      PROVE  Lifecycle!Next
  <2>1. /\ status = "IN_DIAGNOSIS" /\ status' = "AWAITING_APPROVAL"
        /\ quote'.status = quote.status
    BY <1>4 DEF SendQuote, TypeOK
  <2>2. quote.status # "NONE"
    BY <1>4 DEF WorkflowInv, ChecksStayTrue, ChecksHold, SendQuote, Commits
  <2>3. quote.status = "PENDING"
    BY <2>1, <2>2 DEF WorkflowInv, OrderAgreesWithQuote, TypeOK, QuoteStatuses
  <2>4. QED
    BY <2>1, <2>3 DEF Lifecycle!Next, Lifecycle!SendQuote
<1>5. ASSUME NEW r \in Requests, ApproveQuote(r) \/ RejectQuote(r)
      PROVE  Lifecycle!Next
  BY <1>5 DEF ApproveQuote, RejectQuote, DecideQuote, TypeOK, Lifecycle!Next,
              Lifecycle!ApproveQuote, Lifecycle!RejectQuote
<1>6. ASSUME NEW r \in Requests, StartExecution(r) \/ FinishExecution(r)
      PROVE  UNCHANGED <<status, quote>>
  BY <1>6 DEF StartExecution, FinishExecution
<1>7. ASSUME NEW r \in Requests, Read(r) \/ RollBack(r) \/ NotifyQuoteSent(r) \/ Drop(r)
      PROVE  UNCHANGED <<status, quote>>
  BY <1>7 DEF Read, FindQuote, RefuseQuote, FindQuoteProducts, FindQuoteServices,
              RefuseEmptyQuote, FindExecutions, RefuseUnfinishedWork, FindExecution,
              RefuseExecution, RollBack, NotifyQuoteSent, Drop, rows
<1>8. ASSUME NEW r \in Requests, NEW o \in Operations, FindServiceOrder(r, o)
      PROVE  UNCHANGED <<status, quote>>
  BY <1>8 DEF FindServiceOrder, rows
<1>9. CASE UNCHANGED vars
  BY <1>9 DEF vars, Lifecycle!vars
<1>10. QED
  BY <1>1, <1>2, <1>3, <1>4, <1>5, <1>6, <1>7, <1>8, <1>9 DEF Next, Serve, Commit

\* Interleaved, stale and dropped requests behave, seen from the order's
\* status and the quote's decision, like the domain methods called one at a
\* time.
THEOREM RequestsImplementLifecycle == Spec => ImplementsLifecycle
<1>1. Init => Lifecycle!Init
  BY DEF Init, NoQuote, Lifecycle!Init
<1>2. TypeOK /\ WorkflowInv /\ [Next]_vars => [Lifecycle!Next]_(Lifecycle!vars)
  BY StepImplementsLifecycle
<1>3. QED
  BY <1>1, <1>2, TypeCorrect, WorkflowInvariant, PTL
     DEF Spec, ImplementsLifecycle, Lifecycle!Spec
-----------------------------------------------------------------------------
(* The end of an execution.                                                *)

\* An INSERT takes a fresh row and the UPDATE one without an end.
LEMMA EndStays ==
  ASSUME TypeOK, [Next]_vars, NEW e \in ExecutionIds, Ended(e)
  PROVE  executions'[e] = executions[e]
<1>1. CASE UNCHANGED executions
  BY <1>1
<1>2. ASSUME NEW r \in Requests, StartExecution(r) PROVE executions'[e] = executions[e]
  <2>1. PICK x \in ExecutionIds, s \in Services :
          /\ ~ Started(x)
          /\ executions' = [executions EXCEPT ![x] = [service |-> s, endedBy |-> NoRequest]]
    BY <1>2 DEF StartExecution
  <2>2. x # e
    BY <2>1 DEF Started, Ended, NotStarted
  <2>3. QED
    BY <2>1, <2>2 DEF TypeOK
<1>3. ASSUME NEW r \in Requests, FinishExecution(r) PROVE executions'[e] = executions[e]
  BY <1>3 DEF FinishExecution, Ended, TypeOK
<1>4. \/ UNCHANGED executions
      \/ \E r \in Requests : StartExecution(r) \/ FinishExecution(r)
  BY DEF Next, Serve, Read, Commit, FindServiceOrder, FindQuote, RefuseQuote,
         FindQuoteProducts, FindQuoteServices, RefuseEmptyQuote, FindExecutions,
         RefuseUnfinishedWork, FindExecution, RefuseExecution, RollBack, SaveQuote,
         SendQuote, NotifyQuoteSent, ApproveQuote, RejectQuote, DecideQuote,
         StartDiagnosis, FinalizeOrder, DeliverOrder, Transition, Drop, rows, vars
<1>5. QED
  BY <1>1, <1>2, <1>3, <1>4

\* Whichever finish requests race, the first committed end stays.
THEOREM EndIsAlwaysRecordedOnce == Spec => EndIsRecordedOnce
<1>1. TypeOK /\ [Next]_vars
        => [\A e \in ExecutionIds : Ended(e) => executions'[e] = executions[e]]_executions
  BY EndStays
<1>2. QED
  BY <1>1, TypeCorrect, PTL DEF Spec, EndIsRecordedOnce
-----------------------------------------------------------------------------
(* How the trail grows.                                                    *)

Entries == [event : Events, from : Statuses, to : Statuses]

\* The step composes: an entry that keeps the status, a version more.
Composes ==
    /\ \E from \in Statuses : Record("quote_composed", from, from)
    /\ quote'.version = quote.version + 1
    /\ quote'.total = CalculateTotal(items')
    /\ UNCHANGED <<status, executions, mails>>

\* The step moves the order: an entry from the status it has to another.
Moves ==
    /\ \E event \in Events \ {"quote_composed"} :
        /\ Record(event, status, status')
        /\ event = "quote_sent" <=> status = "IN_DIAGNOSIS"
        /\ event = "approval" <=> status' = "IN_PROGRESS"
    /\ status \in Statuses /\ status' \in Statuses /\ status' # status
    /\ status' # "RECEIVED"
    /\ status' = "IN_DIAGNOSIS" <=> status = "RECEIVED"
    /\ quote'.version = quote.version /\ quote'.total = quote.total
    /\ UNCHANGED <<items, executions, mails>>

\* A composition.
LEMMA SaveQuoteComposes ==
  ASSUME TypeOK, NEW r \in Requests, SaveQuote(r)
  PROVE  Composes
<1>1. seen[r].status \in Statuses
  BY DEF TypeOK, SaveQuote, Commits
<1>2. quote \in [status : QuoteStatuses \cup {"NONE"}, version : 0..MaxVersion,
                 sentVersion : 0..MaxVersion, total : Totals]
  BY DEF TypeOK
<1>3. PICK c \in Compositions :
        /\ items' = c
        /\ quote' = [quote EXCEPT !.status  = IF @ = "NONE" THEN "PENDING" ELSE @,
                                  !.version = @ + 1,
                                  !.total   = CalculateTotal(c)]
  BY DEF SaveQuote
<1>4. quote'.version = quote.version + 1 /\ quote'.total = CalculateTotal(items')
  BY <1>2, <1>3
<1>5. QED
  BY <1>1, <1>4 DEF Composes, SaveQuote

\* A transition.
LEMMA TransitionMoves ==
  ASSUME TypeOK, NEW r \in Requests,
         \/ StartDiagnosis(r) \/ SendQuote(r) \/ ApproveQuote(r) \/ RejectQuote(r)
         \/ FinalizeOrder(r) \/ DeliverOrder(r)
  PROVE  Moves
<1>1. CASE StartDiagnosis(r) \/ FinalizeOrder(r) \/ DeliverOrder(r)
  BY <1>1 DEF Moves, StartDiagnosis, FinalizeOrder, DeliverOrder, Transition, Events, Statuses
<1>2. CASE SendQuote(r)
  <2>1. quote'.version = quote.version /\ quote'.total = quote.total
    BY <1>2 DEF SendQuote, TypeOK
  <2>2. QED
    BY <1>2, <2>1 DEF Moves, SendQuote, Events, Statuses
<1>3. CASE ApproveQuote(r) \/ RejectQuote(r)
  <2>1. quote'.version = quote.version /\ quote'.total = quote.total
    BY <1>3 DEF ApproveQuote, RejectQuote, DecideQuote, TypeOK
  <2>2. QED
    BY <1>3, <2>1 DEF Moves, ApproveQuote, RejectQuote, DecideQuote, Events, Statuses
<1>4. QED
  BY <1>1, <1>2, <1>3

\* Every other step leaves the order, its quote and its trail alone.
LEMMA TrailGrows ==
  ASSUME TypeOK, [Next]_vars
  PROVE  Composes \/ Moves \/ UNCHANGED <<status, quote, items, history>>
<1>1. ASSUME NEW r \in Requests, SaveQuote(r) PROVE Composes
  BY <1>1, SaveQuoteComposes
<1>2. ASSUME NEW r \in Requests,
             \/ StartDiagnosis(r) \/ SendQuote(r) \/ ApproveQuote(r) \/ RejectQuote(r)
             \/ FinalizeOrder(r) \/ DeliverOrder(r)
      PROVE  Moves
  BY <1>2, TransitionMoves
<1>3. ASSUME NEW r \in Requests,
             \/ \E o \in Operations : FindServiceOrder(r, o)
             \/ Read(r) \/ RollBack(r) \/ NotifyQuoteSent(r) \/ Drop(r)
             \/ StartExecution(r) \/ FinishExecution(r)
      PROVE  UNCHANGED <<status, quote, items, history>>
  BY <1>3 DEF FindServiceOrder, Read, FindQuote, RefuseQuote, FindQuoteProducts,
              FindQuoteServices, RefuseEmptyQuote, FindExecutions, RefuseUnfinishedWork,
              FindExecution, RefuseExecution, RollBack, NotifyQuoteSent, Drop, rows,
              StartExecution, FinishExecution
<1>4. CASE UNCHANGED vars
  BY <1>4 DEF vars
<1>5. QED
  BY <1>1, <1>2, <1>3, <1>4 DEF Next, Serve, Commit

\* A new entry leaves the earlier ones in place.
LEMMA AppendedEntry ==
  ASSUME history \in Seq(Entries), NEW event, NEW from, NEW to, Record(event, from, to)
  PROVE  /\ Len(history) \in Nat /\ Len(history') = Len(history) + 1
         /\ \A i \in 1..Len(history) : history'[i] = history[i]
         /\ LET last == history'[Len(history) + 1]
            IN  last.event = event /\ last.from = from /\ last.to = to
  BY DEF Record, Entry

\* It is recorded under its event and under no other.
LEMMA RecordedGrows ==
  ASSUME history \in Seq(Entries), NEW event, NEW from, NEW to, Record(event, from, to),
         NEW e
  PROVE  /\ IsFiniteSet(Recorded(e)) /\ Cardinality(Recorded(e)) \in Nat
         /\ Recorded(e)' = IF e = event THEN Recorded(e) \cup {Len(history) + 1}
                                        ELSE Recorded(e)
         /\ Cardinality(Recorded(e)') = IF e = event THEN Cardinality(Recorded(e)) + 1
                                                     ELSE Cardinality(Recorded(e))
<1> DEFINE n == Len(history)
<1>1. /\ n \in Nat /\ Len(history') = n + 1
      /\ \A i \in 1..n : history'[i] = history[i]
      /\ history'[n + 1].event = event
  BY AppendedEntry
<1>2. Recorded(e) \in SUBSET (1..n)
  BY DEF Recorded
<1>3. IsFiniteSet(1..n)
  BY <1>1, FS_Interval
<1>4. IsFiniteSet(Recorded(e))
  BY <1>2, <1>3, FS_Subset
<1>5. Cardinality(Recorded(e)) \in Nat
  BY <1>4, FS_CardinalityType
<1>6. Recorded(e)' = {i \in 1..(n + 1) : history'[i].event = e}
  BY <1>1 DEF Recorded
<1>7. Recorded(e)' = IF e = event THEN Recorded(e) \cup {n + 1} ELSE Recorded(e)
  <2> HIDE DEF n
  <2>1. \A i \in 1..(n + 1) : i \in 1..n \/ i = n + 1
    BY <1>1
  <2>2. Recorded(e) = {i \in 1..n : history[i].event = e}
    BY DEF Recorded, n
  <2>3. QED
    BY <1>1, <1>6, <2>1, <2>2
<1>8. n + 1 \notin Recorded(e)
  BY <1>1, <1>2
<1>9. Cardinality(Recorded(e) \cup {n + 1}) = Cardinality(Recorded(e)) + 1
  BY <1>4, <1>8, FS_AddElement
<1>10. QED
  BY <1>4, <1>5, <1>7, <1>9
-----------------------------------------------------------------------------
(* The trail and the quote's version.                                      *)

\* Every composition leaves one entry and raises the version by one, also
\* when compositions overlap.
THEOREM VersionAlwaysCountsCompositions == Spec => []VersionCountsCompositions
<1>1. Init => VersionCountsCompositions
  <2> SUFFICES ASSUME Init PROVE VersionCountsCompositions
    OBVIOUS
  <2>1. Recorded("quote_composed") = {}
    BY DEF Init, Entry, Recorded
  <2>2. QED
    BY <2>1, FS_EmptySet DEF Init, NoQuote, VersionCountsCompositions
<1>2. TypeOK /\ VersionCountsCompositions /\ [Next]_vars => VersionCountsCompositions'
  <2> SUFFICES ASSUME TypeOK, VersionCountsCompositions, [Next]_vars
               PROVE  VersionCountsCompositions'
    OBVIOUS
  <2>1. history \in Seq(Entries)
    BY DEF TypeOK, Entries
  <2>2. CASE Composes
    BY <2>1, <2>2, RecordedGrows DEF Composes, VersionCountsCompositions
  <2>3. CASE Moves
    BY <2>1, <2>3, RecordedGrows DEF Moves, VersionCountsCompositions
  <2>4. CASE UNCHANGED <<status, quote, items, history>>
    BY <2>4 DEF VersionCountsCompositions, Recorded
  <2>5. QED
    BY <2>2, <2>3, <2>4, TrailGrows
<1>3. QED
  BY <1>1, <1>2, TypeCorrect, PTL DEF Spec
-----------------------------------------------------------------------------
(* The stored total.                                                       *)

\* No lines, no total.
LEMMA NothingCostsNothing == CalculateTotal({}) = 0
  BY DEF CalculateTotal, MapThenSumSet, MapThenFoldSet

\* The stored total is the sum of the stored lines, whichever composition
\* was committed last.
THEOREM TotalIsAlwaysSumOfItems == Spec => []TotalIsSumOfItems
<1>1. Init => TotalIsSumOfItems
  BY NothingCostsNothing DEF Init, NoQuote, TotalIsSumOfItems
<1>2. TypeOK /\ TotalIsSumOfItems /\ [Next]_vars => TotalIsSumOfItems'
  <2> SUFFICES ASSUME TypeOK, TotalIsSumOfItems, [Next]_vars PROVE TotalIsSumOfItems'
    OBVIOUS
  <2>1. CASE Composes
    BY <2>1 DEF Composes, TotalIsSumOfItems
  <2>2. CASE Moves \/ UNCHANGED <<status, quote, items, history>>
    BY <2>2 DEF Moves, TotalIsSumOfItems
  <2>3. QED
    BY <2>1, <2>2, TrailGrows
<1>3. QED
  BY <1>1, <1>2, TypeCorrect, PTL DEF Spec
-----------------------------------------------------------------------------
(* The trail and the order's status.                                       *)

\* A new entry does not change what the trail told before.
LEMMA StatusBeforeEntry ==
  ASSUME history \in Seq(Entries), NEW event, NEW from, NEW to, Record(event, from, to),
         NEW n \in 0..Len(history)
  PROVE  StatusAfter(n)' = StatusAfter(n)
<1> DEFINE changes == {i \in 1..n : history[i].from # history[i].to}
           later   == {i \in 1..n : history'[i].from # history'[i].to}
<1>1. Len(history) \in Nat /\ \A i \in 1..Len(history) : history'[i] = history[i]
  BY AppendedEntry
<1>2. n \in Nat /\ \A i \in 1..n : history'[i] = history[i]
  BY <1>1
<1>3. later = changes
  BY <1>2
<1>4. CASE changes = {}
  BY <1>3, <1>4 DEF StatusAfter
<1>5. CASE changes # {}
  <2>1. Max(changes) \in 1..n
    BY <1>2, <1>5, LastPosition
  <2>2. history'[Max(changes)] = history[Max(changes)]
    BY <1>2, <2>1
  <2>3. QED
    BY <1>3, <1>5, <2>2 DEF StatusAfter
<1>6. QED
  BY <1>4, <1>5

\* After it the trail tells its target, or the same as before if it changes
\* nothing.
LEMMA StatusAfterEntry ==
  ASSUME history \in Seq(Entries), NEW event, NEW from, NEW to, Record(event, from, to),
         NEW n, n = Len(history)
  PROVE  StatusAfter(n + 1)' = IF from = to THEN StatusAfter(n) ELSE to
<1> DEFINE changes == {i \in 1..n : history[i].from # history[i].to}
           later   == {i \in 1..(n + 1) : history'[i].from # history'[i].to}
<1>1. /\ n \in Nat
      /\ \A i \in 1..n : history'[i] = history[i]
      /\ history'[n + 1].from = from /\ history'[n + 1].to = to
  BY AppendedEntry
<1>2. StatusAfter(n + 1)' = IF later = {} THEN "RECEIVED" ELSE history'[Max(later)].to
  BY DEF StatusAfter
<1>3. StatusAfter(n) = IF changes = {} THEN "RECEIVED" ELSE history[Max(changes)].to
  BY DEF StatusAfter
<1>4. CASE from = to
  <2>1. later = changes
    BY <1>1, <1>4
  <2>2. changes # {} => Max(changes) \in 1..n
    BY <1>1, LastPosition
  <2>3. QED
    BY <1>1, <1>2, <1>3, <1>4, <2>1, <2>2
<1>5. CASE from # to
  <2>1. n + 1 \in later /\ later \subseteq 1..(n + 1) /\ n + 1 \in Nat
    BY <1>1, <1>5
  <2>2. Max(later) = n + 1
    <3> HIDE DEF later
    <3>1. Max(later) \in later /\ Max(later) >= n + 1
      BY <2>1, LastPosition
    <3>2. Max(later) \in 1..(n + 1)
      BY <2>1, <3>1
    <3>3. QED
      BY <1>1, <3>1, <3>2
  <2>3. QED
    BY <1>1, <1>2, <1>5, <2>1, <2>2
<1>6. QED
  BY <1>4, <1>5

\* Leaving out the compositions, the trail is a chain of transitions from
\* RECEIVED to the order's current status.
THEOREM TrailAlwaysLeadsToStatus == Spec => []TrailLeadsToStatus
<1>1. Init => TrailLeadsToStatus
  BY DEF Init, Entry, TrailLeadsToStatus, StatusAfter
<1>2. TypeOK /\ TrailLeadsToStatus /\ [Next]_vars => TrailLeadsToStatus'
  <2> SUFFICES ASSUME TypeOK, TrailLeadsToStatus, [Next]_vars PROVE TrailLeadsToStatus'
    OBVIOUS
  <2>1. history \in Seq(Entries)
    BY DEF TypeOK, Entries
  <2>2. ASSUME NEW event, NEW from, NEW to, Record(event, from, to),
               \/ from = to /\ status' = status
               \/ from # to /\ from = status /\ to = status'
        PROVE  TrailLeadsToStatus'
    <3>0. PICK n : n = Len(history)
      OBVIOUS
    <3>1. /\ n \in Nat /\ Len(history') = n + 1
          /\ \A i \in 1..n : history'[i] = history[i]
          /\ history'[n + 1].from = from /\ history'[n + 1].to = to
      BY <2>1, <2>2, <3>0, AppendedEntry
    <3>2. \A k \in 0..n : StatusAfter(k)' = StatusAfter(k)
      BY <2>1, <2>2, <3>0, StatusBeforeEntry
    <3>3. status = StatusAfter(n)
      BY <3>0 DEF TrailLeadsToStatus
    <3>4. status' = StatusAfter(n + 1)'
      BY <2>1, <2>2, <3>0, <3>3, StatusAfterEntry
    <3>5. \A i \in 1..n : history[i].from # history[i].to => history[i].from = StatusAfter(i - 1)
      BY <3>0 DEF TrailLeadsToStatus
    <3>6. ASSUME NEW i \in 1..(n + 1), history'[i].from # history'[i].to
          PROVE  history'[i].from = StatusAfter(i - 1)'
      <4>1. CASE i = n + 1
        <5>1. i - 1 = n /\ n \in 0..n
          BY <3>1, <4>1
        <5>2. QED
          BY <2>2, <3>1, <3>2, <3>3, <3>6, <4>1, <5>1
      <4>2. CASE i \in 1..n
        <5>1. i - 1 \in 0..n
          BY <3>1, <4>2
        <5>2. QED
          BY <3>1, <3>2, <3>5, <3>6, <4>2, <5>1
      <4>3. QED
        BY <3>1, <4>1, <4>2
    <3>7. StatusAfter(Len(history))' = StatusAfter(n + 1)'
      BY <3>1 DEF StatusAfter
    <3>8. QED
      BY <3>1, <3>4, <3>6, <3>7 DEF TrailLeadsToStatus
  <2>3. CASE Composes
    BY <2>2, <2>3 DEF Composes
  <2>4. CASE Moves
    BY <2>2, <2>4 DEF Moves
  <2>5. CASE UNCHANGED <<status, quote, items, history>>
    BY <2>5 DEF TrailLeadsToStatus, StatusAfter
  <2>6. QED
    BY <2>3, <2>4, <2>5, TrailGrows
<1>3. QED
  BY <1>1, <1>2, TypeCorrect, PTL DEF Spec
-----------------------------------------------------------------------------
(* The presentation of the quote.                                          *)

NotPresented == status \in {"RECEIVED", "IN_DIAGNOSIS"}

\* The entry is written when the order leaves the diagnosis; the request that
\* wrote it is the only one to mail, and it does so at most once.
PresentedInv ==
    /\ Cardinality(Recorded("quote_sent")) = IF NotPresented THEN 0 ELSE 1
    /\ \A r \in Requests : at[r] = "notify" => ~ NotPresented /\ mails = <<>>
    /\ \A r, q \in Requests : at[r] = "notify" /\ at[q] = "notify" => r = q
    /\ Len(mails) \in {0, 1}
    /\ NotPresented => mails = <<>>

\* Only a send leads to a notification, and only a notification mails.
LEMMA NoticesOnlyFromSends ==
  ASSUME TypeOK, [Next]_vars,
         \A r \in Requests : ~ SendQuote(r) /\ ~ NotifyQuoteSent(r)
  PROVE  mails' = mails /\ \A x \in Requests : at'[x] = "notify" => at[x] = "notify"
<1>1. ASSUME NEW r \in Requests, Return(r) \/ Drop(r), NEW x \in Requests, at'[x] = "notify"
      PROVE  at[x] = "notify"
  BY <1>1 DEF Return, Drop, Goto, TypeOK
<1>2. ASSUME NEW r \in Requests, NEW o \in Operations, FindServiceOrder(r, o),
             NEW x \in Requests, at'[x] = "notify"
      PROVE  at[x] = "notify"
  BY <1>2 DEF FindServiceOrder, FirstStep, Goto, TypeOK
<1>3. ASSUME NEW r \in Requests,
             \/ FindQuote(r) \/ FindQuoteProducts(r) \/ FindQuoteServices(r)
             \/ FindExecutions(r) \/ FindExecution(r),
             NEW x \in Requests, at'[x] = "notify"
      PROVE  at[x] = "notify"
  BY <1>3 DEF FindQuote, FindQuoteProducts, FindQuoteServices, FindExecutions,
              FindExecution, Goto, TypeOK
<1>4. ASSUME NEW r \in Requests,
             \/ RefuseQuote(r) \/ RefuseEmptyQuote(r) \/ RefuseUnfinishedWork(r)
             \/ RefuseExecution(r) \/ RollBack(r) \/ SaveQuote(r)
             \/ StartDiagnosis(r) \/ FinalizeOrder(r) \/ DeliverOrder(r)
             \/ ApproveQuote(r) \/ RejectQuote(r) \/ StartExecution(r) \/ FinishExecution(r)
      PROVE  Return(r) /\ mails' = mails
  BY <1>4 DEF RefuseQuote, RefuseEmptyQuote, RefuseUnfinishedWork, RefuseExecution,
              RollBack, SaveQuote, StartDiagnosis, FinalizeOrder, DeliverOrder, Transition,
              ApproveQuote, RejectQuote, DecideQuote, StartExecution, FinishExecution
<1>5. ASSUME NEW r \in Requests,
             \/ \E o \in Operations : FindServiceOrder(r, o)
             \/ FindQuote(r) \/ FindQuoteProducts(r) \/ FindQuoteServices(r)
             \/ FindExecutions(r) \/ FindExecution(r) \/ Drop(r)
      PROVE  mails' = mails
  BY <1>5 DEF FindServiceOrder, FindQuote, FindQuoteProducts, FindQuoteServices,
              FindExecutions, FindExecution, Drop
<1>6. CASE UNCHANGED vars
  BY <1>6 DEF vars
<1>7. QED
  BY <1>1, <1>2, <1>3, <1>4, <1>5, <1>6 DEF Next, Serve, Read, Commit

\* A quote is presented once: at most one entry says so and at most one
\* e-mail leaves, none without the entry.
THEOREM AlwaysPresentedOnce == Spec => []PresentedOnce
<1>1. Init => PresentedInv
  <2> SUFFICES ASSUME Init PROVE PresentedInv
    OBVIOUS
  <2>1. Recorded("quote_sent") = {}
    BY DEF Init, Entry, Recorded
  <2>2. QED
    BY <2>1, FS_EmptySet DEF Init, PresentedInv, NotPresented
<1>2. TypeOK /\ PresentedInv /\ [Next]_vars => PresentedInv'
  <2> SUFFICES ASSUME TypeOK, PresentedInv, [Next]_vars PROVE PresentedInv'
    OBVIOUS
  <2>1. history \in Seq(Entries)
    BY DEF TypeOK, Entries
  <2>2. /\ Cardinality(Recorded("quote_sent"))' = IF NotPresented' THEN 0 ELSE 1
        /\ NotPresented' => NotPresented
    <3>1. CASE Composes
      BY <2>1, <3>1, RecordedGrows DEF Composes, PresentedInv, NotPresented
    <3>2. CASE Moves
      <4>1. PICK event \in Events \ {"quote_composed"} :
              /\ Record(event, status, status')
              /\ event = "quote_sent" <=> status = "IN_DIAGNOSIS"
        BY <3>2 DEF Moves
      <4>2. Cardinality(Recorded("quote_sent"))'
               = IF "quote_sent" = event THEN Cardinality(Recorded("quote_sent")) + 1
                                         ELSE Cardinality(Recorded("quote_sent"))
        BY <2>1, <4>1, RecordedGrows
      <4>3. NotPresented' <=> status = "RECEIVED"
        BY <3>2 DEF Moves, NotPresented
      <4>4. QED
        BY <4>1, <4>2, <4>3 DEF PresentedInv, NotPresented
    <3>3. CASE UNCHANGED <<status, quote, items, history>>
      BY <3>3 DEF PresentedInv, NotPresented, Recorded
    <3>4. QED
      BY <3>1, <3>2, <3>3, TrailGrows
  <2>3. ASSUME NEW r \in Requests, SendQuote(r) PROVE PresentedInv'
    <3>1. NotPresented /\ ~ NotPresented' /\ mails' = mails
      BY <2>3 DEF SendQuote, NotPresented
    <3>2. \A x \in Requests : at'[x] = "notify" => x = r
      BY <2>3, <3>1 DEF SendQuote, Goto, TypeOK, PresentedInv
    <3>3. QED
      BY <2>2, <3>1, <3>2 DEF PresentedInv
  <2>4. ASSUME NEW r \in Requests, NotifyQuoteSent(r) PROVE PresentedInv'
    <3>1. mails = <<>> /\ ~ NotPresented /\ at[r] = "notify"
      BY <2>4 DEF NotifyQuoteSent, PresentedInv
    <3>2. Len(mails') \in {0, 1}
      <4>1. mails' = mails \/ mails' = Append(mails, seen[r].total)
        BY <2>4 DEF NotifyQuoteSent
      <4>2. mails \in Seq(Totals) /\ Len(mails) = 0
        BY <3>1 DEF TypeOK
      <4>3. Len(Append(mails, seen[r].total)) = 1
        BY <4>2
      <4>4. QED
        BY <4>1, <4>2, <4>3, Zenon
    <3>3. \A x \in Requests : at'[x] # "notify"
      BY <2>4, <3>1 DEF NotifyQuoteSent, Return, Goto, TypeOK, PresentedInv
    <3>4. QED
      BY <2>2, <3>1, <3>2, <3>3 DEF PresentedInv
  <2>5. CASE \A r \in Requests : ~ SendQuote(r) /\ ~ NotifyQuoteSent(r)
    BY <2>2, <2>5, NoticesOnlyFromSends DEF PresentedInv
  <2>6. QED
    BY <2>3, <2>4, <2>5
<1>3. PresentedInv => PresentedOnce
  <2> SUFFICES ASSUME PresentedInv PROVE PresentedOnce
    OBVIOUS
  <2>1. PICK n : n = Len(mails)
    OBVIOUS
  <2>2. PICK k : k = Cardinality(Recorded("quote_sent"))
    OBVIOUS
  <2>3. /\ n \in {0, 1} /\ k \in {0, 1}
        /\ k = 0 => n = 0
    <3>1. CASE NotPresented
      BY <2>1, <2>2, <3>1 DEF PresentedInv
    <3>2. CASE ~ NotPresented
      BY <2>1, <2>2, <3>2 DEF PresentedInv
    <3>3. QED
      BY <3>1, <3>2
  <2>4. k <= 1 /\ n <= k
    BY <2>3
  <2>5. QED
    BY <2>1, <2>2, <2>4 DEF PresentedOnce
<1>4. QED
  BY <1>1, <1>2, <1>3, TypeCorrect, PTL DEF Spec
-----------------------------------------------------------------------------
(* Finalizing.                                                             *)

\* What a finalizing request may rely on while no composition has slipped in
\* after the approval: it has read the lines that are stored, and once it
\* has compared them with the executions the work is done.
FinalizesDoneWork(r) ==
    op[r] = "FinalizeOrder" =>
        /\ at[r] # "execution"
        /\ QuoteUntouchedSinceApproval =>
            /\ at[r] = "services" => seen[r].items = {i \in items : i.kind = "PRODUCT"}
            /\ at[r] = "executions" => seen[r].items = items
            /\ at[r] = "commit" => ServicesOf(items) \subseteq Completed

WorkInv ==
    /\ quote.status = "APPROVED" => Recorded("approval") # {}
    /\ \A r \in Requests : FinalizesDoneWork(r)
    /\ CompletedWorkIsDone

\* An ended execution stays ended.
LEMMA CompletedGrows ==
  ASSUME TypeOK, [Next]_vars
  PROVE  Completed \subseteq Completed'
<1>1. ASSUME NEW e \in ExecutionIds, Ended(e) PROVE executions'[e] = executions[e]
  BY <1>1, EndStays
<1>2. ASSUME NEW e \in ExecutionIds, Ended(e) PROVE Ended(e)'
  BY <1>1, <1>2 DEF Ended
<1>3. QED
  BY <1>1, <1>2 DEF Completed

\* Once a composition has slipped in, it stays in the trail.
LEMMA UntouchedBefore ==
  ASSUME TypeOK, [Next]_vars, QuoteUntouchedSinceApproval'
  PROVE  /\ QuoteUntouchedSinceApproval
         /\ Composes => Recorded("approval") = {}
<1>1. history \in Seq(Entries)
  BY DEF TypeOK, Entries
<1>2. ASSUME NEW event, NEW from, NEW to, Record(event, from, to)
      PROVE  /\ QuoteUntouchedSinceApproval
             /\ event = "quote_composed" => Recorded("approval") = {}
  <2>1. PICK n : n = Len(history)
    OBVIOUS
  <2>2. \A e : Recorded(e)' = IF e = event THEN Recorded(e) \cup {n + 1} ELSE Recorded(e)
    BY <1>1, <1>2, <2>1, RecordedGrows
  <2>3. \A e : Recorded(e) \subseteq 1..n /\ n \in Nat
    BY <1>1, <2>1 DEF Recorded
  <2>4. \A i \in Recorded("approval")', j \in Recorded("quote_composed")' : j < i
    BY DEF QuoteUntouchedSinceApproval
  <2>5. QuoteUntouchedSinceApproval
    BY <2>2, <2>4 DEF QuoteUntouchedSinceApproval
  <2>6. ASSUME event = "quote_composed", NEW i \in Recorded("approval") PROVE FALSE
    <3>1. i \in Recorded("approval")' /\ n + 1 \in Recorded("quote_composed")'
      BY <2>2, <2>6
    <3>2. n + 1 < i /\ i \in 1..n /\ n \in Nat
      BY <2>3, <2>4, <2>6, <3>1
    <3>3. QED
      BY <3>2
  <2>7. QED
    BY <2>5, <2>6
<1>3. CASE Composes
  BY <1>2, <1>3 DEF Composes
<1>4. CASE Moves
  BY <1>2, <1>4 DEF Moves, Composes
<1>5. CASE UNCHANGED <<status, quote, items, history>>
  BY <1>5, MaxVersionAssumption DEF QuoteUntouchedSinceApproval, Recorded, Composes, TypeOK
<1>6. QED
  BY <1>3, <1>4, <1>5, TrailGrows

\* A slot whose request does not move keeps what it relies on.
LEMMA OtherFinalizers ==
  ASSUME TypeOK, [Next]_vars, NEW x \in Requests, FinalizesDoneWork(x),
         op'[x] = op[x], at'[x] = at[x], seen'[x] = seen[x], items' = items
  PROVE  FinalizesDoneWork(x)'
<1>1. QuoteUntouchedSinceApproval' => QuoteUntouchedSinceApproval
  BY UntouchedBefore
<1>2. Completed \subseteq Completed'
  BY CompletedGrows
<1>3. QED
  BY <1>1, <1>2 DEF FinalizesDoneWork

\* A request that ends relies on nothing and leaves the other slots alone.
LEMMA EndedFinalizer ==
  ASSUME TypeOK, NEW r \in Requests, Return(r) \/ Drop(r)
  PROVE  /\ FinalizesDoneWork(r)'
         /\ \A x \in Requests \ {r} : op'[x] = op[x] /\ at'[x] = at[x] /\ seen'[x] = seen[x]
<1>1. op'[r] = "none"
  BY DEF TypeOK, Return, Drop
<1>2. FinalizesDoneWork(r)'
  BY <1>1 DEF FinalizesDoneWork
<1>3. QED
  BY <1>2 DEF TypeOK, Return, Drop, Goto

\* The reads of a finalizing request, one after the other, find what is
\* stored as long as the lines are not replaced in between.
LEMMA FinalizerReads ==
  ASSUME TypeOK, WorkflowInv, [Next]_vars, NEW r \in Requests, FinalizesDoneWork(r),
         \/ \E o \in Operations : FindServiceOrder(r, o)
         \/ FindQuote(r) \/ FindQuoteProducts(r) \/ FindQuoteServices(r)
         \/ FindExecutions(r) \/ FindExecution(r)
  PROVE  FinalizesDoneWork(r)'
<1>1. /\ QuoteUntouchedSinceApproval' => QuoteUntouchedSinceApproval
      /\ Completed \subseteq Completed'
  BY UntouchedBefore, CompletedGrows
<1>2. items' = items
  BY DEF FindServiceOrder, FindQuote, FindQuoteProducts, FindQuoteServices,
         FindExecutions, FindExecution, rows
<1>3. CASE \E o \in Operations : FindServiceOrder(r, o)
  <2>1. PICK o \in Operations : FindServiceOrder(r, o)
    BY <1>3
  <2>2. op'[r] = o /\ at'[r] = FirstStep(o)
    BY <2>1 DEF FindServiceOrder, Goto, TypeOK
  <2>3. o = "FinalizeOrder" => at'[r] = "quote"
    BY <2>2 DEF FirstStep
  <2>4. QED
    BY <2>2, <2>3 DEF FinalizesDoneWork
<1>4. CASE FindQuote(r)
  <2>1. op'[r] = op[r]
    BY <1>4 DEF FindQuote
  <2>2. op[r] = "FinalizeOrder" => quote.status # "NONE"
    BY DEF WorkflowInv, ChecksStayTrue, ChecksHold
  <2>3. op[r] = "FinalizeOrder" => at'[r] = "products"
    BY <1>4, <2>2 DEF FindQuote, Goto, TypeOK
  <2>4. QED
    BY <2>1, <2>3 DEF FinalizesDoneWork
<1>5. CASE FindQuoteProducts(r)
  <2>1. /\ at'[r] = "services" /\ op'[r] = op[r]
        /\ seen'[r].items = {i \in items : i.kind = "PRODUCT"}
    BY <1>5 DEF FindQuoteProducts, Goto, TypeOK
  <2>2. QED
    BY <1>2, <2>1 DEF FinalizesDoneWork
<1>6. CASE FindQuoteServices(r)
  <2>1. /\ at[r] = "services" /\ op'[r] = op[r]
        /\ op[r] = "FinalizeOrder" => at'[r] = "executions"
        /\ seen'[r].items = seen[r].items \cup {i \in items : i.kind = "SERVICE"}
    BY <1>6 DEF FindQuoteServices, Goto, TypeOK
  <2>2. {i \in items : i.kind = "PRODUCT"} \cup {i \in items : i.kind = "SERVICE"} = items
    <3>1. items \subseteq Items
      BY CompositionsAssumption DEF TypeOK
    <3>2. \A i \in items : i.kind \in {"PRODUCT", "SERVICE"}
      BY <3>1, ItemsAssumption
    <3>3. QED
      BY <3>2
  <2>3. QED
    BY <1>1, <1>2, <2>1, <2>2 DEF FinalizesDoneWork
<1>7. CASE FindExecutions(r)
  <2>1. /\ at[r] = "executions" /\ at'[r] = "commit" /\ op'[r] = op[r]
        /\ ServicesOf(seen[r].items) \subseteq Completed
    BY <1>7 DEF FindExecutions, Goto, TypeOK
  <2>2. QED
    BY <1>1, <1>2, <2>1 DEF FinalizesDoneWork
<1>8. CASE FindExecution(r)
  BY <1>8 DEF FindExecution, FinalizesDoneWork
<1>9. QED
  BY <1>3, <1>4, <1>5, <1>6, <1>7, <1>8

\* A quote is approved by a decision, which records it, and an order
\* completed by finalizing it.
LEMMA DecidedByItsOperation ==
  ASSUME TypeOK, [Next]_vars
  PROVE  /\ quote.status # "APPROVED" /\ quote'.status = "APPROVED"
               => Record("approval", "AWAITING_APPROVAL", "IN_PROGRESS")
         /\ status \notin {"COMPLETED", "DELIVERED"} /\ status' \in {"COMPLETED", "DELIVERED"}
               => \E r \in Requests : FinalizeOrder(r)
<1>1. ASSUME NEW r \in Requests, ApproveQuote(r) \/ RejectQuote(r)
      PROVE  /\ status' \notin {"COMPLETED", "DELIVERED"}
             /\ quote'.status = "APPROVED"
                   => Record("approval", "AWAITING_APPROVAL", "IN_PROGRESS")
  BY <1>1 DEF ApproveQuote, RejectQuote, DecideQuote, TypeOK
<1>2. ASSUME NEW r \in Requests, SaveQuote(r) \/ SendQuote(r)
      PROVE  /\ status' = status \/ status' = "AWAITING_APPROVAL"
             /\ quote'.status # quote.status => quote'.status = "PENDING"
  BY <1>2 DEF SaveQuote, SendQuote, TypeOK
<1>3. ASSUME NEW r \in Requests, StartDiagnosis(r) \/ FinalizeOrder(r) \/ DeliverOrder(r)
      PROVE  /\ quote' = quote
             /\ FinalizeOrder(r) \/ status' = "IN_DIAGNOSIS" \/ status = "COMPLETED"
  BY <1>3 DEF StartDiagnosis, FinalizeOrder, DeliverOrder, Transition
<1>4. ASSUME NEW r \in Requests,
             \/ \E o \in Operations : FindServiceOrder(r, o)
             \/ Read(r) \/ RollBack(r) \/ NotifyQuoteSent(r) \/ Drop(r)
             \/ StartExecution(r) \/ FinishExecution(r)
      PROVE  UNCHANGED <<status, quote>>
  BY <1>4 DEF FindServiceOrder, Read, FindQuote, RefuseQuote, FindQuoteProducts,
              FindQuoteServices, RefuseEmptyQuote, FindExecutions, RefuseUnfinishedWork,
              FindExecution, RefuseExecution, RollBack, NotifyQuoteSent, Drop, rows,
              StartExecution, FinishExecution
<1>5. CASE UNCHANGED vars
  BY <1>5 DEF vars
<1>6. QED
  BY <1>1, <1>2, <1>3, <1>4, <1>5 DEF Next, Serve, Commit

\* The slots survive every step but a composition.
LEMMA FinalizersKeep ==
  ASSUME TypeOK, WorkflowInv, \A x \in Requests : FinalizesDoneWork(x), [Next]_vars,
         \A r \in Requests : ~ SaveQuote(r)
  PROVE  items' = items /\ \A x \in Requests : FinalizesDoneWork(x)'
<1>1. ASSUME NEW r \in Requests,
             \/ \E o \in Operations : FindServiceOrder(r, o)
             \/ FindQuote(r) \/ FindQuoteProducts(r) \/ FindQuoteServices(r)
             \/ FindExecutions(r) \/ FindExecution(r)
      PROVE  items' = items /\ \A x \in Requests : FinalizesDoneWork(x)'
  <2>1. /\ items' = items
        /\ \A x \in Requests \ {r} : op'[x] = op[x] /\ at'[x] = at[x] /\ seen'[x] = seen[x]
    BY <1>1 DEF FindServiceOrder, FindQuote, FindQuoteProducts, FindQuoteServices,
                FindExecutions, FindExecution, Goto, rows, TypeOK
  <2>2. QED
    BY <1>1, <2>1, FinalizerReads, OtherFinalizers
<1>2. ASSUME NEW r \in Requests,
             \/ RefuseQuote(r) \/ RefuseEmptyQuote(r) \/ RefuseUnfinishedWork(r)
             \/ RefuseExecution(r) \/ RollBack(r) \/ NotifyQuoteSent(r) \/ Drop(r)
             \/ StartDiagnosis(r) \/ FinalizeOrder(r) \/ DeliverOrder(r)
             \/ ApproveQuote(r) \/ RejectQuote(r) \/ StartExecution(r) \/ FinishExecution(r)
      PROVE  items' = items /\ \A x \in Requests : FinalizesDoneWork(x)'
  <2>1. items' = items /\ (Return(r) \/ Drop(r))
    BY <1>2 DEF RefuseQuote, RefuseEmptyQuote, RefuseUnfinishedWork, RefuseExecution,
                RollBack, NotifyQuoteSent, Drop, StartDiagnosis, FinalizeOrder, DeliverOrder,
                Transition, ApproveQuote, RejectQuote, DecideQuote, StartExecution,
                FinishExecution, rows
  <2>2. QED
    BY <2>1, EndedFinalizer, OtherFinalizers
<1>3. ASSUME NEW r \in Requests, SendQuote(r)
      PROVE  items' = items /\ \A x \in Requests : FinalizesDoneWork(x)'
  <2>1. /\ items' = items /\ op[r] = "SendQuote" /\ op' = op /\ seen' = seen
        /\ \A x \in Requests \ {r} : at'[x] = at[x]
    BY <1>3 DEF SendQuote, Commits, Goto, TypeOK
  <2>2. FinalizesDoneWork(r)'
    BY <2>1 DEF FinalizesDoneWork
  <2>3. QED
    BY <2>1, <2>2, OtherFinalizers
<1>4. CASE UNCHANGED vars
  BY <1>4, OtherFinalizers DEF vars
<1>5. QED
  BY <1>1, <1>2, <1>3, <1>4 DEF Next, Serve, Read, Commit

\* An order completes only with the work on its quote done, although nothing
\* but the order's status is checked again when it is finalized.
THEOREM CompletedWorkIsAlwaysDone == Spec => []CompletedWorkIsDone
<1>1. Init => WorkInv
  BY DEF Init, NoQuote, WorkInv, FinalizesDoneWork, CompletedWorkIsDone
<1>2. TypeOK /\ WorkflowInv /\ WorkInv /\ [Next]_vars => WorkInv'
  <2> SUFFICES ASSUME TypeOK, WorkflowInv, WorkInv, [Next]_vars PROVE WorkInv'
    OBVIOUS
  <2>1. /\ QuoteUntouchedSinceApproval' => QuoteUntouchedSinceApproval
        /\ Completed \subseteq Completed'
    BY UntouchedBefore, CompletedGrows
  <2>2. quote'.status = "APPROVED" => Recorded("approval")' # {}
    <3>1. history \in Seq(Entries)
      BY DEF TypeOK, Entries
    <3>2. ASSUME quote.status = "APPROVED" PROVE Recorded("approval")' # {}
      <4>1. ASSUME NEW event, NEW from, NEW to, Record(event, from, to)
            PROVE  Recorded("approval")' # {}
        BY <3>1, <3>2, <4>1, RecordedGrows DEF WorkInv
      <4>2. CASE UNCHANGED <<status, quote, items, history>>
        BY <3>2, <4>2 DEF WorkInv, Recorded
      <4>3. QED
        BY <4>1, <4>2, TrailGrows DEF Composes, Moves
    <3>3. ASSUME quote.status # "APPROVED", quote'.status = "APPROVED"
          PROVE  Recorded("approval")' # {}
      <4>1. Record("approval", "AWAITING_APPROVAL", "IN_PROGRESS")
        BY <3>3, DecidedByItsOperation
      <4>2. QED
        BY <3>1, <4>1, RecordedGrows
    <3>4. QED
      BY <3>2, <3>3
  <2>3. ASSUME NEW r \in Requests, SaveQuote(r) PROVE WorkInv'
    <3>1. Composes /\ Return(r) /\ status' = status
      BY <2>3, SaveQuoteComposes DEF SaveQuote
    <3>2. CASE quote.status = "APPROVED"
      <4>1. ~ QuoteUntouchedSinceApproval'
        BY <3>1, <3>2, UntouchedBefore DEF WorkInv
      <4>2. \A x \in Requests : op'[x] = "FinalizeOrder" => op'[x] = op[x] /\ at'[x] = at[x]
        BY <3>1 DEF Return, Goto, TypeOK
      <4>3. QED
        BY <2>2, <4>1, <4>2 DEF WorkInv, FinalizesDoneWork, CompletedWorkIsDone
    <3>3. CASE quote.status # "APPROVED"
      <4>1. \A x \in Requests : op[x] # "FinalizeOrder"
        BY <3>3 DEF WorkflowInv, ChecksStayTrue, ChecksHold
      <4>2. \A x \in Requests : op'[x] # "FinalizeOrder"
        BY <3>1, <4>1 DEF Return, TypeOK
      <4>3. status' \notin {"COMPLETED", "DELIVERED"}
        BY <3>1, <3>3 DEF WorkflowInv, OrderAgreesWithQuote
      <4>4. QED
        BY <2>2, <4>2, <4>3 DEF WorkInv, FinalizesDoneWork, CompletedWorkIsDone
    <3>4. QED
      BY <3>2, <3>3
  <2>4. CASE \A r \in Requests : ~ SaveQuote(r)
    <3>1. items' = items /\ \A x \in Requests : FinalizesDoneWork(x)'
      BY <2>4, FinalizersKeep DEF WorkInv
    <3>2. ASSUME status' \in {"COMPLETED", "DELIVERED"}, QuoteUntouchedSinceApproval'
          PROVE  ServicesOf(items) \subseteq Completed
      <4>1. CASE status \in {"COMPLETED", "DELIVERED"}
        BY <2>1, <3>2, <4>1 DEF WorkInv, CompletedWorkIsDone
      <4>2. CASE status \notin {"COMPLETED", "DELIVERED"}
        <5>1. PICK r \in Requests : FinalizeOrder(r)
          BY <3>2, <4>2, DecidedByItsOperation
        <5>2. QED
          BY <2>1, <3>2, <5>1 DEF FinalizeOrder, Transition, Commits, WorkInv, FinalizesDoneWork
      <4>3. QED
        BY <4>1, <4>2
    <3>3. CompletedWorkIsDone'
      BY <2>1, <3>1, <3>2 DEF CompletedWorkIsDone
    <3>4. QED
      BY <2>2, <3>1, <3>3 DEF WorkInv
  <2>5. QED
    BY <2>3, <2>4
<1>3. WorkInv => CompletedWorkIsDone
  BY DEF WorkInv
<1>4. QED
  BY <1>1, <1>2, <1>3, TypeCorrect, WorkflowInvariant, PTL DEF Spec
=============================================================================
