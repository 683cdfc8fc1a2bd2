------------------------ MODULE ServiceOrderWorkflow ------------------------
(***************************************************************************)
(* One service order of the workshop: its status, its quote, the service   *)
(* executions, the audit trail, and the HTTP requests that work on them    *)
(* concurrently.                                                           *)
(*                                                                         *)
(* A request runs in its own goroutine.  It reads the order, the quote     *)
(* and the executions with separate statements on the connection pool,     *)
(* checks what it read in the domain, and only then commits one            *)
(* transaction.  Every read is a step of its own here, so the snapshot a   *)
(* request decides on may be stale when it commits.  A transaction takes   *)
(* effect in one step: every row it reads it also locks (READ COMMITTED,   *)
(* the guarded UPDATEs re-evaluate their WHERE on the locked row), so it   *)
(* is equivalent to running alone at its commit.  A request may also end   *)
(* before any of its steps: the client goes away, the database fails, the  *)
(* process is killed.                                                      *)
(*                                                                         *)
(* The rows of two orders are disjoint and every statement names the       *)
(* order's id, so one order shows all the interleavings there are.         *)
(***************************************************************************)
EXTENDS Integers, Sequences, FiniteSets, FiniteSetsExt

CONSTANTS
    Requests,      \* request slots: how many requests may be in flight
    Services,      \* the service catalogue
    Items,         \* priced quote lines the catalogue resolves to
    Compositions,  \* item sets that callers compose quotes of
    ExecutionIds,  \* ids available for audit_services rows
    MaxVersion,    \* bound on the number of compositions
    NoRequest, NoExecution

ASSUME ServicesAssumption == "NONE" \notin Services
\* A line is a product or a service with its applied total.  A composition
\* has at least one line and at most one per catalogue entry, the primary
\* keys of quote_products and quote_services.
ASSUME ItemsAssumption ==
    /\ Items \subseteq [kind : {"PRODUCT", "SERVICE"}, id : STRING, total : Nat]
    /\ \A i \in Items : i.kind = "SERVICE" => i.id \in Services
ASSUME CompositionsAssumption ==
    \A c \in Compositions :
        /\ c # {} /\ c \subseteq Items /\ IsFiniteSet(c)
        /\ \A i, j \in c : i.kind = j.kind /\ i.id = j.id => i = j
ASSUME MaxVersionAssumption == MaxVersion \in Nat \ {0}
ASSUME NoRequestAssumption == NoRequest \notin Requests
ASSUME NoExecutionAssumption == NoExecution \notin ExecutionIds

VARIABLES
    status,      \* service_orders.status
    quote,       \* the quotes row: status, version, sentVersion, total
    items,       \* the quote_products and quote_services rows
    history,     \* service_order_history, in commit order
    executions,  \* audit_services rows
    at,          \* the step each request takes next
    op,          \* the operation each request runs
    seen,        \* what each request has read so far
    mails,       \* totals of the e-mails the provider accepted
    sentTotal    \* history variable: quote.total when the quote was sent

rows == <<status, quote, items, history, executions>>
requestVars == <<at, op, seen>>
vars == <<status, quote, items, history, executions, at, op, seen, mails, sentTotal>>
-----------------------------------------------------------------------------
Statuses == {"RECEIVED", "IN_DIAGNOSIS", "AWAITING_APPROVAL", "IN_PROGRESS",
             "COMPLETED", "DELIVERED", "CANCELED"}

QuoteStatuses == {"PENDING", "APPROVED", "REJECTED"}

Decisions == {"ApproveQuote", "RejectQuote"}

\* Faulty variant: executions may start while the customer is still deciding.
AdmittedBeforeApproval ==
    [StartDiagnosis  |-> {"RECEIVED"},
     ComposeQuote    |-> Statuses \ {"RECEIVED"},
     SendQuote       |-> {"IN_DIAGNOSIS"},
     ApproveQuote    |-> {"AWAITING_APPROVAL"},
     RejectQuote     |-> {"AWAITING_APPROVAL"},
     StartExecution  |-> {"AWAITING_APPROVAL", "IN_PROGRESS"},
     FinishExecution |-> {"IN_PROGRESS"},
     FinalizeOrder   |-> {"IN_PROGRESS"},
     DeliverOrder    |-> {"COMPLETED"}]

\* Faulty variant: a customer may decide before the quote is presented.
AdmittedBeforeSending ==
    [StartDiagnosis  |-> {"RECEIVED"},
     ComposeQuote    |-> Statuses \ {"RECEIVED"},
     SendQuote       |-> {"IN_DIAGNOSIS"},
     ApproveQuote    |-> {"IN_DIAGNOSIS", "AWAITING_APPROVAL"},
     RejectQuote     |-> {"AWAITING_APPROVAL"},
     StartExecution  |-> {"IN_PROGRESS"},
     FinishExecution |-> {"IN_PROGRESS"},
     FinalizeOrder   |-> {"IN_PROGRESS"},
     DeliverOrder    |-> {"COMPLETED"}]

\* The operations, and for each the statuses in which the use case or the
\* domain method it calls goes on.  An order read in another status ends the
\* request with nothing changed.  The external channels dispatch to the same
\* operations.
Admitted ==
    [StartDiagnosis  |-> {"RECEIVED"},
     ComposeQuote    |-> Statuses \ {"RECEIVED"},
     SendQuote       |-> {"IN_DIAGNOSIS"},
     ApproveQuote    |-> {"AWAITING_APPROVAL"},
     RejectQuote     |-> {"AWAITING_APPROVAL"},
     StartExecution  |-> {"IN_PROGRESS"},
     FinishExecution |-> {"IN_PROGRESS"},
     FinalizeOrder   |-> {"IN_PROGRESS"},
     DeliverOrder    |-> {"COMPLETED"}]

Operations == DOMAIN Admitted

\* The step after the order is read.
FirstStep(o) ==
    CASE o \in {"ComposeQuote", "SendQuote", "FinalizeOrder"} \cup Decisions -> "quote"
      [] o = "FinishExecution" -> "execution"
      [] OTHER                 -> "commit"

\* The quote statuses with which an operation goes on once it has read the
\* header; "NONE" is the missing row, which composing expects and finalizing
\* tolerates.
AcceptedQuote ==
    [ComposeQuote  |-> {"NONE", "PENDING"},
     SendQuote     |-> QuoteStatuses,
     ApproveQuote  |-> {"PENDING"},
     RejectQuote   |-> {"PENDING"},
     FinalizeOrder |-> QuoteStatuses \cup {"NONE"}]

NoQuote == [status |-> "NONE", version |-> 0, sentVersion |-> 0, total |-> 0]

NotStarted == [service |-> "NONE", endedBy |-> NoRequest]

NothingRead ==
    [status |-> "NONE", total |-> 0, items |-> {}, execution |-> NoExecution]

\* The sum of the line totals, computed by the back end and nowhere else.
CalculateTotal(lines) == MapThenSumSet(LAMBDA i : i.total, lines)

ServicesOf(lines) == {i.id : i \in {j \in lines : j.kind = "SERVICE"}}

Entry(event, from, to) == [event |-> event, from |-> from, to |-> to]

Init ==
    /\ status = "RECEIVED"
    /\ quote = NoQuote
    /\ items = {}
    /\ history = <<Entry("creation", "RECEIVED", "RECEIVED")>>
    /\ executions = [e \in ExecutionIds |-> NotStarted]
    /\ at = [r \in Requests |-> "idle"]
    /\ op = [r \in Requests |-> "none"]
    /\ seen = [r \in Requests |-> NothingRead]
    /\ mails = <<>>
    /\ sentTotal = 0
-----------------------------------------------------------------------------
(* The reads of a request.                                                 *)

Goto(r, step) == at' = [at EXCEPT ![r] = step]

\* The request ends and its goroutine forgets what it read.
Return(r) ==
    /\ Goto(r, "idle")
    /\ op' = [op EXCEPT ![r] = "none"]
    /\ seen' = [seen EXCEPT ![r] = NothingRead]

\* A client calls operation o and the order is loaded; a refusal on the
\* status just read changes nothing and is not a step.
FindServiceOrder(r, o) ==
    /\ at[r] \in {"idle", "dropped"}
    /\ status \in Admitted[o]
    /\ Goto(r, FirstStep(o))
    /\ op' = [op EXCEPT ![r] = o]
    /\ seen' = [seen EXCEPT ![r].status = status]
    /\ UNCHANGED <<rows, mails, sentTotal>>

\* The quote header.  Only sending and finalizing use the item rows that the
\* same load reads next; finalizing goes on without a quote.
FindQuote(r) ==
    /\ at[r] = "quote"
    /\ quote.status \in AcceptedQuote[op[r]]
    /\ seen' = [seen EXCEPT ![r].total = quote.total]
    /\ Goto(r, IF op[r] \in {"SendQuote", "FinalizeOrder"} /\ quote.status # "NONE"
               THEN "products" ELSE "commit")
    /\ UNCHANGED <<rows, op, mails, sentTotal>>

\* ErrQuoteNotFound or ErrQuoteAlreadyDecided.
RefuseQuote(r) ==
    /\ at[r] = "quote"
    /\ quote.status \notin AcceptedQuote[op[r]]
    /\ Return(r)
    /\ UNCHANGED <<rows, mails, sentTotal>>

FindQuoteProducts(r) ==
    /\ at[r] = "products"
    /\ seen' = [seen EXCEPT ![r].items = {i \in items : i.kind = "PRODUCT"}]
    /\ Goto(r, "services")
    /\ UNCHANGED <<rows, op, mails, sentTotal>>

FindQuoteServices(r) ==
    LET found == seen[r].items \cup {i \in items : i.kind = "SERVICE"} IN
    /\ at[r] = "services"
    /\ op[r] = "SendQuote" => found # {}
    /\ seen' = [seen EXCEPT ![r].items = found]
    /\ Goto(r, IF op[r] = "SendQuote" THEN "commit" ELSE "executions")
    /\ UNCHANGED <<rows, op, mails, sentTotal>>

\* ErrEmptyQuote: the three reads of the quote together found no line.
RefuseEmptyQuote(r) ==
    /\ at[r] = "services"
    /\ op[r] = "SendQuote"
    /\ seen[r].items \cup {i \in items : i.kind = "SERVICE"} = {}
    /\ Return(r)
    /\ UNCHANGED <<rows, mails, sentTotal>>

Started(e) == executions[e] # NotStarted

Ended(e) == executions[e].endedBy # NoRequest

Completed == {executions[e].service : e \in {x \in ExecutionIds : Ended(x)}}

\* Faulty variant: a started execution counts as a completed one.
FindExecutionsStarted(r) ==
    /\ at[r] = "executions"
    /\ ServicesOf(seen[r].items)
           \subseteq {executions[e].service : e \in {x \in ExecutionIds : Started(x)}}
    /\ Goto(r, "commit")
    /\ UNCHANGED <<rows, op, seen, mails, sentTotal>>

\* Every distinct service of the quote that was read needs an ended execution.
FindExecutions(r) ==
    /\ at[r] = "executions"
    /\ ServicesOf(seen[r].items) \subseteq Completed
    /\ Goto(r, "commit")
    /\ UNCHANGED <<rows, op, seen, mails, sentTotal>>

\* ErrExecutionsNotCompleted.
RefuseUnfinishedWork(r) ==
    /\ at[r] = "executions"
    /\ ~ ServicesOf(seen[r].items) \subseteq Completed
    /\ Return(r)
    /\ UNCHANGED <<rows, mails, sentTotal>>

\* The execution a finish request names, running when it is read.
FindExecution(r) ==
    /\ at[r] = "execution"
    /\ \E e \in ExecutionIds :
        /\ Started(e) /\ ~ Ended(e)
        /\ seen' = [seen EXCEPT ![r].execution = e]
    /\ Goto(r, "commit")
    /\ UNCHANGED <<rows, op, mails, sentTotal>>

\* Unknown execution, already finished, or an end before its start.
RefuseExecution(r) ==
    /\ at[r] = "execution"
    /\ Return(r)
    /\ UNCHANGED <<rows, mails, sentTotal>>
-----------------------------------------------------------------------------
(* The transactions.                                                       *)

Commits(r, o) == at[r] = "commit" /\ op[r] = o

Record(event, from, to) == history' = Append(history, Entry(event, from, to))

\* Faulty variant: the UPDATE trusts the status the request read.
TransitionUnguarded(r, o, event, from, to) ==
    /\ Commits(r, o)
    /\ status' = to
    /\ Record(event, from, to)
    /\ Return(r)
    /\ UNCHANGED <<quote, items, executions, mails, sentTotal>>

\* An UPDATE of the order guarded by the status it leaves, with its entry.
Transition(r, o, event, from, to) ==
    /\ Commits(r, o)
    /\ status = from
    /\ status' = to
    /\ Record(event, from, to)
    /\ Return(r)
    /\ UNCHANGED <<quote, items, executions, mails, sentTotal>>

StartDiagnosis(r) ==
    Transition(r, "StartDiagnosis", "diagnosis_started", "RECEIVED", "IN_DIAGNOSIS")

FinalizeOrder(r) ==
    Transition(r, "FinalizeOrder", "completion", "IN_PROGRESS", "COMPLETED")

DeliverOrder(r) ==
    Transition(r, "DeliverOrder", "delivery", "COMPLETED", "DELIVERED")

\* Faulty variant: the old item rows are not deleted.
SaveQuoteKeepsItems(r) ==
    /\ Commits(r, "ComposeQuote")
    /\ quote.version < MaxVersion
    /\ \E c \in Compositions :
        /\ items' = items \cup c
        /\ quote' = [quote EXCEPT !.status  = IF @ = "NONE" THEN "PENDING" ELSE @,
                                  !.version = @ + 1,
                                  !.total   = CalculateTotal(c)]
    /\ Record("quote_composed", seen[r].status, seen[r].status)
    /\ Return(r)
    /\ UNCHANGED <<status, executions, mails, sentTotal>>

\* Faulty variant: the conflict branch of the upsert keeps the version.
SaveQuoteKeepsVersion(r) ==
    /\ Commits(r, "ComposeQuote")
    /\ quote.version < MaxVersion
    /\ \E c \in Compositions :
        /\ items' = c
        /\ quote' = [quote EXCEPT !.status  = IF @ = "NONE" THEN "PENDING" ELSE @,
                                  !.version = 1,
                                  !.total   = CalculateTotal(c)]
    /\ Record("quote_composed", seen[r].status, seen[r].status)
    /\ Return(r)
    /\ UNCHANGED <<status, executions, mails, sentTotal>>

\* The upsert of the header and the full replacement of the item rows.  It
\* looks at neither the order's nor the quote's status; the entry carries
\* the status the request read.
SaveQuote(r) ==
    /\ Commits(r, "ComposeQuote")
    /\ quote.version < MaxVersion
    /\ \E c \in Compositions :
        /\ items' = c
        /\ quote' = [quote EXCEPT !.status  = IF @ = "NONE" THEN "PENDING" ELSE @,
                                  !.version = @ + 1,
                                  !.total   = CalculateTotal(c)]
    /\ Record("quote_composed", seen[r].status, seen[r].status)
    /\ Return(r)
    /\ UNCHANGED <<status, executions, mails, sentTotal>>

\* Faulty variant: the UPDATE does not ask for IN_DIAGNOSIS.
SendQuoteUnguarded(r) ==
    /\ Commits(r, "SendQuote")
    /\ status' = "AWAITING_APPROVAL"
    /\ quote' = [quote EXCEPT !.sentVersion = quote.version]
    /\ sentTotal' = quote.total
    /\ Record("quote_sent", "IN_DIAGNOSIS", "AWAITING_APPROVAL")
    /\ Goto(r, "notify")
    /\ UNCHANGED <<items, executions, op, seen, mails>>

\* Faulty variant: the version after the stored one is recorded as sent.
SendQuoteOffByOne(r) ==
    /\ Commits(r, "SendQuote")
    /\ status = "IN_DIAGNOSIS"
    /\ status' = "AWAITING_APPROVAL"
    /\ quote' = [quote EXCEPT !.sentVersion = quote.version + 1]
    /\ sentTotal' = quote.total
    /\ Record("quote_sent", "IN_DIAGNOSIS", "AWAITING_APPROVAL")
    /\ Goto(r, "notify")
    /\ UNCHANGED <<items, executions, op, seen, mails>>

\* sent_version is the version stored now; the total the request goes on
\* with is the one it read before.
SendQuote(r) ==
    /\ Commits(r, "SendQuote")
    /\ status = "IN_DIAGNOSIS"
    /\ status' = "AWAITING_APPROVAL"
    /\ quote' = [quote EXCEPT !.sentVersion = quote.version]
    /\ sentTotal' = quote.total
    /\ Record("quote_sent", "IN_DIAGNOSIS", "AWAITING_APPROVAL")
    /\ Goto(r, "notify")
    /\ UNCHANGED <<items, executions, op, seen, mails>>

\* After the commit: no address, a failed lookup and a failed provider call
\* are only logged, and nothing is tried again.
NotifyQuoteSent(r) ==
    /\ at[r] = "notify"
    /\ mails' \in {mails, Append(mails, seen[r].total)}
    /\ Return(r)
    /\ UNCHANGED <<rows, sentTotal>>

\* Faulty variant: neither UPDATE asks for the status it leaves.
DecideQuoteUnguarded(r, o, decision, event, to) ==
    /\ Commits(r, o)
    /\ quote' = [quote EXCEPT !.status = decision]
    /\ status' = to
    /\ Record(event, "AWAITING_APPROVAL", to)
    /\ Return(r)
    /\ UNCHANGED <<items, executions, mails, sentTotal>>

DecideQuote(r, o, decision, event, to) ==
    /\ Commits(r, o)
    /\ quote.status = "PENDING"
    /\ status = "AWAITING_APPROVAL"
    /\ quote' = [quote EXCEPT !.status = decision]
    /\ status' = to
    /\ Record(event, "AWAITING_APPROVAL", to)
    /\ Return(r)
    /\ UNCHANGED <<items, executions, mails, sentTotal>>

ApproveQuote(r) == DecideQuote(r, "ApproveQuote", "APPROVED", "approval", "IN_PROGRESS")

RejectQuote(r) == DecideQuote(r, "RejectQuote", "REJECTED", "cancellation", "CANCELED")

\* A plain INSERT under a fresh id, for any service of the catalogue.
StartExecution(r) ==
    /\ Commits(r, "StartExecution")
    /\ \E e \in ExecutionIds, s \in Services :
        /\ ~ Started(e)
        /\ executions' = [executions EXCEPT ![e] = [service |-> s, endedBy |-> NoRequest]]
    /\ Return(r)
    /\ UNCHANGED <<status, quote, items, history, mails, sentTotal>>

\* Faulty variant: the UPDATE does not ask for ended_at IS NULL.
FinishExecutionUnguarded(r) ==
    /\ Commits(r, "FinishExecution")
    /\ executions' = [executions EXCEPT ![seen[r].execution].endedBy = r]
    /\ Return(r)
    /\ UNCHANGED <<status, quote, items, history, mails, sentTotal>>

\* The end is recorded once: the UPDATE asks for ended_at IS NULL.
FinishExecution(r) ==
    /\ Commits(r, "FinishExecution")
    /\ ~ Ended(seen[r].execution)
    /\ executions' = [executions EXCEPT ![seen[r].execution].endedBy = r]
    /\ Return(r)
    /\ UNCHANGED <<status, quote, items, history, mails, sentTotal>>

\* Faulty variant: the UPDATE gives up on a row another transaction wants.
LosesRaceToAnyCommit(r) == \E x \in Requests \ {r} : at[x] = "commit"

\* The guarded UPDATE finds no row: the transaction is rolled back.
LosesRace(r) ==
    CASE op[r] = "StartDiagnosis"  -> status # "RECEIVED"
      [] op[r] = "SendQuote"       -> status # "IN_DIAGNOSIS"
      [] op[r] \in Decisions       -> quote.status # "PENDING" \/ status # "AWAITING_APPROVAL"
      [] op[r] = "FinishExecution" -> Ended(seen[r].execution)
      [] op[r] = "FinalizeOrder"   -> status # "IN_PROGRESS"
      [] op[r] = "DeliverOrder"    -> status # "COMPLETED"
      [] OTHER                     -> FALSE

RollBack(r) ==
    /\ at[r] = "commit"
    /\ LosesRace(r)
    /\ Return(r)
    /\ UNCHANGED <<rows, mails, sentTotal>>

\* The request ends between two steps with an error, a lost connection, a
\* canceled context or a dead process.  What is committed stays.
Drop(r) ==
    /\ at[r] \notin {"idle", "dropped"}
    /\ Goto(r, "dropped")
    /\ op' = [op EXCEPT ![r] = "none"]
    /\ seen' = [seen EXCEPT ![r] = NothingRead]
    /\ UNCHANGED <<rows, mails, sentTotal>>
-----------------------------------------------------------------------------
Read(r) ==
    \/ FindQuote(r) \/ RefuseQuote(r)
    \/ FindQuoteProducts(r) \/ FindQuoteServices(r) \/ RefuseEmptyQuote(r)
    \/ FindExecutions(r) \/ RefuseUnfinishedWork(r)
    \/ FindExecution(r) \/ RefuseExecution(r)

Commit(r) ==
    \/ StartDiagnosis(r) \/ SaveQuote(r) \/ SendQuote(r)
    \/ ApproveQuote(r) \/ RejectQuote(r)
    \/ StartExecution(r) \/ FinishExecution(r)
    \/ FinalizeOrder(r) \/ DeliverOrder(r)
    \/ RollBack(r)

Serve(r) == Read(r) \/ Commit(r) \/ NotifyQuoteSent(r)

Next ==
    \E r \in Requests :
        \/ \E o \in Operations : FindServiceOrder(r, o)
        \/ Serve(r)
        \/ Drop(r)

Spec == Init /\ [][Next]_vars

\* A goroutine that can go on does.  Clients owe nothing, and a request may
\* be dropped at any time.
FairSpec == Spec /\ \A r \in Requests : WF_vars(Serve(r))
-----------------------------------------------------------------------------
(* Properties.                                                             *)

Steps == {"idle", "dropped", "quote", "products", "services", "executions",
          "execution", "commit", "notify"}

Events == {"creation", "diagnosis_started", "quote_composed", "quote_sent",
           "approval", "cancellation", "completion", "delivery"}

Totals == {CalculateTotal(c) : c \in Compositions} \cup {0}

\* The variables keep the types of the columns and of the Go values they
\* stand for.
TypeOK ==
    /\ status \in Statuses
    /\ quote \in [status : QuoteStatuses \cup {"NONE"}, version : 0..MaxVersion,
                  sentVersion : 0..MaxVersion, total : Totals]
    /\ items \in Compositions \cup {{}}
    /\ history \in Seq([event : Events, from : Statuses, to : Statuses])
    /\ executions \in [ExecutionIds -> [service : Services \cup {"NONE"},
                                        endedBy : Requests \cup {NoRequest}]]
    /\ at \in [Requests -> Steps]
    /\ op \in [Requests -> Operations \cup {"none"}]
    /\ seen \in [Requests -> [status : Statuses \cup {"NONE"}, total : Totals,
                              items : SUBSET Items,
                              execution : ExecutionIds \cup {NoExecution}]]
    /\ \A r \in Requests : op[r] # "none" => seen[r].status \in Statuses
    /\ mails \in Seq(Totals)
    /\ sentTotal \in Totals

\* The order's status and its quote tell the same story, whatever the
\* requests interleave: work is under way or done exactly when the quote is
\* approved, the order is canceled exactly when it is rejected, and an order
\* that left the diagnosis has a quote that was sent, in a version composed
\* before.
OrderAgreesWithQuote ==
    /\ status \in {"IN_PROGRESS", "COMPLETED", "DELIVERED"} <=> quote.status = "APPROVED"
    /\ status = "CANCELED" <=> quote.status = "REJECTED"
    /\ status \in {"RECEIVED", "IN_DIAGNOSIS"} <=> quote.sentVersion = 0
    /\ status = "RECEIVED" => quote.status = "NONE"
    /\ quote.version = 0 <=> quote.status = "NONE"
    /\ quote.sentVersion <= quote.version

ChecksHold(r) ==
    /\ op[r] \notin {"none", "StartDiagnosis"} => status # "RECEIVED"
    /\ op[r] = "SendQuote" /\ at[r] # "quote" => quote.status # "NONE"
    /\ op[r] \in Decisions => status # "IN_DIAGNOSIS"
    /\ op[r] \in {"StartExecution", "FinishExecution", "FinalizeOrder"}
           => quote.status = "APPROVED"
    /\ seen[r].execution # NoExecution => Started(seen[r].execution)

\* What a request checks only once, on a read without a lock, is still true
\* at each of its later steps, the commit included: diagnosis has started, a
\* quote that was found exists, a quote to decide was presented, work was
\* approved, an execution that was found was started.  (The other checks are
\* repeated by a guarded UPDATE, or are not and go stale.)
ChecksStayTrue == \A r \in Requests : ChecksHold(r)

\* A send updates the order and then the quote, a decision the quote and then
\* the order.  The two transactions never hold each other's second row: there
\* is no state in which the first UPDATE of both would find its row, so the
\* opposite lock orders cannot deadlock.
NoCrossedLocks ==
    \A r, q \in Requests :
        ~ /\ Commits(r, "SendQuote") /\ status = "IN_DIAGNOSIS"
          /\ at[q] = "commit" /\ op[q] \in Decisions /\ quote.status = "PENDING"

\* No execution row exists unless the quote is approved (BR2 of the
\* execution feature), although starting one checks nothing when it commits.
ExecutionsFollowApproval ==
    (\E e \in ExecutionIds : Started(e)) => quote.status = "APPROVED"

\* The end of an execution is recorded once, however many finish requests
\* were admitted before the first one committed.
EndIsRecordedOnce ==
    [][\A e \in ExecutionIds : Ended(e) => executions'[e] = executions[e]]_executions

\* The status the order had after the first n entries of its trail.
StatusAfter(n) ==
    LET changes == {i \in 1..n : history[i].from # history[i].to}
    IN  IF changes = {} THEN "RECEIVED" ELSE history[Max(changes)].to

\* The entries that change the status form a chain from RECEIVED to the
\* order's current status: no transition is missing from the trail, doubled
\* in it, or out of order.
TrailLeadsToStatus ==
    /\ \A i \in 1..Len(history) :
        history[i].from # history[i].to => history[i].from = StatusAfter(i - 1)
    /\ status = StatusAfter(Len(history))

Recorded(event) == {i \in 1..Len(history) : history[i].event = event}

\* Every composition left exactly one entry and raised the version by one,
\* concurrent compositions included.
VersionCountsCompositions == quote.version = Cardinality(Recorded("quote_composed"))

\* The stored total is the sum of the stored lines, which sit in two other
\* tables (quotes.total_amount).
TotalIsSumOfItems == quote.total = CalculateTotal(items)

\* A quote is presented once: at most one quote_sent entry and at most one
\* e-mail, and no e-mail without a committed send.
PresentedOnce ==
    /\ Cardinality(Recorded("quote_sent")) <= 1
    /\ Len(mails) <= Cardinality(Recorded("quote_sent"))

QuoteUntouchedSinceApproval ==
    \A i \in Recorded("approval"), j \in Recorded("quote_composed") : j < i

\* A completed order has an ended execution of every service on its quote
\* (BR5), as long as no composition slipped in after the approval.  The quote,
\* its lines and the executions are read one after the other before the
\* status changes.
CompletedWorkIsDone ==
    status \in {"COMPLETED", "DELIVERED"} /\ QuoteUntouchedSinceApproval
        => ServicesOf(items) \subseteq Completed

Lifecycle == INSTANCE OrderLifecycle WITH decision <- quote.status

\* The interleaved requests implement the aggregate's lifecycle.
ImplementsLifecycle == Lifecycle!Spec

\* The status each guarded transition leaves.
Source ==
    [StartDiagnosis |-> "RECEIVED",
     SendQuote      |-> "IN_DIAGNOSIS",
     ApproveQuote   |-> "AWAITING_APPROVAL",
     RejectQuote    |-> "AWAITING_APPROVAL",
     FinalizeOrder  |-> "IN_PROGRESS",
     DeliverOrder   |-> "COMPLETED"]

\* Competing transitions never refuse each other all: once a request is about
\* to commit a transition out of the order's status, the order leaves that
\* status, by this request or another, unless this request is dropped.
CompetingTransitionsSettle ==
    \A r \in Requests, o \in DOMAIN Source :
        (Commits(r, o) /\ status = Source[o])
            ~> (status # Source[o] \/ at[r] = "dropped")
-----------------------------------------------------------------------------
(* What the documents say and the code does not keep.                      *)

\* A decided quote cannot be altered
\* (specs/service-order-diagnosis-quote/requirements.md, rule 9).
DecidedQuoteIsFrozen ==
    [][quote.status \in {"APPROVED", "REJECTED"} => UNCHANGED <<quote, items>>]_<<quote, items>>

\* A completed order accepts no new executions and no finishes
\* (specs/service-order-execution/requirements.md, BR6).
CompletedOrderTakesNoWork ==
    [][(status \in {"COMPLETED", "DELIVERED"}) => (executions' = executions)]_executions

\* previous_status is the order's status immediately before the event
\* (the comment on service_order_history.previous_status).
TrailTellsTheStatus ==
    \A i \in 1..Len(history) : history[i].from = StatusAfter(i - 1)

\* The amount in the e-mail is the total of the version recorded as sent
\* (the comment on Quote in quote.go).
MailShowsSentVersion == \A i \in 1..Len(mails) : mails[i] = sentTotal
=============================================================================
