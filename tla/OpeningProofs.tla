----------------------------- MODULE OpeningProofs -----------------------------
(***************************************************************************)
(* Proofs about Opening for any number of requests, rows, keys and orders. *)
(***************************************************************************)
EXTENDS Opening, TLAPS

Jobs == [id : Ids \cup {NoId}, row : Rows]

Forms == [customer : Customers \cup {NoId}, vehicle : Vehicles \cup {NoId},
          services : SUBSET Services, products : SUBSET Products, todo : SUBSET Products]

Orders == [customer : Customers, vehicle : Vehicles,
           services : SUBSET Services, products : SUBSET Products]

RowsOK ==
    /\ rows \in [Ids -> Rows]
    /\ \A id \in Ids : Registered(id) => rows[id].key \in Keys
    /\ \A id \in Ids \ Vehicles : rows[id].owner = NoId

SlotsOK ==
    /\ at \in [Requests -> Steps]
    /\ job \in [Requests -> Jobs]
    /\ form \in [Requests -> Forms]

Writing == {"unique", "write"}

\* A request about to write holds a key, gives no owner to anything but a
\* vehicle, and leaves the owner of a row that exists as it is.
HeldRow(r) ==
    IF at[r] \in Writing
    THEN /\ job[r].id \in Ids
         /\ job[r].row.key \in Keys
         /\ job[r].id \notin Vehicles => job[r].row.owner = NoId
         /\ Registered(job[r].id) => job[r].row.owner = rows[job[r].id].owner
    ELSE job[r] = NoJob

\* A row that is not there yet is written by one request only.
OneWriter ==
    \A r, q \in Requests :
        job[r].id \in Ids /\ job[r].id = job[q].id /\ ~ Registered(job[r].id) => r = q

Resolving == {"vehicle", "services", "products", "create"}

\* What an opening has resolved is registered, and the vehicle the customer's.
Resolved(r) ==
    IF at[r] \in Resolving
    THEN /\ form[r].customer \in Customers
         /\ at[r] # "vehicle" => /\ form[r].vehicle \in Vehicles
                                 /\ rows[form[r].vehicle].owner = form[r].customer
         /\ \A id \in {form[r].customer} \cup form[r].services \cup form[r].products :
                Registered(id)
    ELSE form[r] = Blank

OpeningInv ==
    /\ RowsOK
    /\ SlotsOK
    /\ \A r \in Requests : HeldRow(r)
    /\ OneWriter
    /\ \A r \in Requests : Resolved(r)
    /\ orders \in Seq(Orders)
    /\ OrdersNameOwnVehicle

\* Rows are never removed and vehicles never change hands.
RowsGrow ==
    \A id \in Ids : Registered(id) => Registered(id)' /\ rows'[id].owner = rows[id].owner

-----------------------------------------------------------------------------
\* What was resolved or ordered outlives every step that only adds rows.
LEMMA ResolvedOutlives ==
  ASSUME SlotsOK, RowsGrow, NEW r \in Requests, Resolved(r),
         at'[r] \in Resolving <=> at[r] \in Resolving,
         at'[r] \in Resolving => at'[r] = at[r],
         form'[r] = form[r]
  PROVE  Resolved(r)'
<1>1. CASE at[r] \in Resolving
  <2>1. form[r].services \subseteq Ids /\ form[r].products \subseteq Ids
    BY DEF SlotsOK, Forms, Ids
  <2>2. form[r].customer \in Ids /\ form[r].customer # NoId
    BY <1>1, NothingAssumption DEF Resolved, Ids
  <2>3. at[r] # "vehicle" => form[r].vehicle \in Ids /\ Registered(form[r].vehicle)
    BY <1>1, <2>2 DEF Resolved, Ids, Registered, Absent
  <2>4. QED
    BY <1>1, <2>1, <2>2, <2>3 DEF Resolved, RowsGrow
<1>2. CASE at[r] \notin Resolving
  BY <1>2 DEF Resolved
<1>3. QED
  BY <1>1, <1>2

\* The same for the orders.
LEMMA OrdersOutlive ==
  ASSUME orders \in Seq(Orders), RowsGrow, OrdersNameOwnVehicle, orders' = orders
  PROVE  OrdersNameOwnVehicle'
<1>1. SUFFICES ASSUME NEW n \in DOMAIN orders
               PROVE  /\ rows'[orders[n].vehicle].owner = orders[n].customer
                      /\ \A id \in {orders[n].customer} \cup orders[n].services
                                     \cup orders[n].products : Registered(id)'
  BY DEF OrdersNameOwnVehicle
<1>2. orders[n] \in Orders
  BY <1>1
<1>3. /\ orders[n].customer \in Ids /\ orders[n].customer # NoId
      /\ orders[n].vehicle \in Ids
      /\ orders[n].services \subseteq Ids /\ orders[n].products \subseteq Ids
  BY <1>2, NothingAssumption DEF Orders, Ids
<1>4. rows[orders[n].vehicle].owner = orders[n].customer
  BY <1>1 DEF OrdersNameOwnVehicle
<1>5. Registered(orders[n].vehicle)
  BY <1>3, <1>4 DEF Registered, Absent
<1>6. \A id \in {orders[n].customer} \cup orders[n].services \cup orders[n].products :
         Registered(id)
  BY <1>1 DEF OrdersNameOwnVehicle
<1>7. QED
  BY <1>3, <1>4, <1>5, <1>6 DEF RowsGrow
-----------------------------------------------------------------------------
(* The registry's steps.                                                   *)

\* A request goes on with a row it may write.
LEMMA HoldKeepsInv ==
  ASSUME OpeningInv, NEW r \in Requests, NEW id \in Ids, NEW row \in Rows,
         NEW step \in Writing, Hold(r, id, row, step), UNCHANGED openingVars,
         row.key \in Keys, id \notin Vehicles => row.owner = NoId,
         Registered(id) => row.owner = rows[id].owner,
         Registered(id) \/ \A q \in Requests : job[q].id # id
  PROVE  OpeningInv'
<1>1. /\ UNCHANGED <<rows, orders, form>>
      /\ at[r] = "idle" /\ at' = [at EXCEPT ![r] = step]
      /\ job' = [job EXCEPT ![r] = [id |-> id, row |-> row]]
  BY DEF Hold, Goto, openingVars
<1>2. SlotsOK'
  BY <1>1 DEF OpeningInv, SlotsOK, Jobs, Steps, Writing
<1>3. /\ at'[r] = step /\ job'[r] = [id |-> id, row |-> row]
      /\ \A q \in Requests \ {r} : at'[q] = at[q] /\ job'[q] = job[q]
  BY <1>1 DEF OpeningInv, SlotsOK
<1>4. ASSUME NEW q \in Requests PROVE HeldRow(q)'
  BY <1>1, <1>3 DEF OpeningInv, HeldRow, Registered
<1>5. OneWriter'
  BY <1>1, <1>3 DEF OpeningInv, OneWriter, Registered
<1>6. ASSUME NEW q \in Requests PROVE Resolved(q)'
  BY <1>1, <1>3 DEF OpeningInv, Resolved, Registered, Writing, Resolving
<1>7. RowsOK' /\ orders' \in Seq(Orders) /\ OrdersNameOwnVehicle'
  BY <1>1 DEF OpeningInv, RowsOK, OrdersNameOwnVehicle, Registered
<1>8. QED
  BY <1>2, <1>4, <1>5, <1>6, <1>7 DEF OpeningInv

\* A request ends, with its row written or not.
LEMMA ReturnKeepsSlots ==
  ASSUME OpeningInv, NEW r \in Requests, at[r] \in Writing, Return(r),
         UNCHANGED openingVars, RowsGrow,
         \A q \in Requests \ {r} : HeldRow(q)' , OneWriter', RowsOK'
  PROVE  OpeningInv'
<1>1. /\ UNCHANGED <<orders, form>>
      /\ at' = [at EXCEPT ![r] = "idle"] /\ job' = [job EXCEPT ![r] = NoJob]
  BY DEF Return, Goto, openingVars
<1>2. NoJob \in Jobs
  BY DEF NoJob, Jobs, Absent, Rows
<1>3. SlotsOK'
  BY <1>1, <1>2 DEF OpeningInv, SlotsOK, Steps
<1>4. /\ at'[r] = "idle" /\ job'[r] = NoJob
      /\ \A q \in Requests \ {r} : at'[q] = at[q] /\ job'[q] = job[q]
  BY <1>1 DEF OpeningInv, SlotsOK
<1>5. HeldRow(r)'
  BY <1>4 DEF HeldRow, Writing
<1>6. ASSUME NEW q \in Requests PROVE Resolved(q)'
  BY <1>1, <1>4, ResolvedOutlives DEF OpeningInv, Writing, Resolving
<1>7. orders' \in Seq(Orders) /\ OrdersNameOwnVehicle'
  BY <1>1, OrdersOutlive DEF OpeningInv
<1>8. QED
  BY <1>3, <1>5, <1>6, <1>7 DEF OpeningInv

\* Writing a row adds it, or gives the row that was there other contents
\* under the same owner.
LEMMA SaveKeepsInv ==
  ASSUME OpeningInv, NEW r \in Requests, Save(r), UNCHANGED openingVars
  PROVE  OpeningInv'
<1> DEFINE id == job[r].id
           row == job[r].row
<1>1. /\ at[r] = "write" /\ Return(r)
      /\ rows' = [rows EXCEPT ![id] = row]
  BY DEF Save
<1>2. /\ id \in Ids /\ row \in Rows /\ row.key \in Keys
      /\ id \notin Vehicles => row.owner = NoId
      /\ Registered(id) => row.owner = rows[id].owner
  <2>1. HeldRow(r) /\ job[r] \in Jobs
    BY DEF OpeningInv, SlotsOK
  <2>2. QED
    BY <1>1, <2>1 DEF HeldRow, Writing, Jobs
<1>3. /\ rows' \in [Ids -> Rows]
      /\ rows'[id] = row
      /\ \A x \in Ids \ {id} : rows'[x] = rows[x]
  BY <1>1, <1>2 DEF OpeningInv, RowsOK
<1>4. row # Absent
  BY <1>2, NothingAssumption DEF Absent
<1>5. RowsGrow
  BY <1>2, <1>3, <1>4 DEF RowsGrow, Registered
<1>6. RowsOK'
  BY <1>2, <1>3 DEF OpeningInv, RowsOK, Registered
<1>7. \A q \in Requests \ {r} : at'[q] = at[q] /\ job'[q] = job[q]
  BY <1>1 DEF Return, Goto, OpeningInv, SlotsOK
<1>8. ASSUME NEW q \in Requests \ {r} PROVE HeldRow(q)'
  <2>1. HeldRow(q)
    BY DEF OpeningInv
  <2>2. CASE job[q].id # id
    BY <1>3, <1>7, <2>1, <2>2 DEF HeldRow, Registered
  <2>3. CASE job[q].id = id
    <3>1. Registered(id)
      BY <1>2, <2>3 DEF OpeningInv, OneWriter
    <3>2. at[q] \in Writing
      BY <1>2, <2>1, <2>3, NothingAssumption DEF HeldRow, NoJob
    <3>3. QED
      BY <1>2, <1>3, <1>7, <2>1, <2>3, <3>1, <3>2 DEF HeldRow
  <2>4. QED
    BY <2>2, <2>3
<1>9. OneWriter'
  <2>1. job'[r] = NoJob
    BY <1>1 DEF Return, OpeningInv, SlotsOK
  <2>2. NoJob.id \notin Ids
    BY NothingAssumption DEF NoJob
  <2>3. \A x \in Ids : ~ Registered(x)' => ~ Registered(x)
    BY <1>5 DEF RowsGrow
  <2>4. QED
    BY <1>7, <2>1, <2>2, <2>3 DEF OpeningInv, OneWriter
<1>10. QED
  BY <1>1, <1>5, <1>6, <1>8, <1>9, ReturnKeepsSlots DEF Writing

\* Every request that starts to write starts with such a row.
LEMMA StartKeepsInv ==
  ASSUME OpeningInv, NEW r \in Requests, UNCHANGED openingVars,
         \/ \E id \in Customers, key \in Keys : NewCustomer(r, id, key)
         \/ \E id \in Vehicles, key \in Keys, owner \in Customers :
                NewVehicle(r, id, key, owner)
         \/ \E id \in Products, key \in Keys, supplied \in BOOLEAN :
                NewProduct(r, id, key, supplied)
         \/ \E id \in Services, key \in Keys : NewService(r, id, key)
         \/ \E id \in Ids : Edit(r, id) \/ Deactivate(r, id)
         \/ \E id \in Customers, key \in Keys : ChangeDocument(r, id, key)
  PROVE  OpeningInv'
<1>1. \A key \in Keys, owner \in Customers \cup {NoId} :
         Row(key, owner) \in Rows /\ Row(key, owner).key = key /\ Row(key, owner).owner = owner
  BY DEF Row, Rows
<1>2. ASSUME NEW id \in Ids, NEW key \in Keys, NEW owner \in Customers \cup {NoId},
             NEW step \in Writing, id \in Vehicles \/ owner = NoId,
             Fresh(id), Hold(r, id, Row(key, owner), step)
      PROVE  OpeningInv'
  BY <1>1, <1>2, HoldKeepsInv DEF Fresh
<1>3. CASE \E id \in Customers, key \in Keys : NewCustomer(r, id, key)
  BY <1>2, <1>3 DEF NewCustomer, Ids, Writing
<1>4. CASE \E id \in Vehicles, key \in Keys, owner \in Customers : NewVehicle(r, id, key, owner)
  BY <1>2, <1>4 DEF NewVehicle, Ids, Writing
<1>5. CASE \E id \in Products, key \in Keys, supplied \in BOOLEAN :
              NewProduct(r, id, key, supplied)
  BY <1>2, <1>5 DEF NewProduct, Ids, Writing
<1>6. CASE \E id \in Services, key \in Keys : NewService(r, id, key)
  BY <1>2, <1>6 DEF NewService, Ids, Writing
<1>7. ASSUME NEW id \in Ids, Registered(id), NEW row \in Rows, NEW step \in Writing,
             row.key \in Keys, row.owner = rows[id].owner, Hold(r, id, row, step)
      PROVE  OpeningInv'
  <2>1. id \notin Vehicles => row.owner = NoId
    BY <1>7 DEF OpeningInv, RowsOK
  <2>2. QED
    BY <1>7, <2>1, HoldKeepsInv
<1>8. ASSUME NEW id \in Ids, Edit(r, id) \/ Deactivate(r, id) PROVE OpeningInv'
  <2>1. Registered(id) /\ rows[id] \in Rows /\ rows[id].key \in Keys
    BY <1>8 DEF Edit, Deactivate, OpeningInv, RowsOK
  <2>2. PICK row \in Rows :
          row.key = rows[id].key /\ row.owner = rows[id].owner /\ Hold(r, id, row, "write")
    BY <1>8, <2>1 DEF Edit, Deactivate, Rows
  <2>3. QED
    BY <1>7, <2>1, <2>2 DEF Writing
<1>9. ASSUME NEW id \in Customers, NEW key \in Keys, ChangeDocument(r, id, key)
      PROVE  OpeningInv'
  <2>1. id \in Ids /\ Registered(id) /\ rows[id] \in Rows
    BY <1>9 DEF ChangeDocument, OpeningInv, RowsOK, Ids
  <2>2. PICK row \in Rows :
          row.key = key /\ row.owner = rows[id].owner /\ Hold(r, id, row, "unique")
    BY <1>9, <2>1 DEF ChangeDocument, Rows
  <2>3. QED
    BY <1>7, <2>1, <2>2 DEF Writing
<1>10. QED
  BY <1>3, <1>4, <1>5, <1>6, <1>8, <1>9

\* The other steps of a request that is about to write.
LEMMA RefusalKeepsInv ==
  ASSUME OpeningInv, NEW r \in Requests, UNCHANGED openingVars,
         CheckUnique(r) \/ RefuseDuplicate(r) \/ Drop(r)
  PROVE  OpeningInv'
<1>1. UNCHANGED rows /\ at[r] \in Writing
  BY DEF CheckUnique, RefuseDuplicate, Drop, Writing
<1>2. RowsGrow
  BY <1>1 DEF RowsGrow, Registered
<1>3. CASE CheckUnique(r)
  <2>1. job' = job /\ at' = [at EXCEPT ![r] = "write"]
    BY <1>3 DEF CheckUnique, Goto
  <2>2. SlotsOK'
    BY <2>1 DEF OpeningInv, SlotsOK, Steps, openingVars
  <2>3. at'[r] = "write" /\ \A q \in Requests \ {r} : at'[q] = at[q]
    BY <2>1 DEF OpeningInv, SlotsOK
  <2>4. ASSUME NEW q \in Requests PROVE HeldRow(q)'
    BY <1>1, <2>1, <2>3 DEF OpeningInv, HeldRow, Registered, Writing
  <2>5. ASSUME NEW q \in Requests PROVE Resolved(q)'
    BY <1>1, <1>2, <2>3, ResolvedOutlives DEF OpeningInv, openingVars, Writing, Resolving
  <2>6. RowsOK' /\ OneWriter'
    BY <1>1, <2>1 DEF OpeningInv, RowsOK, OneWriter, Registered
  <2>7. orders' \in Seq(Orders) /\ OrdersNameOwnVehicle'
    BY <1>2, OrdersOutlive DEF OpeningInv, openingVars
  <2>8. QED
    BY <2>2, <2>4, <2>5, <2>6, <2>7 DEF OpeningInv
<1>4. CASE RefuseDuplicate(r) \/ Drop(r)
  <2>1. Return(r)
    BY <1>4 DEF RefuseDuplicate, Drop
  <2>2. /\ job'[r] = NoJob
        /\ \A q \in Requests \ {r} : at'[q] = at[q] /\ job'[q] = job[q]
    BY <2>1 DEF Return, Goto, OpeningInv, SlotsOK
  <2>3. \A q \in Requests \ {r} : HeldRow(q)'
    BY <1>1, <2>2 DEF OpeningInv, HeldRow, Registered
  <2>4. OneWriter'
    BY <1>1, <2>2, NothingAssumption DEF OpeningInv, OneWriter, Registered, NoJob
  <2>5. RowsOK'
    BY <1>1 DEF OpeningInv, RowsOK, Registered
  <2>6. QED
    BY <1>1, <1>2, <2>1, <2>3, <2>4, <2>5, ReturnKeepsSlots
<1>5. QED
  BY <1>3, <1>4

\* Deactivating a service changes its status and nothing else.
LEMMA DeactivateServiceKeepsInv ==
  ASSUME OpeningInv, NEW id \in Services, DeactivateService(id), UNCHANGED openingVars
  PROVE  OpeningInv'
<1>1. id \in Ids /\ Registered(id) /\ UNCHANGED <<at, job, orders, form>>
  BY DEF DeactivateService, Ids, openingVars
<1>2. /\ rows' \in [Ids -> Rows]
      /\ rows'[id].key = rows[id].key /\ rows'[id].owner = rows[id].owner
      /\ \A x \in Ids \ {id} : rows'[x] = rows[x]
  BY <1>1 DEF DeactivateService, OpeningInv, RowsOK, Rows
<1>3. Registered(id)'
  <2>1. rows[id].key \in Keys
    BY <1>1 DEF OpeningInv, RowsOK
  <2>2. QED
    BY <1>2, <2>1, NothingAssumption DEF Registered, Absent
<1>4. RowsGrow
  BY <1>2, <1>3 DEF RowsGrow, Registered
<1>5. RowsOK'
  BY <1>1, <1>2 DEF OpeningInv, RowsOK, Registered
<1>6. \A x \in Ids : Registered(x)' <=> Registered(x)
  BY <1>1, <1>2, <1>3 DEF Registered
<1>7. SlotsOK' /\ OneWriter'
  BY <1>1, <1>6 DEF OpeningInv, SlotsOK, OneWriter
<1>8. ASSUME NEW q \in Requests PROVE HeldRow(q)'
  <2>1. HeldRow(q)
    BY DEF OpeningInv
  <2>2. \A x \in Ids : rows'[x].owner = rows[x].owner
    BY <1>2
  <2>3. QED
    BY <1>1, <1>6, <2>1, <2>2 DEF HeldRow
<1>9. ASSUME NEW q \in Requests PROVE Resolved(q)'
  BY <1>1, <1>4, ResolvedOutlives DEF OpeningInv
<1>10. orders' \in Seq(Orders) /\ OrdersNameOwnVehicle'
  BY <1>1, <1>4, OrdersOutlive DEF OpeningInv
<1>11. QED
  BY <1>5, <1>7, <1>8, <1>9, <1>10 DEF OpeningInv
-----------------------------------------------------------------------------
(* The opening's steps.                                                    *)

\* An opening goes on or ends: the registry is left alone, and so is every
\* other slot.
LEMMA ResolveKeepsInv ==
  ASSUME OpeningInv, NEW r \in Requests, NEW step \in Steps \ Writing, NEW f \in Forms,
         UNCHANGED <<rows, job>>, at[r] \notin Writing,
         at' = [at EXCEPT ![r] = step], form' = [form EXCEPT ![r] = f],
         Resolved(r)', orders' \in Seq(Orders), OrdersNameOwnVehicle'
  PROVE  OpeningInv'
<1>1. SlotsOK'
  BY DEF OpeningInv, SlotsOK
<1>2. /\ at'[r] = step
      /\ \A q \in Requests \ {r} : at'[q] = at[q] /\ form'[q] = form[q]
  BY DEF OpeningInv, SlotsOK
<1>3. ASSUME NEW q \in Requests PROVE HeldRow(q)'
  BY <1>2 DEF OpeningInv, HeldRow, Registered
<1>4. ASSUME NEW q \in Requests PROVE Resolved(q)'
  BY <1>2 DEF OpeningInv, Resolved, Registered
<1>5. RowsOK' /\ OneWriter'
  BY DEF OpeningInv, RowsOK, OneWriter, Registered
<1>6. QED
  BY <1>1, <1>3, <1>4, <1>5 DEF OpeningInv

\* Each read of an opening adds what it found; the transaction turns it into
\* an order.
LEMMA OpenKeepsInv ==
  ASSUME OpeningInv, NEW r \in Requests, Open(r)
  PROVE  OpeningInv'
<1>1. Blank \in Forms
  BY DEF Blank, Forms
<1>2. form[r] \in Forms /\ Resolved(r)
  BY DEF OpeningInv, SlotsOK
<1>3. \A id \in Ids : rows[id].active => Registered(id)
  BY DEF Registered, Absent
<1>4. orders' = orders /\ UNCHANGED rows => orders' \in Seq(Orders) /\ OrdersNameOwnVehicle'
  BY DEF OpeningInv, OrdersNameOwnVehicle, Registered
<1>5. ASSUME NEW c \in Customers, ResolveCustomer(r, c) PROVE OpeningInv'
  <2> DEFINE f == [form[r] EXCEPT !.customer = c]
  <2>1. /\ at[r] = "idle" /\ UNCHANGED <<rows, job, orders>>
        /\ at' = [at EXCEPT ![r] = "vehicle"] /\ form' = [form EXCEPT ![r] = f]
    BY <1>5 DEF ResolveCustomer, Goto
  <2>2. f \in Forms /\ form[r] = Blank
    BY <1>2, <2>1 DEF Forms, Resolved, Resolving
  <2>3. /\ at'[r] = "vehicle" /\ form'[r].customer = c
        /\ form'[r].services = {} /\ form'[r].products = {}
    BY <2>1, <2>2 DEF OpeningInv, SlotsOK, Blank
  <2>4. Registered(c)
    BY <1>3, <1>5 DEF ResolveCustomer, Ids
  <2>5. Resolved(r)'
    BY <2>1, <2>3, <2>4 DEF Resolved, Resolving, Registered
  <2>6. QED
    BY <1>4, <2>1, <2>2, <2>5, ResolveKeepsInv DEF Steps, Writing
<1>6. ASSUME NEW v \in Vehicles, ResolveVehicle(r, v) PROVE OpeningInv'
  <2> DEFINE f == [form[r] EXCEPT !.vehicle = v]
  <2>1. /\ at[r] = "vehicle" /\ rows[v].owner = form[r].customer /\ UNCHANGED <<rows, job, orders>>
        /\ at' = [at EXCEPT ![r] = "services"] /\ form' = [form EXCEPT ![r] = f]
    BY <1>6 DEF ResolveVehicle, Goto
  <2>2. f \in Forms
    BY <1>2 DEF Forms
  <2>3. /\ at'[r] = "services" /\ form'[r].customer = form[r].customer
        /\ form'[r].vehicle = v
        /\ form'[r].services = form[r].services /\ form'[r].products = form[r].products
    BY <1>2, <2>1 DEF OpeningInv, SlotsOK, Forms
  <2>4. Resolved(r)'
    BY <1>2, <2>1, <2>3 DEF Resolved, Resolving, Registered
  <2>5. QED
    BY <1>4, <2>1, <2>2, <2>4, ResolveKeepsInv DEF Steps, Writing
<1>7. ASSUME NEW requested \in SUBSET Services, ResolveServices(r, requested)
      PROVE  OpeningInv'
  <2>1. PICK wanted \in SUBSET Products :
          /\ form' = [form EXCEPT ![r].services = requested, ![r].todo = wanted]
          /\ Goto(r, IF wanted = {} THEN "create" ELSE "products")
    BY <1>7 DEF ResolveServices
  <2> DEFINE f    == [form[r] EXCEPT !.services = requested, !.todo = wanted]
             step == IF wanted = {} THEN "create" ELSE "products"
  <2>2. /\ at[r] = "services" /\ UNCHANGED <<rows, job, orders>>
        /\ at' = [at EXCEPT ![r] = step] /\ form' = [form EXCEPT ![r] = f]
    BY <1>7, <2>1 DEF ResolveServices, Goto
  <2>3. f \in Forms
    BY <1>2 DEF Forms
  <2>4. /\ at'[r] = step /\ form'[r].customer = form[r].customer
        /\ form'[r].vehicle = form[r].vehicle
        /\ form'[r].services = requested /\ form'[r].products = form[r].products
    BY <1>2, <2>2 DEF OpeningInv, SlotsOK, Forms
  <2>5. \A s \in requested : Registered(s)
    BY <1>7 DEF ResolveServices
  <2>6. Resolved(r)'
    BY <1>2, <2>2, <2>4, <2>5 DEF Resolved, Resolving, Registered
  <2>7. QED
    BY <1>4, <2>2, <2>3, <2>6, ResolveKeepsInv DEF Steps, Writing
<1>8. ASSUME NEW p \in Products, ResolveProduct(r, p) PROVE OpeningInv'
  <2> DEFINE f    == [form[r] EXCEPT !.products = @ \cup {p}, !.todo = @ \ {p}]
             step == IF form[r].todo = {p} THEN "create" ELSE "products"
  <2>1. /\ at[r] = "products" /\ UNCHANGED <<rows, job, orders>>
        /\ at' = [at EXCEPT ![r] = step] /\ form' = [form EXCEPT ![r] = f]
    BY <1>8 DEF ResolveProduct, Goto
  <2>2. f \in Forms
    BY <1>2 DEF Forms
  <2>3. /\ at'[r] = step /\ form'[r].customer = form[r].customer
        /\ form'[r].vehicle = form[r].vehicle
        /\ form'[r].services = form[r].services /\ form'[r].products = form[r].products \cup {p}
    BY <1>2, <2>1 DEF OpeningInv, SlotsOK, Forms
  <2>4. Registered(p)
    BY <1>3, <1>8 DEF ResolveProduct, Ids
  <2>5. Resolved(r)'
    BY <1>2, <2>1, <2>3, <2>4 DEF Resolved, Resolving, Registered
  <2>6. QED
    BY <1>4, <2>1, <2>2, <2>5, ResolveKeepsInv DEF Steps, Writing
<1>9. CASE Abandon(r)
  <2>1. /\ at[r] \in Resolving /\ UNCHANGED <<rows, job, orders>>
        /\ at' = [at EXCEPT ![r] = "idle"] /\ form' = [form EXCEPT ![r] = Blank]
    BY <1>9 DEF Abandon, Goto, Resolving
  <2>2. Resolved(r)'
    BY <2>1 DEF Resolved, Resolving, OpeningInv, SlotsOK
  <2>3. QED
    BY <1>1, <1>4, <2>1, <2>2, ResolveKeepsInv DEF Steps, Writing, Resolving
<1>10. CASE Create(r)
  <2> DEFINE o == [customer |-> form[r].customer, vehicle |-> form[r].vehicle,
                   services |-> form[r].services, products |-> form[r].products]
  <2>1. /\ at[r] = "create" /\ UNCHANGED <<rows, job>>
        /\ at' = [at EXCEPT ![r] = "idle"] /\ form' = [form EXCEPT ![r] = Blank]
        /\ orders' = Append(orders, o)
    BY <1>10 DEF Create, Goto
  <2>2. /\ form[r].customer \in Customers /\ form[r].vehicle \in Vehicles
        /\ rows[form[r].vehicle].owner = form[r].customer
        /\ \A id \in {form[r].customer} \cup form[r].services \cup form[r].products :
               Registered(id)
    BY <1>2, <2>1 DEF Resolved, Resolving
  <2>3. o \in Orders
    BY <1>2, <2>2 DEF Orders, Forms
  <2>4. orders \in Seq(Orders)
    BY DEF OpeningInv
  <2>5. orders' \in Seq(Orders)
    BY <2>1, <2>3, <2>4
  <2>6. OrdersNameOwnVehicle'
    <3> SUFFICES ASSUME NEW n \in DOMAIN orders'
                 PROVE  /\ rows[orders'[n].vehicle].owner = orders'[n].customer
                        /\ \A id \in {orders'[n].customer} \cup orders'[n].services
                                       \cup orders'[n].products : Registered(id)
      BY <2>1 DEF OrdersNameOwnVehicle, Registered
    <3>1. CASE n \in DOMAIN orders
      <4>1. orders'[n] = orders[n]
        BY <2>1, <2>3, <2>4, <3>1
      <4>2. QED
        BY <3>1, <4>1 DEF OpeningInv, OrdersNameOwnVehicle
    <3>2. CASE n \notin DOMAIN orders
      <4>1. orders'[n] = o
        BY <2>1, <2>3, <2>4, <3>2
      <4>2. QED
        BY <2>2, <4>1
    <3>3. QED
      BY <3>1, <3>2
  <2>7. Resolved(r)'
    BY <2>1 DEF Resolved, Resolving, OpeningInv, SlotsOK
  <2>8. QED
    BY <1>1, <2>1, <2>5, <2>6, <2>7, ResolveKeepsInv DEF Steps, Writing
<1>11. QED
  BY <1>5, <1>6, <1>7, <1>8, <1>9, <1>10 DEF Open
-----------------------------------------------------------------------------
(* The theorems.                                                           *)

\* Rows, slots, openings and orders fit together whatever the requests
\* interleave.
THEOREM OpeningInvariant == Spec => []OpeningInv
<1>1. Init => OpeningInv
  <2> SUFFICES ASSUME Init PROVE OpeningInv
    OBVIOUS
  <2>1. RowsOK
    BY DEF Init, RegistryInit, RowsOK, Rows, Absent, Registered
  <2>2. SlotsOK
    BY DEF Init, RegistryInit, SlotsOK, Jobs, Forms, NoJob, Absent, Rows, Blank, Steps
  <2>3. \A r \in Requests : at[r] = "idle" /\ job[r] = NoJob /\ form[r] = Blank
    BY DEF Init, RegistryInit
  <2>4. \A r \in Requests : HeldRow(r) /\ Resolved(r)
    BY <2>3 DEF HeldRow, Resolved, Writing, Resolving
  <2>5. OneWriter
    BY <2>3, NothingAssumption DEF OneWriter, NoJob
  <2>6. orders \in Seq(Orders) /\ OrdersNameOwnVehicle
    BY DEF Init, OrdersNameOwnVehicle
  <2>7. QED
    BY <2>1, <2>2, <2>4, <2>5, <2>6 DEF OpeningInv
<1>2. OpeningInv /\ [Next]_vars => OpeningInv'
  <2> SUFFICES ASSUME OpeningInv, [Next]_vars PROVE OpeningInv'
    OBVIOUS
  <2>1. CASE RegistryNext /\ UNCHANGED openingVars
    BY <2>1, StartKeepsInv, RefusalKeepsInv, SaveKeepsInv, DeactivateServiceKeepsInv
       DEF RegistryNext
  <2>2. CASE \E r \in Requests : Open(r)
    BY <2>2, OpenKeepsInv
  <2>3. CASE UNCHANGED vars
    BY <2>3 DEF vars, registryVars, openingVars, OpeningInv, RowsOK, SlotsOK, HeldRow,
                OneWriter, Resolved, OrdersNameOwnVehicle, Registered
  <2>4. QED
    BY <2>1, <2>2, <2>3 DEF Next
<1>3. QED
  BY <1>1, <1>2, PTL DEF Spec

\* Rows, half-finished requests and orders hold ids and keys of the right kind.
THEOREM OpeningTypeCorrect == Spec => []TypeOK
<1>1. OpeningInv => TypeOK
  BY DEF OpeningInv, RowsOK, SlotsOK, Jobs, Forms, Orders, TypeOK
<1>2. QED
  BY <1>1, OpeningInvariant, PTL

\* An order names registered rows and a vehicle of its customer, now and ever
\* after.
THEOREM OrdersAlwaysNameOwnVehicle == Spec => []OrdersNameOwnVehicle
<1>1. OpeningInv => OrdersNameOwnVehicle
  BY DEF OpeningInv
<1>2. QED
  BY <1>1, OpeningInvariant, PTL

\* Only two steps write a row.
LEMMA RowsWrittenBy ==
  ASSUME [Next]_vars
  PROVE  \/ UNCHANGED rows
         \/ \E r \in Requests : Save(r)
         \/ \E id \in Services : DeactivateService(id)
  BY DEF Next, RegistryNext, NewCustomer, NewVehicle, NewProduct, NewService, Hold,
         CheckUnique, RefuseDuplicate, Drop, Edit, Deactivate, ChangeDocument, Open,
         ResolveCustomer, ResolveVehicle, ResolveServices, ResolveProduct, Create,
         Abandon, vars, registryVars

\* A row is in the table its id belongs to.
LEMMA TableOfId == \A id \in Ids : id \in Table(id)
  BY DEF Table, Ids

\* A document, plate or code identifies one row of its table, whichever
\* registrations and edits race.
THEOREM KeysAlwaysUnique == Spec => []KeysUnique
<1>1. Init => KeysUnique
  BY DEF Init, RegistryInit, KeysUnique, Registered
<1>2. OpeningInv /\ KeysUnique /\ [Next]_vars => KeysUnique'
  <2> SUFFICES ASSUME OpeningInv, KeysUnique, [Next]_vars PROVE KeysUnique'
    OBVIOUS
  <2>1. CASE UNCHANGED rows
    BY <2>1 DEF KeysUnique, Registered
  <2>2. ASSUME NEW r \in Requests, Save(r) PROVE KeysUnique'
    <3>1. /\ job[r].id \in Ids /\ ~ Taken(job[r].row.key, job[r].id)
          /\ rows' = [rows EXCEPT ![job[r].id] = job[r].row]
      BY <2>2 DEF Save, OpeningInv, HeldRow, Writing
    <3>2. /\ rows'[job[r].id] = job[r].row
          /\ \A x \in Ids \ {job[r].id} : rows'[x] = rows[x]
      BY <3>1 DEF OpeningInv, RowsOK
    <3>3. ASSUME NEW x \in Ids, NEW y \in Ids, Registered(x)', Registered(y)',
                 Table(x) = Table(y), rows'[x].key = rows'[y].key
          PROVE  x = y
      <4>1. x \in Table(y) /\ y \in Table(x)
        BY <3>3, TableOfId
      <4>2. CASE x = job[r].id \/ y = job[r].id
        BY <3>1, <3>2, <3>3, <4>1, <4>2 DEF Taken
      <4>3. CASE x # job[r].id /\ y # job[r].id
        BY <3>2, <3>3, <4>3 DEF KeysUnique, Registered
      <4>4. QED
        BY <4>2, <4>3
    <3>4. QED
      BY <3>3 DEF KeysUnique
  <2>3. ASSUME NEW id \in Services, DeactivateService(id) PROVE KeysUnique'
    <3>1. /\ Registered(id) /\ id \in Ids
          /\ \A x \in Ids : rows'[x].key = rows[x].key /\ (x # id => rows'[x] = rows[x])
      BY <2>3 DEF DeactivateService, OpeningInv, RowsOK, Rows, Ids
    <3>2. \A x \in Ids : Registered(x)' => Registered(x)
      BY <3>1 DEF Registered
    <3>3. QED
      BY <3>1, <3>2 DEF KeysUnique
  <2>4. QED
    BY <2>1, <2>2, <2>3, RowsWrittenBy
<1>3. QED
  BY <1>1, <1>2, OpeningInvariant, PTL DEF Spec
-----------------------------------------------------------------------------
(* Deactivation.                                                           *)

\* The row of a retired id stays inactive: every copy of it that is still to
\* be written is.
LEMMA RetiredRowStays ==
  ASSUME OpeningInv, [Next]_vars, NEW id \in Ids, Retired(id)
  PROVE  Registered(id)' /\ ~ rows'[id].active
<1>1. Registered(id) /\ ~ rows[id].active /\ rows[id].key \in Keys
  BY DEF Retired, OpeningInv, RowsOK
<1>2. CASE UNCHANGED rows
  BY <1>1, <1>2 DEF Registered
<1>3. ASSUME NEW r \in Requests, Save(r) PROVE Registered(id)' /\ ~ rows'[id].active
  <2>1. /\ job[r].id \in Ids /\ job[r].row.key \in Keys
        /\ rows' = [rows EXCEPT ![job[r].id] = job[r].row]
    BY <1>3 DEF Save, OpeningInv, HeldRow, Writing
  <2>2. CASE job[r].id = id
    <3>1. rows'[id] = job[r].row /\ ~ job[r].row.active
      BY <2>1, <2>2 DEF OpeningInv, RowsOK, Retired
    <3>2. QED
      BY <2>1, <3>1, NothingAssumption DEF Registered, Absent
  <2>3. CASE job[r].id # id
    BY <1>1, <2>1, <2>3 DEF OpeningInv, RowsOK, Registered
  <2>4. QED
    BY <2>2, <2>3
<1>4. ASSUME NEW s \in Services, DeactivateService(s)
      PROVE  Registered(id)' /\ ~ rows'[id].active
  <2>1. rows'[id].key = rows[id].key /\ ~ rows'[id].active
    BY <1>1, <1>4 DEF DeactivateService, OpeningInv, RowsOK, Rows
  <2>2. QED
    BY <1>1, <2>1, NothingAssumption DEF Registered, Absent
<1>5. QED
  BY <1>2, <1>3, <1>4, RowsWrittenBy

\* Rows are never removed and vehicles never change hands.
LEMMA RowsAlwaysGrow ==
  ASSUME OpeningInv, [Next]_vars
  PROVE  RowsGrow
<1>1. CASE UNCHANGED rows
  BY <1>1 DEF RowsGrow, Registered
<1>2. ASSUME NEW r \in Requests, Save(r) PROVE RowsGrow
  <2>1. /\ job[r].id \in Ids /\ job[r].row.key \in Keys
        /\ rows' = [rows EXCEPT ![job[r].id] = job[r].row]
        /\ Registered(job[r].id) => job[r].row.owner = rows[job[r].id].owner
    BY <1>2 DEF Save, OpeningInv, HeldRow, Writing
  <2>2. job[r].row # Absent
    BY <2>1, NothingAssumption DEF Absent
  <2>3. QED
    BY <2>1, <2>2 DEF OpeningInv, RowsOK, RowsGrow, Registered
<1>3. ASSUME NEW s \in Services, DeactivateService(s) PROVE RowsGrow
  <2>1. \A id \in Ids : rows'[id].key = rows[id].key /\ rows'[id].owner = rows[id].owner
    BY <1>3 DEF DeactivateService, OpeningInv, RowsOK, Rows
  <2>2. \A id \in Ids : Registered(id) => rows[id].key \in Keys
    BY DEF OpeningInv, RowsOK
  <2>3. ASSUME NEW id \in Ids, Registered(id) PROVE Registered(id)'
    <3>1. rows'[id].key \in Keys
      BY <2>1, <2>2, <2>3
    <3>2. QED
      BY <3>1, NothingAssumption DEF Registered, Absent
  <2>4. QED
    BY <2>1, <2>3 DEF RowsGrow
<1>4. QED
  BY <1>1, <1>2, <1>3, RowsWrittenBy

\* What a request is about to write of a retired id, or for it.
Harmless(r, id) ==
    /\ job[r].id = id => ~ job[r].row.active
    /\ job[r].row.owner = id => Registered(job[r].id)

\* A request that starts after the retirement reads the row as it is, and an
\* owner only if it is active.
LEMMA RetiredJobsStay ==
  ASSUME OpeningInv, [Next]_vars, NEW id \in Ids, Retired(id), NEW r \in Requests
  PROVE  Harmless(r, id)'
<1>1. Harmless(r, id) /\ Registered(id) /\ ~ rows[id].active
  BY DEF Retired, Harmless
<1>2. CASE job'[r] = job[r]
  <2>1. job[r].row.owner = id => Registered(job[r].id)'
    <3>1. CASE job[r].id \in Ids
      BY <1>1, <1>2, <3>1, RowsAlwaysGrow DEF RowsGrow, Harmless, Registered
    <3>2. CASE job[r].id \notin Ids
      <4>1. job[r] = NoJob
        BY <3>2 DEF OpeningInv, HeldRow
      <4>2. QED
        BY <4>1, NothingAssumption DEF NoJob, Absent
    <3>3. QED
      BY <3>1, <3>2
  <2>2. QED
    BY <1>1, <1>2, <2>1 DEF Harmless
<1>3. CASE job'[r] = NoJob
  BY <1>3, NothingAssumption DEF Harmless, NoJob, Absent
<1>4. ASSUME NEW x \in Ids, NEW row, job'[r] = [id |-> x, row |-> row], rows' = rows,
             \/ Fresh(x) /\ row.owner # id
             \/ Registered(x) /\ (x = id => ~ row.active)
      PROVE  Harmless(r, id)'
  BY <1>1, <1>4 DEF Harmless, Registered, Fresh
<1>5. ASSUME NEW q \in Requests, NEW x \in Ids, NEW row, NEW step, Hold(q, x, row, step),
             \/ Fresh(x) /\ row.owner # id
             \/ Registered(x) /\ (x = id => ~ row.active)
      PROVE  Harmless(r, id)'
  <2>1. rows' = rows /\ job' = [job EXCEPT ![q] = [id |-> x, row |-> row]]
    BY <1>5 DEF Hold
  <2>2. CASE q = r
    <3>1. job'[r] = [id |-> x, row |-> row]
      BY <2>1, <2>2 DEF OpeningInv, SlotsOK
    <3>2. QED
      BY <1>4, <1>5, <2>1, <3>1
  <2>3. CASE q # r
    BY <1>2, <2>1, <2>3 DEF OpeningInv, SlotsOK
  <2>4. QED
    BY <2>2, <2>3
<1>6. \A c \in Customers, k \in Keys : rows[c].active => Row(k, c).owner # id
  BY <1>1 DEF Row
<1>7. \A k \in Keys : Row(k, NoId).owner # id
  BY NothingAssumption DEF Row
<1>8. ASSUME NEW q \in Requests,
             \/ \E x \in Customers, key \in Keys : NewCustomer(q, x, key)
             \/ \E x \in Vehicles, key \in Keys, owner \in Customers :
                    NewVehicle(q, x, key, owner)
             \/ \E x \in Products, key \in Keys, supplied \in BOOLEAN :
                    NewProduct(q, x, key, supplied)
             \/ \E x \in Services, key \in Keys : NewService(q, x, key)
      PROVE  Harmless(r, id)'
  BY <1>5, <1>6, <1>7, <1>8 DEF NewCustomer, NewVehicle, NewProduct, NewService, Ids
<1>9. ASSUME NEW q \in Requests, NEW x \in Ids, Edit(q, x) \/ Deactivate(q, x)
      PROVE  Harmless(r, id)'
  <2>1. rows[x] \in Rows
    BY DEF OpeningInv, RowsOK
  <2>2. PICK row : Hold(q, x, row, "write") /\ Registered(x) /\ (x = id => ~ row.active)
    BY <1>1, <1>9, <2>1 DEF Edit, Deactivate, Rows
  <2>3. QED
    BY <1>5, <2>2
<1>10. ASSUME NEW q \in Requests, NEW x \in Customers, NEW key \in Keys, ChangeDocument(q, x, key)
       PROVE  Harmless(r, id)'
  <2>1. rows[x] \in Rows /\ x \in Ids
    BY DEF OpeningInv, RowsOK, Ids
  <2>2. PICK row : Hold(q, x, row, "unique") /\ Registered(x) /\ (x = id => ~ row.active)
    BY <1>1, <1>10, <2>1 DEF ChangeDocument, Rows
  <2>3. QED
    BY <1>5, <2>1, <2>2
<1>11. ASSUME NEW q \in Requests, CheckUnique(q) \/ RefuseDuplicate(q) \/ Save(q) \/ Drop(q)
       PROVE  Harmless(r, id)'
  <2>1. job' = job \/ job' = [job EXCEPT ![q] = NoJob]
    BY <1>11 DEF CheckUnique, RefuseDuplicate, Save, Drop, Return
  <2>2. job'[r] = job[r] \/ job'[r] = NoJob
    BY <2>1 DEF OpeningInv, SlotsOK
  <2>3. QED
    BY <1>2, <1>3, <2>2
<1>12. ASSUME job' = job PROVE Harmless(r, id)'
  BY <1>2, <1>12
<1>13. QED
  BY <1>8, <1>9, <1>10, <1>11, <1>12
     DEF Next, RegistryNext, DeactivateService, Open, ResolveCustomer, ResolveVehicle,
         ResolveServices, ResolveProduct, Create, Abandon, vars, registryVars

\* The ids an opening has resolved and that have to be active.
Named(f) == {f.customer, f.vehicle} \cup f.products

\* An opening resolves active rows only, and so never a retired one.
LEMMA RetiredIsNotNamed ==
  ASSUME OpeningInv, [Next]_vars, NEW id \in Ids, Retired(id), NEW r \in Requests
  PROVE  id \notin Named(form'[r])
<1>1. id \notin Named(form[r]) /\ ~ rows[id].active /\ id # NoId
  BY NothingAssumption DEF Retired, Named
<1>2. form \in [Requests -> Forms]
  BY DEF OpeningInv, SlotsOK
<1>3. ASSUME NEW q \in Requests, NEW f, form' = [form EXCEPT ![q] = f],
             id \notin Named(f)
      PROVE  id \notin Named(form'[r])
  BY <1>1, <1>2, <1>3
<1>4. CASE form' = form
  BY <1>1, <1>4
<1>5. ASSUME NEW q \in Requests, Open(q) PROVE id \notin Named(form'[r])
  <2>1. form[q] \in Forms /\ id \notin Named(form[q])
    BY <1>2 DEF Retired, Named
  <2>2. ASSUME NEW c \in Customers, ResolveCustomer(q, c) PROVE id \notin Named(form'[r])
    <3>1. id \notin Named([form[q] EXCEPT !.customer = c])
      BY <1>1, <2>1, <2>2 DEF ResolveCustomer, Named, Forms
    <3>2. form' = [form EXCEPT ![q] = [form[q] EXCEPT !.customer = c]]
      BY <2>2 DEF ResolveCustomer
    <3>3. QED
      BY <1>3, <3>1, <3>2
  <2>3. ASSUME NEW v \in Vehicles, ResolveVehicle(q, v) PROVE id \notin Named(form'[r])
    <3>1. id \notin Named([form[q] EXCEPT !.vehicle = v])
      BY <1>1, <2>1, <2>3 DEF ResolveVehicle, Named, Forms
    <3>2. form' = [form EXCEPT ![q] = [form[q] EXCEPT !.vehicle = v]]
      BY <2>3 DEF ResolveVehicle
    <3>3. QED
      BY <1>3, <3>1, <3>2
  <2>4. ASSUME NEW requested \in SUBSET Services, ResolveServices(q, requested)
        PROVE  id \notin Named(form'[r])
    <3>1. PICK wanted :
            form' = [form EXCEPT ![q] = [form[q] EXCEPT !.services = requested, !.todo = wanted]]
      BY <2>4 DEF ResolveServices
    <3>2. id \notin Named([form[q] EXCEPT !.services = requested, !.todo = wanted])
      BY <2>1 DEF Named, Forms
    <3>3. QED
      BY <1>3, <3>1, <3>2
  <2>5. ASSUME NEW p \in Products, ResolveProduct(q, p) PROVE id \notin Named(form'[r])
    <3>1. form' = [form EXCEPT ![q] = [form[q] EXCEPT !.products = @ \cup {p}, !.todo = @ \ {p}]]
      BY <2>5 DEF ResolveProduct
    <3>2. id \notin Named([form[q] EXCEPT !.products = @ \cup {p}, !.todo = @ \ {p}])
      BY <1>1, <2>1, <2>5 DEF ResolveProduct, Named, Forms
    <3>3. QED
      BY <1>3, <3>1, <3>2
  <2>6. CASE Create(q) \/ Abandon(q)
    <3>1. id \notin Named(Blank) /\ form' = [form EXCEPT ![q] = Blank]
      BY <1>1, <2>6 DEF Create, Abandon, Named, Blank
    <3>2. QED
      BY <1>3, <3>1
  <2>7. QED
    BY <1>5, <2>2, <2>3, <2>4, <2>5, <2>6 DEF Open
<1>6. QED
  BY <1>4, <1>5 DEF Next, vars, openingVars

\* No order and no vehicle is added for it.
LEMMA RetiredGainsNothing ==
  ASSUME OpeningInv, [Next]_vars, NEW id \in Ids, Retired(id)
  PROVE  OrdersOf(id)' = OrdersOf(id) /\ VehiclesOf(id)' = VehiclesOf(id)
<1>1. OrdersOf(id)' = OrdersOf(id)
  <2>1. ASSUME NEW r \in Requests, Create(r) PROVE OrdersOf(id)' = OrdersOf(id)
    <3> DEFINE o == [customer |-> form[r].customer, vehicle |-> form[r].vehicle,
                     services |-> form[r].services, products |-> form[r].products]
    <3>1. orders \in Seq(Orders) /\ orders' = Append(orders, o)
      BY <2>1 DEF Create, OpeningInv
    <3>2. id \notin {o.customer, o.vehicle} \cup o.products
      BY DEF Retired
    <3> HIDE DEF o
    <3>3. /\ DOMAIN orders' = DOMAIN orders \cup {Len(orders) + 1}
          /\ \A n \in DOMAIN orders : orders'[n] = orders[n]
          /\ orders'[Len(orders) + 1] = o
      BY <3>1
    <3>4. QED
      BY <3>2, <3>3 DEF OrdersOf
  <2>2. CASE UNCHANGED orders
    BY <2>2 DEF OrdersOf
  <2>3. QED
    BY <2>1, <2>2 DEF Next, Open, ResolveCustomer, ResolveVehicle, ResolveServices,
                      ResolveProduct, Abandon, vars, openingVars
<1>2. VehiclesOf(id)' = VehiclesOf(id)
  <2> SUFFICES \A v \in Vehicles : rows'[v].owner = id <=> rows[v].owner = id
    BY DEF VehiclesOf
  <2>1. CASE UNCHANGED rows
    BY <2>1
  <2>2. ASSUME NEW r \in Requests, Save(r)
        PROVE  \A v \in Vehicles : rows'[v].owner = id <=> rows[v].owner = id
    <3>1. /\ job[r].id \in Ids
          /\ rows' = [rows EXCEPT ![job[r].id] = job[r].row]
          /\ Registered(job[r].id) => job[r].row.owner = rows[job[r].id].owner
      BY <2>2 DEF Save, OpeningInv, HeldRow, Writing
    <3>2. ~ Registered(job[r].id) => job[r].row.owner # id /\ rows[job[r].id].owner # id
      <4>1. job[r].row.owner = id => Registered(job[r].id)
        BY DEF Retired
      <4>2. Absent.owner = NoId /\ id # NoId
        BY NothingAssumption DEF Absent
      <4>3. QED
        BY <4>1, <4>2 DEF Registered
    <3>3. /\ rows'[job[r].id].owner = job[r].row.owner
          /\ \A v \in Ids \ {job[r].id} : rows'[v] = rows[v]
      BY <3>1 DEF OpeningInv, RowsOK
    <3>4. QED
      BY <3>1, <3>2, <3>3 DEF Ids
  <2>3. ASSUME NEW s \in Services, DeactivateService(s)
        PROVE  \A v \in Vehicles : rows'[v].owner = id <=> rows[v].owner = id
    BY <2>3 DEF DeactivateService, OpeningInv, RowsOK, Rows, Ids
  <2>4. QED
    BY <2>1, <2>2, <2>3, RowsWrittenBy
<1>3. QED
  BY <1>1, <1>2

\* Once the requests that were under way at a deactivation have ended, the row
\* stays inactive and nothing more is opened or registered for it.
THEOREM RetiredAlwaysForGood == Spec => RetiredForGood
<1>1. OpeningInv /\ [Next]_vars =>
        [\A id \in Customers \cup Vehicles \cup Products :
            Retired(id) =>
                /\ Retired(id)'
                /\ OrdersOf(id)' = OrdersOf(id)
                /\ VehiclesOf(id)' = VehiclesOf(id)]_vars
  <2> SUFFICES ASSUME OpeningInv, [Next]_vars,
                      NEW id \in Customers \cup Vehicles \cup Products, Retired(id)
               PROVE  /\ Retired(id)'
                      /\ OrdersOf(id)' = OrdersOf(id)
                      /\ VehiclesOf(id)' = VehiclesOf(id)
    OBVIOUS
  <2>1. id \in Ids
    BY DEF Ids
  <2>2. Registered(id)' /\ ~ rows'[id].active
    BY <2>1, RetiredRowStays
  <2>3. \A r \in Requests : Harmless(r, id)' /\ id \notin Named(form'[r])
    BY <2>1, RetiredJobsStay, RetiredIsNotNamed
  <2>4. Retired(id)'
    BY <2>2, <2>3 DEF Retired, Harmless, Named
  <2>5. QED
    BY <2>1, <2>4, RetiredGainsNothing
<1>2. QED
  BY <1>1, OpeningInvariant, PTL DEF Spec, RetiredForGood
=============================================================================
