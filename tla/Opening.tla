------------------------------ MODULE Opening -------------------------------
(***************************************************************************)
(* The opening of a service order, on top of the registry that it reads.   *)
(* A request resolves the customer, the vehicle, the requested services    *)
(* and the requested products with one statement each, while the rows      *)
(* behind it change, and commits one transaction: the order, its requested *)
(* items, the first entry of its trail and its tracking token, all or      *)
(* nothing: the order stands for them.                                     *)
(***************************************************************************)
EXTENDS Registry, Sequences

CONSTANTS MaxOrders  \* bound on the orders opened

ASSUME MaxOrdersAssumption == MaxOrders \in Nat

VARIABLES
    orders,  \* service_orders with their requested items, in commit order
    form     \* what the opening a request runs has resolved

openingVars == <<orders, form>>
vars == <<registryVars, openingVars>>

Blank == [customer |-> NoId, vehicle |-> NoId, services |-> {}, products |-> {}, todo |-> {}]

Init ==
    /\ RegistryInit
    /\ orders = <<>>
    /\ form = [r \in Requests |-> Blank]
-----------------------------------------------------------------------------
\* Faulty variant: an order without a vehicle is accepted.
ResolveCustomerOnly(r, c) ==
    /\ at[r] = "idle"
    /\ rows[c].active
    /\ Goto(r, "services")
    /\ form' = [form EXCEPT ![r].customer = c]
    /\ UNCHANGED <<rows, job, orders>>

\* By id or by document; a document names one customer.
ResolveCustomer(r, c) ==
    /\ at[r] = "idle"
    /\ rows[c].active
    /\ Goto(r, "vehicle")
    /\ form' = [form EXCEPT ![r].customer = c]
    /\ UNCHANGED <<rows, job, orders>>

\* Faulty variant: any active vehicle will do.
ResolveAnyVehicle(r, v) ==
    /\ at[r] = "vehicle"
    /\ rows[v].active
    /\ Goto(r, "services")
    /\ form' = [form EXCEPT ![r].vehicle = v]
    /\ UNCHANGED <<rows, job, orders>>

\* By id or by plate: ACTIVE and the customer's.
ResolveVehicle(r, v) ==
    /\ at[r] = "vehicle"
    /\ rows[v].active
    /\ rows[v].owner = form[r].customer
    /\ Goto(r, "services")
    /\ form' = [form EXCEPT ![r].vehicle = v]
    /\ UNCHANGED <<rows, job, orders>>

\* FindMissingServiceIDs: the services exist, deactivated or not.
ResolveServices(r, requested) ==
    /\ at[r] = "services"
    /\ \A s \in requested : Registered(s)
    /\ \E wanted \in SUBSET Products :
        /\ form' = [form EXCEPT ![r].services = requested, ![r].todo = wanted]
        /\ Goto(r, IF wanted = {} THEN "create" ELSE "products")
    /\ UNCHANGED <<rows, job, orders>>

\* FindActiveProductByID, one statement per requested product.
ResolveProduct(r, p) ==
    /\ at[r] = "products"
    /\ p \in form[r].todo
    /\ rows[p].active
    /\ form' = [form EXCEPT ![r].products = @ \cup {p}, ![r].todo = @ \ {p}]
    /\ Goto(r, IF form[r].todo = {p} THEN "create" ELSE "products")
    /\ UNCHANGED <<rows, job, orders>>

\* The request ends: something is unknown, inactive or another customer's, or
\* the reason lies outside the program.
Abandon(r) ==
    /\ at[r] \in {"vehicle", "services", "products", "create"}
    /\ Goto(r, "idle")
    /\ form' = [form EXCEPT ![r] = Blank]
    /\ UNCHANGED <<rows, job, orders>>

\* One transaction; it looks at none of the rows resolved before.  The
\* foreign keys hold because no row is ever deleted.
Create(r) ==
    /\ at[r] = "create"
    /\ Len(orders) < MaxOrders
    /\ orders' = Append(orders, [customer |-> form[r].customer, vehicle |-> form[r].vehicle,
                                 services |-> form[r].services, products |-> form[r].products])
    /\ Goto(r, "idle")
    /\ form' = [form EXCEPT ![r] = Blank]
    /\ UNCHANGED <<rows, job>>

Open(r) ==
    \/ \E c \in Customers : ResolveCustomer(r, c)
    \/ \E v \in Vehicles : ResolveVehicle(r, v)
    \/ \E requested \in SUBSET Services : ResolveServices(r, requested)
    \/ \E p \in Products : ResolveProduct(r, p)
    \/ Create(r) \/ Abandon(r)

Next ==
    \/ RegistryNext /\ UNCHANGED openingVars
    \/ \E r \in Requests : Open(r)

Spec == Init /\ [][Next]_vars
-----------------------------------------------------------------------------
(* Properties.                                                             *)

Steps == {"idle", "unique", "write", "vehicle", "services", "products", "create"}

Rows == [key : Keys \cup {NoKey}, owner : Customers \cup {NoId}, active : BOOLEAN]

\* Rows, half-finished requests and orders hold ids and keys of the right
\* kind; only a vehicle has an owner.
TypeOK ==
    /\ rows \in [Ids -> Rows]
    /\ at \in [Requests -> Steps]
    /\ job \in [Requests -> [id : Ids \cup {NoId}, row : Rows]]
    /\ form \in [Requests -> [customer : Customers \cup {NoId}, vehicle : Vehicles \cup {NoId},
                              services : SUBSET Services, products : SUBSET Products,
                              todo : SUBSET Products]]
    /\ orders \in Seq([customer : Customers, vehicle : Vehicles,
                       services : SUBSET Services, products : SUBSET Products])
    /\ \A id \in Ids : Registered(id) => rows[id].key \in Keys
    /\ \A id \in Ids \ Vehicles : rows[id].owner = NoId

\* An order is opened for registered rows only, and its vehicle belongs to its
\* customer, now and ever after: the three were read at different moments,
\* and vehicles are edited and deactivated all the while.
OrdersNameOwnVehicle ==
    \A n \in DOMAIN orders :
        /\ rows[orders[n].vehicle].owner = orders[n].customer
        /\ \A id \in {orders[n].customer} \cup orders[n].services \cup orders[n].products :
               Registered(id)

\* A deactivated row that no request under way has read while it was active.
Retired(id) ==
    /\ Registered(id) /\ ~ rows[id].active
    /\ \A r \in Requests :
        /\ ~ (job[r].id = id /\ job[r].row.active)
        /\ ~ (job[r].row.owner = id /\ ~ Registered(job[r].id))
        /\ id \notin {form[r].customer, form[r].vehicle} \cup form[r].products

OrdersOf(id) ==
    {n \in DOMAIN orders : id \in {orders[n].customer, orders[n].vehicle} \cup orders[n].products}

VehiclesOf(c) == {v \in Vehicles : rows[v].owner = c}

\* How much of "never reactivated" and of "only for ACTIVE customers, vehicles
\* and products" the code keeps: once the requests that were under way at the
\* deactivation have ended, the row stays inactive, no order names it and no
\* vehicle is registered for it any more.
RetiredForGood ==
    [][\A id \in Customers \cup Vehicles \cup Products :
        Retired(id) =>
            /\ Retired(id)'
            /\ OrdersOf(id)' = OrdersOf(id)
            /\ VehiclesOf(id)' = VehiclesOf(id)]_vars
=============================================================================
