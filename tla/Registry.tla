------------------------------ MODULE Registry ------------------------------
(***************************************************************************)
(* The registration data of the workshop: customers, vehicles, products    *)
(* and services, and the requests that register, edit and deactivate them. *)
(*                                                                         *)
(* Customers, vehicles and products are read as a whole, changed in        *)
(* memory and written back as a whole by one UPDATE that asks for nothing  *)
(* but the id.  Services are changed by UPDATEs of single columns.         *)
(* Whether a document, plate or code is taken is asked before the INSERT   *)
(* or UPDATE; a unique index asks again.  Every statement commits on its   *)
(* own, so it is one step here.                                            *)
(*                                                                         *)
(* Of a row this module keeps what a rule is about: the key (document,     *)
(* plate or code), the owner of a vehicle and the status.  Names, phone    *)
(* numbers and prices are left out, and with them the customer's e-mail,   *)
(* a second unique key that nobody asks for in advance.                    *)
(***************************************************************************)
EXTENDS Integers, FiniteSets

CONSTANTS
    Requests,                                 \* requests in flight
    Customers, Vehicles, Products, Services,  \* ids a row can get
    Keys,                                     \* documents, plates and codes
    NoKey, NoId

Ids == Customers \cup Vehicles \cup Products \cup Services

ASSUME IdsAssumption ==
    /\ Customers \cap Vehicles = {} /\ Customers \cap Products = {}
    /\ Customers \cap Services = {} /\ Vehicles \cap Products = {}
    /\ Vehicles \cap Services = {} /\ Products \cap Services = {}
ASSUME NothingAssumption == NoKey \notin Keys /\ NoId \notin Ids

VARIABLES
    rows,  \* the committed rows by id
    at,    \* the step each request takes next
    job    \* the id and the row each request is about to write

registryVars == <<rows, at, job>>
-----------------------------------------------------------------------------
Absent == [key |-> NoKey, owner |-> NoId, active |-> FALSE]

NoJob == [id |-> NoId, row |-> Absent]

Registered(id) == rows[id] # Absent

Table(id) ==
    CHOOSE t \in {Customers, Vehicles, Products, Services} : id \in t

\* The unique index of the table holds the key for another row.
Taken(key, id) == \E x \in Table(id) \ {id} : rows[x].key = key

RegistryInit ==
    /\ rows = [id \in Ids |-> Absent]
    /\ at = [r \in Requests |-> "idle"]
    /\ job = [r \in Requests |-> NoJob]

Goto(r, step) == at' = [at EXCEPT ![r] = step]

Return(r) ==
    /\ Goto(r, "idle")
    /\ job' = [job EXCEPT ![r] = NoJob]

\* The request goes on with a row to be written.
Hold(r, id, row, step) ==
    /\ at[r] = "idle"
    /\ Goto(r, step)
    /\ job' = [job EXCEPT ![r] = [id |-> id, row |-> row]]
    /\ UNCHANGED rows
-----------------------------------------------------------------------------
(* Registration.                                                           *)

\* A new UUID is no row's and no other request's.
Fresh(id) == ~ Registered(id) /\ \A r \in Requests : job[r].id # id

\* A new row is always ACTIVE.
Row(key, owner) == [key |-> key, owner |-> owner, active |-> TRUE]

NewCustomer(r, id, document) ==
    /\ Fresh(id)
    /\ Hold(r, id, Row(document, NoId), "unique")

\* Faulty variant: it is enough that the owner exists.
NewVehicleOfAnyCustomer(r, id, plate, owner) ==
    /\ Fresh(id)
    /\ Registered(owner)
    /\ Hold(r, id, Row(plate, owner), "unique")

\* The owner exists and is ACTIVE when it is read.
NewVehicle(r, id, plate, owner) ==
    /\ Fresh(id)
    /\ rows[owner].active
    /\ Hold(r, id, Row(plate, owner), "unique")

\* Only a code that the caller supplies is asked for in advance.  One that the
\* column's sequence generates may be taken as well, because supplied codes do
\* not advance the sequence; which codes the sequence has used is not kept.
NewProduct(r, id, code, supplied) ==
    /\ Fresh(id)
    /\ Hold(r, id, Row(code, NoId), IF supplied THEN "unique" ELSE "write")

\* The catalogue leaves the question to the index.
NewService(r, id, code) ==
    /\ Fresh(id)
    /\ Hold(r, id, Row(code, NoId), "write")

\* ExistsByDocument, ExistsByPlate, ExistsByCode.
CheckUnique(r) ==
    /\ at[r] = "unique"
    /\ ~ Taken(job[r].row.key, job[r].id)
    /\ Goto(r, "write")
    /\ UNCHANGED <<rows, job>>

\* The question in advance or the unique index finds the key.
RefuseDuplicate(r) ==
    /\ at[r] \in {"unique", "write"}
    /\ Taken(job[r].row.key, job[r].id)
    /\ Return(r)
    /\ UNCHANGED rows
-----------------------------------------------------------------------------
(* Edits and deactivation.                                                 *)

Loaded == Customers \cup Vehicles \cup Products

\* Update without a document: the columns that change are not modelled, the
\* others are written back as they were read.
Edit(r, id) ==
    /\ id \in Loaded /\ Registered(id)
    /\ Hold(r, id, rows[id], "write")

ChangeDocument(r, id, document) ==
    /\ id \in Customers /\ Registered(id)
    /\ Hold(r, id, [rows[id] EXCEPT !.key = document], "unique")

Deactivate(r, id) ==
    /\ id \in Loaded /\ Registered(id)
    /\ Hold(r, id, [rows[id] EXCEPT !.active = FALSE], "write")

\* DELETE of a service: one UPDATE of one column.
DeactivateService(id) ==
    /\ id \in Services /\ Registered(id)
    /\ rows' = [rows EXCEPT ![id].active = FALSE]
    /\ UNCHANGED <<at, job>>

\* Faulty variant: the unique indexes are missing.
SaveWithoutIndex(r) ==
    /\ at[r] = "write"
    /\ rows' = [rows EXCEPT ![job[r].id] = job[r].row]
    /\ Return(r)

\* The INSERT of a new row or the UPDATE of a loaded one.  Plate, owner and
\* code are not among the columns of an UPDATE, and no request changes its
\* copy of them.
Save(r) ==
    /\ at[r] = "write"
    /\ ~ Taken(job[r].row.key, job[r].id)
    /\ rows' = [rows EXCEPT ![job[r].id] = job[r].row]
    /\ Return(r)

\* The request ends for a reason outside the program.
Drop(r) ==
    /\ at[r] \in {"unique", "write"}
    /\ Return(r)
    /\ UNCHANGED rows

RegistryNext ==
    \/ \E r \in Requests :
        \/ \E id \in Customers, key \in Keys : NewCustomer(r, id, key)
        \/ \E id \in Vehicles, key \in Keys, owner \in Customers :
               NewVehicle(r, id, key, owner)
        \/ \E id \in Products, key \in Keys, supplied \in BOOLEAN :
               NewProduct(r, id, key, supplied)
        \/ \E id \in Services, key \in Keys : NewService(r, id, key)
        \/ CheckUnique(r) \/ RefuseDuplicate(r) \/ Save(r) \/ Drop(r)
        \/ \E id \in Ids : Edit(r, id) \/ Deactivate(r, id)
        \/ \E id \in Customers, key \in Keys : ChangeDocument(r, id, key)
    \/ \E id \in Services : DeactivateService(id)
-----------------------------------------------------------------------------
(* Properties.                                                             *)

\* A document, plate or code identifies one row of its table, active or not:
\* neither racing registrations nor a row written back from an old copy, with
\* a document that has been given away since, produce a second one.
KeysUnique ==
    \A x, y \in Ids :
        Registered(x) /\ Registered(y) /\ Table(x) = Table(y) /\ rows[x].key = rows[y].key
            => x = y
-----------------------------------------------------------------------------
(* What the documents say and the code does not keep.                      *)

\* Customers and vehicles are never reactivated automatically (the comments
\* on customers.status and vehicles.status).
NeverReactivated ==
    [][\A id \in Customers \cup Vehicles :
        Registered(id) /\ ~ rows[id].active => ~ rows'[id].active]_rows
=============================================================================
