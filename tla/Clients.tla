-------------------------------- MODULE Clients --------------------------------
(***************************************************************************)
(* The customers of a workshop, their vehicles and their way into the      *)
(* customer portal.  Phones are unique by a query before the write, since  *)
(* no index of the database says so; the portal looks a customer up by     *)
(* phone and takes the first row.  Imports leave out what is there.        *)
(***************************************************************************)
EXTENDS Naturals, FiniteSets, Functions

CONSTANTS
  Customers, Vehicles, \* ids of rows
  Phones,              \* phones of ten digits or more, by the last ten
  Loose,               \* phones with fewer digits, which no query looks for
  Plates,              \* registration numbers without spaces and dashes
  Workers,             \* requests that can be in progress at once
  None,
  MaxBatch,            \* bound: rows of an import
  MaxRequests          \* bound: requests; numbers the passwords

ClientsAssumption ==
  /\ IsFiniteSet(Customers) /\ IsFiniteSet(Vehicles)
  /\ Phones \cap Loose = {}
  /\ None \notin Customers \cup Phones \cup Loose \cup Plates \cup Nat
  /\ MaxBatch \in Nat /\ MaxRequests \in Nat

VARIABLES
  customer,  \* Customer rows
  vehicle,   \* Vehicle rows
  session,   \* customers with a token of the portal
  task,      \* the request of each worker
  told,      \* by customer: the phone and the password they were sent or chose
  overtaken, \* workers whose phones or plates were written since they looked
  raced,     \* customers written by such a worker, or by two requests at once
  imported,  \* vehicles of an import nothing overtook, not written since
  requests   \* how many there were

vars == <<customer, vehicle, session, task, told, overtaken, raced, imported, requests>>

-----------------------------------------------------------------------------
Numbers == 1..MaxRequests

Customer == [phone: Phones \cup Loose, password: Numbers \cup {None}, active: BOOLEAN]
NoCustomer == [phone |-> None, password |-> None, active |-> FALSE]
Vehicle == [owner: Customers, plate: Plates]
NoVehicle == [owner |-> None, plate |-> None]

There(c) == customer[c] # NoCustomer
Parked(v) == vehicle[v] # NoVehicle

\* Of the rows of an import those that are kept stay, by their place in it: the
\* phones or vehicles that will be written.  Those of a snapshot are in fleet.
Kept(S) == UNION {[places -> S] : places \in SUBSET (1..MaxBatch)}
Task == [at: {"idle", "create", "update", "send", "own", "drop", "customers", "vehicles", "replace"},
         who: Customers \cup {None}, phone: Phones \cup Loose \cup {None},
         password: Numbers \cup {None}, active: BOOLEAN,
         rows: Kept(Phones \cup Vehicle),
         fleet: [Vehicles -> Vehicle \cup {NoVehicle}]]
NoTask == [at |-> "idle", who |-> None, phone |-> None, password |-> None, active |-> TRUE,
           rows |-> <<>>, fleet |-> [v \in Vehicles |-> NoVehicle]]

TypeOK ==
  /\ customer \in [Customers -> Customer \cup {NoCustomer}]
  /\ vehicle \in [Vehicles -> Vehicle \cup {NoVehicle}]
  /\ session \subseteq Customers
  /\ task \in [Workers -> Task]
  /\ told \in [Customers -> [phone: Phones \cup Loose, password: Numbers] \cup {None}]
  /\ overtaken \subseteq Workers
  /\ raced \subseteq Customers
  /\ imported \subseteq Vehicles
  /\ requests \in 0..MaxRequests

Init ==
  /\ customer = [c \in Customers |-> NoCustomer]
  /\ vehicle = [v \in Vehicles |-> NoVehicle]
  /\ session = {} /\ told = [c \in Customers |-> None]
  /\ task = [w \in Workers |-> NoTask]
  /\ overtaken = {} /\ raced = {} /\ imported = {}
  /\ requests = 0

At(w, step) == task[w].at = step
Who(w) == task[w].who
Request(w) == At(w, "idle") /\ requests < MaxRequests /\ requests' = requests + 1
Fresh == requests + 1
Return(w) == task' = [task EXCEPT ![w] = NoTask]

\* The workers that write phones, or plates, they looked for before this write.
Awaiting(written) ==
  {w \in Workers : \/ task[w].at \in {"create", "update"} /\ task[w].phone \in written
                   \/ \E i \in DOMAIN task[w].rows :
                        LET row == task[w].rows[i]
                        IN  (IF At(w, "customers") THEN row ELSE row.plate) \in written}
Overtakes(w, written) == overtaken' = (overtaken \cup Awaiting(written)) \ {w}
Ends(w) == overtaken' = overtaken \ {w}

-----------------------------------------------------------------------------
(* Customers.                                                              *)

Busy(c) == \E w \in Workers : Who(w) = c
\* Ids are random: a new one is not that of a customer some request is about.
NewIds == {c \in Customers : ~There(c) /\ ~Busy(c)}

\* The query of createCustomer and updateCustomer, for ten digits only.
Clash(phone, own) == phone \in Phones /\ \E c \in Customers \ {own} : customer[c].phone = phone

PostCustomer(w, phone) ==
  /\ Request(w)
  /\ ~Clash(phone, None)
  /\ task' = [task EXCEPT ![w] = [NoTask EXCEPT !.at = "create", !.phone = phone, !.password = Fresh]]
  /\ UNCHANGED <<customer, vehicle, session, told, overtaken, raced, imported>>

\* After the hash of the password.  One that was generated is sent; one that
\* the administrator has chosen is not.
CreateCustomer(w, c, generated) ==
  /\ At(w, "create") /\ c \in NewIds
  /\ customer' = [customer EXCEPT ![c] =
                    [phone |-> task[w].phone, password |-> task[w].password, active |-> TRUE]]
  /\ raced' = IF w \in overtaken THEN raced \cup {c} ELSE raced
  /\ Overtakes(w, {task[w].phone})
  /\ IF generated THEN task' = [task EXCEPT ![w].at = "send", ![w].who = c] ELSE Return(w)
  /\ UNCHANGED <<vehicle, session, told, imported, requests>>

\* Any of the phone, the password and isInactive, each or none.
PutCustomer(w, c, phone, reset, active) ==
  /\ Request(w)
  /\ phone # None => ~Clash(phone, c)
  /\ There(c)
  /\ task' = [task EXCEPT ![w] = [NoTask EXCEPT !.at = "update", !.who = c, !.phone = phone,
                !.password = IF reset THEN Fresh ELSE None, !.active = active]]
  /\ raced' = IF Busy(c) THEN raced \cup {c} ELSE raced
  /\ UNCHANGED <<customer, vehicle, session, told, overtaken, imported>>

\* The update of a row that is gone throws.
UpdateCustomer(w) ==
  LET c == Who(w)
      t == task[w]
      phone == IF t.phone = None THEN customer[c].phone ELSE t.phone
      password == IF t.password = None THEN customer[c].password ELSE t.password
  IN  /\ At(w, "update")
      /\ IF There(c)
           THEN /\ customer' = [customer EXCEPT ![c] =
                                  [phone |-> phone, password |-> password, active |-> t.active]]
                /\ raced' = IF w \in overtaken THEN raced \cup {c} ELSE raced
                /\ Overtakes(w, {t.phone} \ {None})
                /\ IF t.password # None
                     THEN /\ task' = [task EXCEPT ![w].at = "send", ![w].phone = phone]
                          /\ told' = [told EXCEPT ![c] = None]
                     ELSE Return(w) /\ told' = told
           ELSE Return(w) /\ Ends(w) /\ UNCHANGED <<customer, raced, told>>
      /\ UNCHANGED <<vehicle, session, imported, requests>>

\* sendCustomerCredentialsWhatsApp: sent, failed or not configured; the answer
\* tells, and nothing is tried again.
SendCredentials(w, sent) ==
  /\ At(w, "send")
  /\ told' = IF sent /\ There(Who(w))
               THEN [told EXCEPT ![Who(w)] = [phone |-> task[w].phone, password |-> task[w].password]]
               ELSE told
  /\ Return(w)
  /\ UNCHANGED <<customer, vehicle, session, overtaken, raced, imported, requests>>

\* deleteCustomer: the vehicles in a statement of their own, then the customer
\* with those that have come since.
DeleteCustomer(w, c) ==
  /\ Request(w)
  /\ There(c)
  /\ vehicle' = [v \in Vehicles |-> IF vehicle[v].owner = c THEN NoVehicle ELSE vehicle[v]]
  /\ imported' = {v \in imported : vehicle[v].owner # c}
  /\ task' = [task EXCEPT ![w] = [NoTask EXCEPT !.at = "drop", !.who = c]]
  /\ UNCHANGED <<customer, session, told, overtaken, raced>>

DropCustomer(w) ==
  LET c == Who(w) IN
  /\ At(w, "drop")
  /\ customer' = [customer EXCEPT ![c] = NoCustomer]
  /\ vehicle' = [v \in Vehicles |-> IF vehicle[v].owner = c THEN NoVehicle ELSE vehicle[v]]
  /\ imported' = {v \in imported : vehicle[v].owner # c}
  /\ session' = session \ {c} /\ told' = [told EXCEPT ![c] = None] /\ raced' = raced \ {c}
  /\ Return(w)
  /\ UNCHANGED <<overtaken, requests>>

\* With a bug: an import is compared with what is stored only.
NotStored(keys, known) == {i \in DOMAIN keys : keys[i] \notin known}
\* The rows of an import that are new: neither known nor the key of one before.
NewRows(keys, known) ==
  {i \in DOMAIN keys : keys[i] \notin known /\ \A j \in 1..(i - 1) : keys[j] # keys[i]}

\* createCustomersBulk reads every phone, then writes what is left in one
\* statement, without a password.
BulkCustomers(w, phones) ==
  LET known == {customer[c].phone : c \in Customers} \cup Loose
      picks == NewRows(phones, known)
  IN  /\ Request(w)
      /\ picks # {}
      /\ task' = [task EXCEPT ![w] = [NoTask EXCEPT !.at = "customers", !.rows = Restrict(phones, picks)]]
      /\ UNCHANGED <<customer, vehicle, session, told, overtaken, raced, imported>>

CreateCustomers(w, ids) ==
  LET phones == task[w].rows IN
  /\ At(w, "customers")
  /\ ids \in Injection(DOMAIN phones, NewIds)
  /\ customer' = [c \in Customers |-> IF c \in Range(ids)
                    THEN [phone |-> phones[AntiFunction(ids)[c]], password |-> None, active |-> TRUE]
                    ELSE customer[c]]
  /\ raced' = IF w \in overtaken THEN raced \cup Range(ids) ELSE raced
  /\ Overtakes(w, Range(phones))
  /\ Return(w)
  /\ UNCHANGED <<vehicle, session, told, imported, requests>>

-----------------------------------------------------------------------------
(* The portal.                                                             *)

\* authenticateCustomer: a row with the phone, and with a password.
PortalLogin(c) ==
  /\ customer[c].phone \in Phones
  /\ customer[c].active /\ customer[c].password # None
  /\ session' = session \cup {c} /\ c \notin session
  /\ UNCHANGED <<customer, vehicle, task, told, overtaken, raced, imported, requests>>

\* setCustomerPassword: the old one is compared, the new one hashed and written.
SetPassword(w, c) ==
  /\ Request(w)
  /\ c \in session /\ customer[c].password # None
  /\ task' = [task EXCEPT ![w] = [NoTask EXCEPT !.at = "own", !.who = c, !.password = Fresh]]
  /\ raced' = IF Busy(c) THEN raced \cup {c} ELSE raced
  /\ UNCHANGED <<customer, vehicle, session, told, overtaken, imported>>

WritePassword(w) ==
  LET c == Who(w)
      password == task[w].password
  IN  /\ At(w, "own")
      /\ IF There(c)
           THEN /\ customer' = [customer EXCEPT ![c].password = password]
                /\ told' = [told EXCEPT ![c] = [phone |-> customer[c].phone, password |-> password]]
           ELSE UNCHANGED <<customer, told>>
      /\ Return(w)
      /\ UNCHANGED <<vehicle, session, overtaken, raced, imported, requests>>

-----------------------------------------------------------------------------
(* Vehicles.                                                               *)

\* postVehicle, putVehicle: the customer exists; no plate is looked for.
SaveVehicle(w, v, row) ==
  /\ Request(w)
  /\ There(row.owner)
  /\ vehicle' = [vehicle EXCEPT ![v] = row]
  /\ imported' = imported \ {v}
  /\ Overtakes(w, {row.plate})
  /\ UNCHANGED <<customer, session, task, told, raced>>

RemoveVehicle(w, v) ==
  /\ Request(w)
  /\ Parked(v)
  /\ vehicle' = [vehicle EXCEPT ![v] = NoVehicle]
  /\ imported' = imported \ {v}
  /\ UNCHANGED <<customer, session, task, told, overtaken, raced>>

\* With a bug: an import is compared with its own rows only.
NoPlates == {}
StoredPlates == {vehicle[v].plate : v \in Vehicles} \ {None}

\* createVehiclesBulk: rows without a customer and known plates are left out.
BulkVehicles(w, rows) ==
  LET plates == [i \in DOMAIN rows |-> IF There(rows[i].owner) THEN rows[i].plate ELSE None]
      picks == NewRows(plates, StoredPlates \cup {None})
  IN  /\ Request(w)
      /\ picks # {}
      /\ task' = [task EXCEPT ![w] = [NoTask EXCEPT !.at = "vehicles", !.rows = Restrict(rows, picks)]]
      /\ UNCHANGED <<customer, vehicle, session, told, overtaken, raced, imported>>

\* All of them or, when a customer is gone, none.
CreateVehicles(w, ids) ==
  LET rows == task[w].rows IN
  /\ At(w, "vehicles")
  /\ ids \in Injection(DOMAIN rows, {v \in Vehicles : ~Parked(v)})
  /\ IF \A i \in DOMAIN rows : There(rows[i].owner)
       THEN /\ vehicle' = [v \in Vehicles |-> IF v \in Range(ids) THEN rows[AntiFunction(ids)[v]]
                                              ELSE vehicle[v]]
            /\ imported' = IF w \in overtaken THEN imported ELSE imported \cup Range(ids)
            /\ Overtakes(w, {rows[i].plate : i \in DOMAIN rows})
       ELSE Ends(w) /\ UNCHANGED <<vehicle, imported>>
  /\ Return(w)
  /\ UNCHANGED <<customer, session, told, raced, requests>>

\* postVehicleSnapshot: an empty one is refused when there are vehicles.
PostSnapshot(w, fleet) ==
  /\ Request(w)
  /\ (\A v \in Vehicles : fleet[v] = NoVehicle) => \A v \in Vehicles : ~Parked(v)
  /\ task' = [task EXCEPT ![w] = [NoTask EXCEPT !.at = "replace", !.fleet = fleet]]
  /\ UNCHANGED <<customer, vehicle, session, told, overtaken, raced, imported>>

\* replaceAllVehiclesApi: one transaction.
ReplaceVehicles(w) ==
  LET fleet == task[w].fleet IN
  /\ At(w, "replace")
  /\ IF \A v \in Vehicles : fleet[v] # NoVehicle => There(fleet[v].owner)
       THEN /\ vehicle' = fleet /\ imported' = {}
            /\ Overtakes(w, {fleet[v].plate : v \in Vehicles} \ {None})
       ELSE UNCHANGED <<vehicle, imported, overtaken>>
  /\ Return(w)
  /\ UNCHANGED <<customer, session, told, raced, requests>>

\* A query fails, or the server stops.
Fail(w) ==
  /\ ~At(w, "idle")
  /\ Return(w) /\ Ends(w)
  /\ UNCHANGED <<customer, vehicle, session, told, raced, imported, requests>>

Batches(S) == UNION {[1..n -> S] : n \in 1..MaxBatch}
Fleets == [Vehicles -> Vehicle \cup {NoVehicle}]

Next ==
  \E w \in Workers :
    \/ \E phone \in Phones \cup Loose : PostCustomer(w, phone)
    \/ \E c \in Customers :
         \/ \E phone \in Phones \cup Loose \cup {None}, reset, active \in BOOLEAN :
              PutCustomer(w, c, phone, reset, active)
         \/ \E generated \in BOOLEAN : CreateCustomer(w, c, generated)
         \/ DeleteCustomer(w, c) \/ SetPassword(w, c) \/ PortalLogin(c)
    \/ \E phones \in Batches(Phones \cup Loose) : BulkCustomers(w, phones)
    \/ \E ids \in [DOMAIN task[w].rows -> Customers] : CreateCustomers(w, ids)
    \/ \E sent \in BOOLEAN : SendCredentials(w, sent)
    \/ \E v \in Vehicles : RemoveVehicle(w, v) \/ \E row \in Vehicle : SaveVehicle(w, v, row)
    \/ \E rows \in Batches(Vehicle) : BulkVehicles(w, rows)
    \/ \E ids \in [DOMAIN task[w].rows -> Vehicles] : CreateVehicles(w, ids)
    \/ \E fleet \in Fleets : PostSnapshot(w, fleet)
    \/ UpdateCustomer(w) \/ DropCustomer(w) \/ WritePassword(w) \/ ReplaceVehicles(w) \/ Fail(w)

Spec == Init /\ [][Next]_vars

-----------------------------------------------------------------------------
(* Properties.                                                             *)

\* A customer who was sent, or has chosen, the password for a phone that is
\* still his gets in with them: it is the stored one, and the portal finds no
\* other row by that phone.  Left out are rows written by a request that had
\* looked for the phone before another one wrote it, and customers with two
\* requests at once.
PortalOpens ==
  \A c \in Customers \ raced :
    /\ told[c] # None /\ told[c].phone = customer[c].phone /\ ~Busy(c)
         => told[c].password = customer[c].password
    /\ \A d \in Customers \ raced : c # d /\ customer[c].phone \in Phones
                                      => customer[c].phone # customer[d].phone

\* An import adds no vehicle with the plate of another one it adds, or of one
\* an earlier import has added: they stay apart until they are saved one by one.
ImportsStayApart ==
  \A u, v \in imported : u # v => vehicle[u].plate # vehicle[v].plate

=============================================================================
