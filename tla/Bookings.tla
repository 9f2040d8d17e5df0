------------------------------- MODULE Bookings -------------------------------
(***************************************************************************)
(* Appointments, their rows in the Appointment table, and the requests to  *)
(* pick a vehicle up and to bring it back.  One save of an appointment is  *)
(* up to six writes in as many transactions; the server may stop between   *)
(* any two of them, and drivers work on the requests all the while.        *)
(***************************************************************************)
EXTENDS Naturals, FiniteSets

CONSTANTS
  Appointments, \* ids of appointments
  Workers,      \* requests that can be in progress at once
  None,
  MaxRequests   \* bound: requests, driver's updates and failures

BookingsAssumption ==
  /\ IsFiniteSet(Appointments)
  /\ None \notin Appointments
  /\ MaxRequests \in Nat

VARIABLES
  document,  \* the appointments collection: "none", or its vehiclePickupRequired
  row,       \* the Appointment table, the same field
  leg,       \* the pickupDropRequests collection: "none", "PENDING" or "DONE"
  task,      \* what each worker is doing
  disturbed, \* appointments of overlapping, interrupted or special requests
  arrived,   \* legs a driver has finished and nobody has withdrawn
  requests   \* how many there were

vars == <<document, row, leg, task, disturbed, arrived, requests>>

-----------------------------------------------------------------------------
(* Documents and requests.                                                 *)

\* The ids pnd-pickup-<appointment> and pnd-drop-<appointment>.
Legs == {"PICKUP", "DROP_OFF"}

\* vehiclePickupRequired.
Required == {"true", "false", "null"}
Stored == Required \cup {"none"}
NoneStored == [a \in Appointments |-> "none"]

\* What a client sends: the field may be missing.
Payloads == Required \cup {"undefined"}

Task == [at: {"idle", "store", "mirror", "look", "write", "clear", "unmirror", "replace", "rows"},
         appointment: Appointments \cup {None},
         required: Stored, previous: Stored,
         todo: SUBSET Legs, found: {"none", "PENDING", "DONE"},
         items: [Appointments -> Stored]]
NoTask == [at |-> "idle", appointment |-> None, required |-> "none", previous |-> "none",
           todo |-> {}, found |-> "none", items |-> NoneStored]

At(w, step) == task[w].at = step
Of(w) == task[w].appointment

\* The appointments a worker is about to write.
Touches(w) == IF At(w, "idle") THEN {}
              ELSE IF At(w, "replace") \/ At(w, "rows") THEN Appointments ELSE {Of(w)}

TypeOK ==
  /\ document \in [Appointments -> Stored]
  /\ row \in [Appointments -> Stored]
  /\ leg \in [Appointments -> [Legs -> {"none", "PENDING", "DONE"}]]
  /\ task \in [Workers -> Task]
  /\ disturbed \subseteq Appointments
  /\ arrived \subseteq Appointments \X Legs
  /\ requests \in 0..MaxRequests

Init ==
  /\ document = NoneStored /\ row = NoneStored
  /\ leg = [a \in Appointments |-> [l \in Legs |-> "none"]]
  /\ task = [w \in Workers |-> NoTask]
  /\ disturbed = {} /\ arrived = {}
  /\ requests = 0

Request == requests < MaxRequests /\ requests' = requests + 1
Goto(w, step) == task' = [task EXCEPT ![w].at = step]
Return(w) == task' = [task EXCEPT ![w] = NoTask]

\* Two requests on one appointment at once: what they read may be out of date.
Overlaps(a) == IF \E w \in Workers : a \in Touches(w) THEN {a} ELSE {}

-----------------------------------------------------------------------------
(* Saving an appointment.                                                  *)

\* A missing field keeps what was stored; null does not.
normalizeAppointmentPayload(payload, previous) ==
  IF payload # "undefined" THEN payload
  ELSE IF previous = "none" THEN "null" ELSE previous

\* upsertAppointment: the stored appointment is read.  A null over TRUE keeps
\* the requests, which no later save removes.
PutAppointment(w, a, payload) ==
  /\ At(w, "idle") /\ Request
  /\ LET required == normalizeAppointmentPayload(payload, document[a])
     IN  task' = [task EXCEPT ![w] = [NoTask EXCEPT !.at = "store", !.appointment = a,
                                        !.required = required, !.previous = document[a]]]
  /\ disturbed' = disturbed \cup Overlaps(a) \cup (IF payload = "null" THEN {a} ELSE {})
  /\ UNCHANGED <<document, row, leg, arrived>>

StoreDocument(w) ==
  /\ At(w, "store")
  /\ document' = [document EXCEPT ![Of(w)] = task[w].required]
  /\ Goto(w, "mirror")
  /\ UNCHANGED <<row, leg, disturbed, arrived, requests>>

\* upsertAppointmentRow, and what syncPickupDropRequest will do.
StoreRow(w) ==
  /\ At(w, "mirror")
  /\ row' = [row EXCEPT ![Of(w)] = task[w].required]
  /\ \/ task[w].required = "true"
        /\ task' = [task EXCEPT ![w].at = "look", ![w].todo = Legs]
     \/ task[w].required = "false" /\ task[w].previous = "true"
        /\ task' = [task EXCEPT ![w].at = "clear", ![w].todo = Legs]
     \/ task[w].required # "true" /\ ~(task[w].required = "false" /\ task[w].previous = "true")
        /\ Return(w)
  /\ UNCHANGED <<document, leg, disturbed, arrived, requests>>

\* The pickup first, then the drop.
NextLeg(w) == IF "PICKUP" \in task[w].todo THEN "PICKUP" ELSE "DROP_OFF"
\* With a bug: the drop is forgotten.
PickupOnly(w) == {}
LegDone(w) == task[w].todo \ {NextLeg(w)}

LookAtLeg(w) ==
  /\ At(w, "look")
  /\ task' = [task EXCEPT ![w].at = "write", ![w].found = leg[Of(w)][NextLeg(w)]]
  /\ UNCHANGED <<document, row, leg, disturbed, arrived, requests>>

\* existingPickup?.status ?? "PENDING"
KeptStatus(found) == IF found = "none" THEN "PENDING" ELSE found

\* A driver's update since the look is overwritten.
WriteLeg(w) ==
  /\ At(w, "write")
  /\ leg' = [leg EXCEPT ![Of(w)][NextLeg(w)] = KeptStatus(task[w].found)]
  /\ arrived' = IF task[w].found = leg[Of(w)][NextLeg(w)] THEN arrived
                ELSE arrived \ {<<Of(w), NextLeg(w)>>}
  /\ IF LegDone(w) = {} THEN Return(w)
       ELSE task' = [task EXCEPT ![w].at = "look", ![w].todo = LegDone(w)]
  /\ UNCHANGED <<document, row, disturbed, requests>>

\* deleteCollectionItem of one of the two, when they are no longer required and
\* when the appointment is deleted.
ClearLeg(w) ==
  /\ At(w, "clear")
  /\ leg' = [leg EXCEPT ![Of(w)][NextLeg(w)] = "none"]
  /\ arrived' = arrived \ {<<Of(w), NextLeg(w)>>}
  /\ IF LegDone(w) # {} THEN task' = [task EXCEPT ![w].todo = LegDone(w)]
     ELSE IF task[w].required = "none" THEN Goto(w, "unmirror")
     ELSE Return(w)
  /\ UNCHANGED <<document, row, disturbed, requests>>

-----------------------------------------------------------------------------
(* Deleting an appointment, replacing all of them.                         *)

DeleteAppointment(w, a) ==
  /\ At(w, "idle") /\ Request
  /\ document[a] # "none"
  /\ document' = [document EXCEPT ![a] = "none"]
  /\ task' = [task EXCEPT ![w] = [NoTask EXCEPT !.at = "clear", !.appointment = a, !.todo = Legs]]
  /\ disturbed' = disturbed \cup Overlaps(a)
  /\ UNCHANGED <<row, leg, arrived>>

DeleteRow(w) ==
  /\ At(w, "unmirror")
  /\ row' = [row EXCEPT ![Of(w)] = "none"]
  /\ Return(w)
  /\ UNCHANGED <<document, leg, disturbed, arrived, requests>>

\* replaceAppointments: the legs are not looked at, rows of appointments that
\* are gone stay.
PostSnapshot(w, payloads) ==
  /\ At(w, "idle") /\ Request
  /\ task' = [task EXCEPT ![w] = [NoTask EXCEPT !.at = "replace", !.items =
       [a \in Appointments |-> IF payloads[a] = "none" THEN "none"
                               ELSE normalizeAppointmentPayload(payloads[a], document[a])]]]
  /\ disturbed' = Appointments
  /\ UNCHANGED <<document, row, leg, arrived>>

ReplaceDocuments(w) ==
  /\ At(w, "replace")
  /\ document' = task[w].items
  /\ Goto(w, "rows")
  /\ UNCHANGED <<row, leg, disturbed, arrived, requests>>

\* One upsert after the other; taken as one step, for nothing reads the rows.
ReplaceRows(w) ==
  /\ At(w, "rows")
  /\ row' = [a \in Appointments |-> IF task[w].items[a] = "none" THEN row[a]
                                    ELSE task[w].items[a]]
  /\ Return(w)
  /\ UNCHANGED <<document, leg, disturbed, arrived, requests>>

-----------------------------------------------------------------------------
(* Drivers and the server.                                                 *)

\* PUT or DELETE of a row of pickupDropRequests.
SaveLeg(a, l, status) ==
  /\ Request
  /\ leg[a][l] # "none"
  /\ leg' = [leg EXCEPT ![a][l] = status]
  /\ arrived' = IF status = "DONE" THEN arrived \cup {<<a, l>>} ELSE arrived \ {<<a, l>>}
  /\ disturbed' = IF status = "none" THEN disturbed \cup {a} ELSE disturbed
  /\ UNCHANGED <<document, row, task>>

\* A query fails or the server stops: the request ends where it is.
Fail(w) ==
  /\ ~At(w, "idle") /\ Request
  /\ disturbed' = disturbed \cup Touches(w)
  /\ Return(w)
  /\ UNCHANGED <<document, row, leg, arrived>>

Next ==
  \/ \E w \in Workers, a \in Appointments, payload \in Payloads : PutAppointment(w, a, payload)
  \/ \E w \in Workers : \/ StoreDocument(w) \/ StoreRow(w) \/ LookAtLeg(w) \/ WriteLeg(w)
                        \/ ClearLeg(w) \/ DeleteRow(w) \/ ReplaceDocuments(w) \/ ReplaceRows(w)
                        \/ Fail(w)
  \/ \E w \in Workers, a \in Appointments : DeleteAppointment(w, a)
  \/ \E w \in Workers, payloads \in [Appointments -> Payloads \cup {"none"}] :
       PostSnapshot(w, payloads)
  \/ \E a \in Appointments, l \in Legs, status \in {"none", "PENDING", "DONE"} :
       SaveLeg(a, l, status)

Spec == Init /\ [][Next]_vars

\* The two requests follow the appointment: when no request is at work on it,
\* it has both if it asks for a pickup and neither if it does not, its row says
\* the same, and what a driver finished is still finished.  Appointments whose
\* requests overlapped or were interrupted, that were saved with a null or came
\* in a snapshot, are left out: there the code does not keep it.
PickupsFollow ==
  \A a \in Appointments \ disturbed :
    (\A w \in Workers : a \notin Touches(w)) =>
      /\ \A l \in Legs : leg[a][l] # "none" <=> document[a] = "true"
      /\ row[a] = document[a]
      /\ \A l \in Legs : <<a, l>> \in arrived => leg[a][l] = "DONE"
=============================================================================
