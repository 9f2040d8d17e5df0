--------------------------- MODULE InspectionDelivery ---------------------------
(***************************************************************************)
(* Sending a finalized inspection report by WhatsApp or email: the send    *)
(* log in PostgreSQL, the request handler sendInspectionReport, the        *)
(* provider that takes the message over and the webhooks by which it       *)
(* reports what becomes of it.                                             *)
(*                                                                         *)
(* A request id is chosen by the client, which repeats a call under the    *)
(* same id when it has seen no answer.  Webhooks arrive late, twice, out   *)
(* of order or never.                                                      *)
(***************************************************************************)
EXTENDS Integers, FiniteSets

CONSTANTS
  Handlers,    \* calls of sendInspectionReport that may overlap
  Requests,    \* request ids of one organization
  Messages,    \* what is sent: report, revision, channel and recipient
  Emails,      \* the messages that go by email, the others by WhatsApp
  None,
  Faults,      \* what may go wrong: "crash", "silent", "record", "catch"
  MaxCalls,    \* bound: calls of the send endpoint
  MaxFaults    \* bound: faults

ASSUME DeliveryAssumption ==
  /\ None \notin Requests \cup Messages
  /\ Emails \subseteq Messages
  /\ {MaxCalls, MaxFaults} \subseteq Nat

VARIABLES
  log,       \* InspectionSendLog rows by request id
  provider,  \* what the provider knows of the message of a request
  task,      \* the calls of the send endpoint
  calls,     \* how many there were
  faults     \* what has gone wrong so far, each kind once

vars == <<log, provider, task, calls, faults>>

-----------------------------------------------------------------------------
Statuses == {"QUEUED", "SENT", "DELIVERED", "FAILED"}

\* tracked: the row has the provider's message id.
Log == [status: Statuses \cup {"NONE"}, message: Messages \cup {None}, tracked: BOOLEAN]
NoLog == [status |-> "NONE", message |-> None, tracked |-> FALSE]

\* What the provider says of a message, "delayed" and "accepted" being the
\* ones the code has no word for.
Events == {"accepted", "delayed", "sent", "delivered", "read", "undelivered"}
Provider == [copies: 0..MaxCalls, events: SUBSET Events]

Task == [at: {"idle", "find", "create", "raced", "handOver", "record", "catch"},
         request: Requests \cup {None}, message: Messages \cup {None},
         status: Statuses \cup {"NONE"}, answer: {"none", "item", "conflict", "error"}]
NoTask == [at |-> "idle", request |-> None, message |-> None, status |-> "NONE", answer |-> "none"]

\* A row is tracked only after the provider has taken its message over, and
\* what a call knows of its own request is in the table.
TypeOK ==
  /\ log \in [Requests -> Log]
  /\ provider \in [Requests -> Provider]
  /\ task \in [Handlers -> Task]
  /\ calls \in 0..MaxCalls
  /\ faults \subseteq Faults
  /\ \A q \in Requests :
       /\ log[q].status = "NONE" <=> log[q].message = None
       /\ log[q].tracked => provider[q].copies > 0

Init ==
  /\ log = [q \in Requests |-> NoLog]
  /\ provider = [q \in Requests |-> [copies |-> 0, events |-> {}]]
  /\ task = [h \in Handlers |-> NoTask]
  /\ calls = 0
  /\ faults = {}

Fault(kind) ==
  /\ kind \in Faults \ faults
  /\ Cardinality(faults) < MaxFaults
  /\ faults' = faults \cup {kind}

At(h, step) == task[h].at = step
Mine(h) == task[h].request
Logged(q) == log[q].status # "NONE"
Goto(h, step) == task' = [task EXCEPT ![h].at = step]
Answer(h, answer) == task' = [task EXCEPT ![h].at = "idle", ![h].answer = answer]

-----------------------------------------------------------------------------
(* sendInspectionReport, up to the row of the send log.                    *)

Call(h, q, m) ==
  /\ At(h, "idle")
  /\ calls < MaxCalls
  /\ calls' = calls + 1
  /\ task' = [task EXCEPT ![h] = [NoTask EXCEPT !.at = "find", !.request = q, !.message = m]]
  /\ UNCHANGED <<log, provider, faults>>

\* A row of the same request answers the call, if it is of the same message.
\* With a bug: whatever it is of.
AnswerAny(h) == Answer(h, "item")
AnswerFrom(h) == Answer(h, IF log[Mine(h)].message = task[h].message THEN "item" ELSE "conflict")

Find(h) ==
  /\ At(h, "find")
  /\ IF Logged(Mine(h)) THEN AnswerFrom(h) ELSE Goto(h, "create")
  /\ UNCHANGED <<log, provider, calls, faults>>

\* The revision is not final, has no document, or exports are locked.
Refuse(h) ==
  /\ At(h, "create")
  /\ Answer(h, "error")
  /\ UNCHANGED <<log, provider, calls, faults>>

\* unique (organizationId, requestId).  With a bug: the row is overwritten.
NothingTaken(q) == FALSE
Taken(q) == Logged(q)

CreateLog(h) ==
  /\ At(h, "create")
  /\ IF Taken(Mine(h))
       THEN Goto(h, "raced") /\ UNCHANGED log
       ELSE /\ Goto(h, "handOver")
            /\ log' = [log EXCEPT ![Mine(h)] =
                         [status |-> "QUEUED", message |-> task[h].message, tracked |-> FALSE]]
  /\ UNCHANGED <<provider, calls, faults>>

ReadRaced(h) ==
  /\ At(h, "raced")
  /\ AnswerFrom(h)
  /\ UNCHANGED <<log, provider, calls, faults>>

-----------------------------------------------------------------------------
(* The hand-over to the provider and its record.                           *)

\* normalizeTwilioStatus.
NormalStatus(event) ==
  CASE event = "undelivered" -> "FAILED"
    [] event = "sent" -> "SENT"
    [] OTHER -> "QUEUED"

ByEmail(m) == m \in Emails
Accepted(q, events) ==
  provider' = [provider EXCEPT ![q].copies = @ + 1, ![q].events = @ \cup events]

\* An email with an id is SENT; Twilio says how far it has got.
HandOver(h) ==
  LET q == Mine(h) IN
  /\ At(h, "handOver")
  /\ provider[q].copies < MaxCalls
  /\ IF ByEmail(task[h].message)
       THEN /\ Accepted(q, {"accepted"})
            /\ task' = [task EXCEPT ![h].at = "record", ![h].status = "SENT"]
       ELSE \E event \in {"accepted", "sent", "undelivered"} :
            /\ Accepted(q, {"accepted", event})
            /\ task' = [task EXCEPT ![h].at = "record", ![h].status = NormalStatus(event)]
  /\ UNCHANGED <<log, calls, faults>>

\* The provider has the message, but its answer is lost or has no id.
HandOverUnanswered(h) ==
  /\ At(h, "handOver")
  /\ provider[Mine(h)].copies < MaxCalls
  /\ Fault("silent")
  /\ Accepted(Mine(h), {"accepted"})
  /\ Goto(h, "catch")
  /\ UNCHANGED <<log, calls>>

\* The PDF is gone, a setting is missing, or the provider refuses.
HandOverFails(h) ==
  /\ At(h, "handOver")
  /\ Goto(h, "catch")
  /\ UNCHANGED <<log, provider, calls, faults>>

\* The row as the guarded update leaves it.  With a bug: it is not guarded.
RecordedOver(row, status) == [row EXCEPT !.status = status, !.tracked = TRUE]
Recorded(row, status) ==
  IF row.status = "QUEUED" THEN [row EXCEPT !.status = status, !.tracked = TRUE] ELSE row

RecordRow(h) == log' = [log EXCEPT ![Mine(h)] = Recorded(@, task[h].status)]

Record(h) ==
  /\ At(h, "record")
  /\ RecordRow(h)
  /\ Answer(h, "item")
  /\ UNCHANGED <<provider, calls, faults>>

\* The update or the read after it throws.
RecordFails(h) ==
  /\ At(h, "record")
  /\ Fault("record")
  /\ UNCHANGED log \/ RecordRow(h)
  /\ Goto(h, "catch")
  /\ UNCHANGED <<provider, calls>>

\* The catch block says FAILED, whatever the row says.
\* With a bug: it only reports the error.
NotFailed(row) == row
FailedRow(row) == [row EXCEPT !.status = "FAILED"]

Catch(h) ==
  /\ At(h, "catch")
  /\ log' = [log EXCEPT ![Mine(h)] = FailedRow(@)]
  /\ Answer(h, "item")
  /\ UNCHANGED <<provider, calls, faults>>

CatchFails(h) ==
  /\ At(h, "catch")
  /\ Fault("catch")
  /\ Answer(h, "error")
  /\ UNCHANGED <<log, provider, calls>>

Crash ==
  /\ Fault("crash")
  /\ task' = [h \in Handlers |-> NoTask]
  /\ UNCHANGED <<log, provider, calls>>

-----------------------------------------------------------------------------
(* The provider and its webhooks.                                          *)

\* What may come after what has happened to a message.
Follows(events) ==
  IF events = {} \/ "undelivered" \in events THEN {}
  ELSE {"delayed", "sent"}
       \cup (IF "sent" \in events THEN {"delivered", "undelivered"} ELSE {"undelivered"})
       \cup (IF "delivered" \in events THEN {"read"} ELSE {})

Progress(q) ==
  /\ \E event \in Follows(provider[q].events) \ provider[q].events :
       /\ event = "undelivered" => "delivered" \notin provider[q].events
       /\ provider' = [provider EXCEPT ![q].events = @ \cup {event}]
  /\ UNCHANGED <<log, task, calls, faults>>

\* updateInspectionWhatsAppStatus and updateInspectionEmailStatus: Twilio's
\* other words mean QUEUED, Resend's other events nothing.
\* With a bug: a message that is sent counts as delivered.
SentIsDelivered(event) ==
  CASE event \in {"sent", "delivered", "read"} -> "DELIVERED"
    [] event = "undelivered" -> "FAILED"
    [] OTHER -> "QUEUED"
CallbackStatus(event) ==
  CASE event \in {"delivered", "read"} -> "DELIVERED"
    [] event = "sent" -> "SENT"
    [] event = "undelivered" -> "FAILED"
    [] OTHER -> "QUEUED"

Silent(q, event) == ByEmail(log[q].message) /\ event \in {"accepted", "delayed", "read"}

\* The statuses a callback may replace.
ReplacedBy(status) == IF status \in {"FAILED", "DELIVERED"} THEN {"QUEUED", "SENT"} ELSE {"QUEUED"}

\* One delivery of a webhook, of anything that has happened so far.
Callback(q) ==
  /\ \E event \in provider[q].events :
       LET status == CallbackStatus(event) IN
       /\ ~Silent(q, event)
       /\ log[q].status \in ReplacedBy(status)
       /\ log' = [log EXCEPT ![q].status = status, ![q].tracked = TRUE]
  /\ UNCHANGED <<provider, task, calls, faults>>

-----------------------------------------------------------------------------
Sending(h) ==
  \/ Find(h) \/ Refuse(h) \/ CreateLog(h) \/ ReadRaced(h)
  \/ HandOver(h) \/ HandOverUnanswered(h) \/ HandOverFails(h)
  \/ Record(h) \/ RecordFails(h) \/ Catch(h) \/ CatchFails(h)

Next ==
  \/ \E h \in Handlers, q \in Requests, m \in Messages : Call(h, q, m)
  \/ \E h \in Handlers : Sending(h)
  \/ \E q \in Requests : Progress(q) \/ Callback(q)
  \/ Crash

Spec == Init /\ [][Next]_vars

\* A call that is running gets on: every await of it ends or throws.
FairSpec == Spec /\ \A h \in Handlers : WF_vars(Sending(h))

-----------------------------------------------------------------------------
(* Properties.                                                             *)

\* "Uses tenant-scoped requestId idempotency": however often and however
\* concurrently a request is repeated, the provider gets its message once.
HandedOverOnce == \A q \in Requests : provider[q].copies <= 1

\* A call that is answered with an item is answered with the item of its own
\* message: request ids reused for another message conflict, on both paths.
AnswersOwnMessage ==
  \A h \in Handlers : task[h].answer = "item" => log[Mine(h)].message = task[h].message

\* A row does not say more than the provider has: no DELIVERED without a
\* delivery, no SENT before an email is handed over or Twilio has sent it,
\* whichever of the handler and the webhooks wrote it last.
StatusIsBacked ==
  \A q \in Requests :
    /\ log[q].status = "DELIVERED" => "delivered" \in provider[q].events
    /\ log[q].status = "SENT" =>
         IF ByEmail(log[q].message) THEN provider[q].copies > 0 ELSE "sent" \in provider[q].events

\* Webhooks that come late or twice, and the handler's own record, never take
\* a status back: QUEUED, SENT, DELIVERED, and FAILED is final.
Rank(status) ==
  CASE status = "NONE" -> 0 [] status = "QUEUED" -> 1 [] status = "SENT" -> 2
    [] status = "DELIVERED" -> 3 [] OTHER -> 4
StatusNeverReturns == [][\A q \in Requests : Rank(log'[q].status) >= Rank(log[q].status)]_vars

\* Every queued row reaches the provider or FAILED, unless the process dies or
\* the catch block fails too: a request that is repeated under its id is
\* answered from the row and never sent again.
Abandoned == faults \cap {"crash", "catch"} # {}
QueuedIsSettled ==
  \A q \in Requests :
    log[q].status = "QUEUED" ~> (log[q].status # "QUEUED" \/ provider[q].copies > 0 \/ Abandoned)
=============================================================================
