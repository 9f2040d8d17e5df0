------------------------------- MODULE Reminders -------------------------------
(***************************************************************************)
(* The job that sends service and payment reminders by WhatsApp.  Cron and *)
(* a button of the studio start the same job; a run reads everything       *)
(* first, then sends and saves one reminder after the other.  In between   *)
(* clients save reminders, invoices are paid, and the server may stop.     *)
(***************************************************************************)
EXTENDS Naturals, Sequences

CONSTANTS
  Reminders,  \* ids of reminders
  Payments,   \* those of them of kind PAYMENT
  Workers,    \* runs of the job that can be in progress at once
  None,
  Period,     \* days from one due date to the next (the frequency)
  LeadDays,   \* reminderLeadDays of the settings
  LastDay,    \* bound: days that pass
  MaxRequests \* bound: runs, saves by clients, payments and failures

RemindersAssumption ==
  /\ Payments \subseteq Reminders
  /\ None \notin Reminders \cup Workers
  /\ Period \in Nat \ {0} /\ LeadDays \in Nat /\ LastDay \in Nat /\ MaxRequests \in Nat

VARIABLES
  today,
  reminder,  \* the serviceReminders collection
  owed,      \* payment reminders whose invoice is not paid
  task,      \* the run of each worker
  messages,  \* what was sent of each reminder since a client last saved it
  disturbed, \* reminders of overlapping, failed or overtaken runs
  requests   \* how many requests there were

vars == <<today, reminder, owed, task, messages, disturbed, requests>>

-----------------------------------------------------------------------------
(* Reminders and runs.                                                     *)

Days == 0..LastDay

\* sent: whatsappSent and lastMessageSentAt.  open: not COMPLETED or DISMISSED.
Reminder == [due: Nat, sent: BOOLEAN, open: BOOLEAN]
NoReminder == [due |-> 0, sent |-> FALSE, open |-> FALSE]

Message == [due: Nat, day: Days]

\* at: the reminder whose message was handed over and that is not saved yet.
Run == [todo: SUBSET Reminders, at: Reminders \cup {None},
        seen: [Reminders -> Reminder]]
NoRun == [todo |-> {}, at |-> None, seen |-> [r \in Reminders |-> NoReminder]]

TypeOK ==
  /\ today \in Days
  /\ reminder \in [Reminders -> Reminder]
  /\ owed \subseteq Payments
  /\ task \in [Workers -> Run]
  /\ messages \in [Reminders -> Seq(Message)]
  /\ disturbed \subseteq Reminders
  /\ requests \in 0..MaxRequests

Init ==
  /\ today = 0
  /\ reminder = [r \in Reminders |-> NoReminder]
  /\ owed = Payments
  /\ task = [w \in Workers |-> NoRun]
  /\ messages = [r \in Reminders |-> <<>>]
  /\ disturbed = {}
  /\ requests = 0

Request == requests < MaxRequests /\ requests' = requests + 1

\* The reminders a run will still write.
Touches(w) == task[w].todo \cup ({task[w].at} \ {None})
TouchedBut(w) == UNION {Touches(v) : v \in Workers \ {w}}

-----------------------------------------------------------------------------
(* The job.                                                                *)

\* computeReminderStatus: DUE or OVERDUE.
IsDue(due, day) == due <= day + LeadDays

\* selectRemindersForAutoWhatsApp
Selected == {r \in Reminders : /\ reminder[r].open /\ ~reminder[r].sent
                               /\ IsDue(reminder[r].due, today)
                               /\ r \in Payments => r \in owed}

\* processOneOrg: settings, reminders and invoices are read, taken as one step.
BeginRun(w) ==
  /\ Touches(w) = {} /\ Request
  /\ Selected # {}
  /\ task' = [task EXCEPT ![w] = [todo |-> Selected, at |-> None, seen |-> reminder]]
  /\ disturbed' = disturbed \cup (Selected \cap TouchedBut(w))
  /\ UNCHANGED <<today, reminder, owed, messages>>

HandOver(r, due) == messages' = [messages EXCEPT ![r] = Append(@, [due |-> due, day |-> today])]

SendOne(w, r) ==
  /\ task[w].at = None /\ r \in task[w].todo
  /\ HandOver(r, task[w].seen[r].due)
  /\ task' = [task EXCEPT ![w].todo = @ \ {r}, ![w].at = r]
  /\ UNCHANGED <<today, reminder, owed, disturbed, requests>>

\* The provider refuses, or takes the message and its answer is lost: the run
\* counts a failure either way and goes on.
SendFails(w, r) ==
  /\ task[w].at = None /\ r \in task[w].todo /\ Request
  /\ \/ UNCHANGED <<messages, disturbed>>
     \/ HandOver(r, task[w].seen[r].due) /\ disturbed' = disturbed \cup {r}
  /\ task' = [task EXCEPT ![w].todo = @ \ {r}]
  /\ UNCHANGED <<today, reminder, owed>>

\* advancePaymentReminderAfterSend: the mark goes, the next due date is set.
Advanced(seen) == [seen EXCEPT !.due = @ + Period, !.sent = FALSE]

\* With a bug: what was sent is not marked.
Unmarked(seen) == [seen EXCEPT !.sent = FALSE]
\* markReminderSentForPeriod
Marked(seen) == [seen EXCEPT !.sent = TRUE]

\* A selected payment reminder is owed in the invoices the run has read.
AfterSend(w, r) == IF r \in Payments THEN Advanced(task[w].seen[r]) ELSE Marked(task[w].seen[r])

\* saveReminder: the version the run has read, whatever is stored by now.
SaveOne(w) ==
  /\ task[w].at # None
  /\ reminder' = [reminder EXCEPT ![task[w].at] = AfterSend(w, task[w].at)]
  /\ task' = [task EXCEPT ![w].at = None]
  /\ UNCHANGED <<today, owed, messages, disturbed, requests>>

SaveFails(w) ==
  /\ task[w].at # None /\ Request
  /\ disturbed' = disturbed \cup {task[w].at}
  /\ task' = [task EXCEPT ![w].at = None]
  /\ UNCHANGED <<today, reminder, owed, messages>>

-----------------------------------------------------------------------------
(* Everything else.                                                        *)

\* A client saves or deletes a reminder: a new beginning, unless a run is about
\* to write over it.
SaveReminder(r, version) ==
  /\ Request
  /\ reminder' = [reminder EXCEPT ![r] = version]
  /\ messages' = [messages EXCEPT ![r] = <<>>]
  /\ disturbed' = IF r \in TouchedBut(None) THEN disturbed \cup {r} ELSE disturbed \ {r}
  /\ UNCHANGED <<today, owed, task>>

\* The outstanding amount of its invoice falls to zero, or is there again.
InvoiceChanges(r) ==
  /\ Request
  /\ owed' = IF r \in owed THEN owed \ {r} ELSE owed \cup {r}
  /\ UNCHANGED <<today, reminder, task, messages, disturbed>>

DayPasses ==
  /\ today < LastDay
  /\ today' = today + 1
  /\ UNCHANGED <<reminder, owed, task, messages, disturbed, requests>>

\* The server stops: a reminder that was sent and not saved is not marked.
Crash(w) ==
  /\ Touches(w) # {} /\ Request
  /\ disturbed' = disturbed \cup ({task[w].at} \ {None})
  /\ task' = [task EXCEPT ![w] = NoRun]
  /\ UNCHANGED <<today, reminder, owed, messages>>

Next ==
  \/ \E w \in Workers : BeginRun(w) \/ SaveOne(w) \/ SaveFails(w) \/ Crash(w)
  \/ \E w \in Workers, r \in Reminders : SendOne(w, r) \/ SendFails(w, r)
  \/ \E r \in Reminders, due \in Days : SaveReminder(r, [due |-> due, sent |-> FALSE, open |-> TRUE])
  \/ \E r \in Reminders : SaveReminder(r, NoReminder)
  \/ \E r \in Payments : InvoiceChanges(r)
  \/ DayPasses

Spec == Init /\ [][Next]_vars

\* A reminder is sent once for each date it is due at, however often the job
\* runs and whoever starts it.  Runs that overlap, a message that was handed
\* over and could not be marked, and a version of a client that a run wrote
\* over are left out: there the code sends again.
RemindedOnce ==
  \A r \in Reminders \ disturbed : \A i, j \in DOMAIN messages[r] :
    i # j => messages[r][i].due # messages[r][j].due

\* "Idempotent org reminder processor" (reminder-job.service.ts): a second run
\* on the same day sends nothing of what the first one has sent.
IdempotentRuns ==
  \A r \in Reminders \ disturbed : \A i, j \in DOMAIN messages[r] :
    i # j => messages[r][i].day # messages[r][j].day
=============================================================================
