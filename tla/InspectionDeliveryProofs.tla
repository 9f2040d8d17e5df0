------------------------ MODULE InspectionDeliveryProofs ------------------------
(***************************************************************************)
(* For any number of calls, request ids, messages and faults: types, one   *)
(* hand-over per request id, answers of one's own message, and statuses    *)
(* that never return and say no more than the provider has.                *)
(***************************************************************************)
EXTENDS InspectionDelivery, TLAPS

-----------------------------------------------------------------------------
(* The inductive invariant.  Neither HandedOverOnce nor AnswersOwnMessage  *)
(* is inductive: both rest on who may hand over, the one call that has     *)
(* inserted the row of the request, before anything was handed over.       *)

\* What a call knows of its own request.
TaskInv(h) ==
  /\ task[h].at # "idle" => Mine(h) \in Requests /\ task[h].message \in Messages
  /\ task[h].at \in {"raced", "handOver", "record", "catch"} => Logged(Mine(h))
  /\ task[h].at \in {"handOver", "record", "catch"} => log[Mine(h)].message = task[h].message
  /\ task[h].at = "handOver" => provider[Mine(h)].copies = 0
  /\ task[h].at = "record" => provider[Mine(h)].copies > 0 /\ task[h].status \in Statuses
  /\ task[h].answer = "item" => Mine(h) \in Requests /\ Logged(Mine(h))

\* No two calls hand the same request over.
OneHandsOver ==
  \A h, g \in Handlers :
    At(h, "handOver") /\ At(g, "handOver") /\ Mine(h) = Mine(g) => h = g

\* The provider knows of nothing that is not in the table.
ProviderInv(q) ==
  /\ provider[q].copies > 0 => Logged(q)
  /\ provider[q].events # {} => provider[q].copies > 0

Inv ==
  /\ TypeOK
  /\ \A h \in Handlers : TaskInv(h)
  /\ OneHandsOver
  /\ \A q \in Requests : ProviderInv(q)
  /\ HandedOverOnce
  /\ AnswersOwnMessage

LEMMA InitInv == Init => Inv
  BY DeliveryAssumption
  DEF Init, Inv, TypeOK, TaskInv, OneHandsOver, ProviderInv, HandedOverOnce, AnswersOwnMessage,
      Log, NoLog, Provider, Task, NoTask, Events, Statuses, At, Mine, Logged

\* What an update of a call's task leaves.
Others(h) == \A g \in Handlers : g # h => task'[g] = task[g]
Moved(h, at, status, answer) ==
  /\ task' \in [Handlers -> Task]
  /\ Others(h)
  /\ task'[h].at = at
  /\ task'[h].request = task[h].request
  /\ task'[h].message = task[h].message
  /\ task'[h].status = status
  /\ task'[h].answer = answer

LEMMA GotoMoves ==
  ASSUME task \in [Handlers -> Task], NEW h \in Handlers,
         NEW step \in {"create", "raced", "handOver", "catch"}, Goto(h, step)
  PROVE  Moved(h, step, task[h].status, task[h].answer)
<1> DEFINE new == [task[h] EXCEPT !.at = step]
<1>1. task[h] \in Task
  OBVIOUS
<1>2. new \in Task
  BY <1>1 DEF Task
<1>3. task' = [task EXCEPT ![h] = new]
  BY DEF Goto
<1>4. task'[h] = new /\ Others(h) /\ task' \in [Handlers -> Task]
  BY <1>2, <1>3 DEF Others
<1>5. QED
  BY <1>1, <1>4 DEF Moved, Task

LEMMA AnswerMoves ==
  ASSUME task \in [Handlers -> Task], NEW h \in Handlers,
         NEW answer \in {"item", "conflict", "error"}, Answer(h, answer)
  PROVE  Moved(h, "idle", task[h].status, answer)
<1> DEFINE new == [task[h] EXCEPT !.at = "idle", !.answer = answer]
<1>1. task[h] \in Task
  OBVIOUS
<1>2. new \in Task
  BY <1>1 DEF Task
<1>3. task' = [task EXCEPT ![h] = new]
  BY DEF Answer
<1>4. task'[h] = new /\ Others(h) /\ task' \in [Handlers -> Task]
  BY <1>2, <1>3 DEF Others
<1>5. QED
  BY <1>1, <1>4 DEF Moved, Task

\* What an update of a row of the send log leaves.
OtherRows(q) == \A r \in Requests : r # q => log'[r] = log[r]

LEMMA RowChanges ==
  ASSUME log \in [Requests -> Log], NEW q \in Requests, NEW row \in Log,
         log' = [log EXCEPT ![q] = row]
  PROVE  log' \in [Requests -> Log] /\ log'[q] = row /\ OtherRows(q)
  BY DEF OtherRows

LEMMA AcceptedChanges ==
  ASSUME provider \in [Requests -> Provider], NEW q \in Requests, provider[q].copies < MaxCalls,
         NEW events \in SUBSET Events, events # {}, Accepted(q, events)
  PROVE  /\ provider' \in [Requests -> Provider]
         /\ provider'[q].copies = provider[q].copies + 1
         /\ \A r \in Requests : r # q => provider'[r] = provider[r]
<1> DEFINE new == [provider[q] EXCEPT !.copies = @ + 1, !.events = @ \cup events]
<1>1. provider[q] \in Provider
  OBVIOUS
<1>2. new \in Provider
  <2>1. provider[q].copies + 1 \in 0..MaxCalls /\ provider[q].events \cup events \in SUBSET Events
    BY <1>1, DeliveryAssumption DEF Provider
  <2>2. QED
    BY <1>1, <2>1 DEF Provider
<1>3. provider' = [provider EXCEPT ![q] = new]
  BY DEF Accepted
<1>4. provider'[q] = new /\ new.copies = provider[q].copies + 1
  BY <1>1, <1>3 DEF Provider
<1>5. QED
  BY <1>2, <1>3, <1>4

LEMMA CallKeepsInv ==
  ASSUME Inv, NEW h \in Handlers, NEW q \in Requests, NEW m \in Messages, Call(h, q, m)
  PROVE  Inv'
<1> DEFINE new == [NoTask EXCEPT !.at = "find", !.request = q, !.message = m]
<1>a. new \in Task /\ new.at = "find" /\ new.request = q /\ new.message = m /\ new.answer = "none"
  BY DEF Task, NoTask
<1>b. task' = [task EXCEPT ![h] = new] /\ UNCHANGED <<log, provider, faults>>
  BY DEF Call
<1>c. task' \in [Handlers -> Task] /\ task'[h] = new /\ Others(h)
  BY <1>a, <1>b DEF Inv, TypeOK, Others
<1>d. calls' \in 0..MaxCalls
  BY DeliveryAssumption DEF Call, Inv, TypeOK
<1>e. task'[h].at = "find" /\ task'[h].request = q /\ task'[h].message = m /\ task'[h].answer = "none"
  BY <1>a, <1>c
<1> HIDE DEF new
<1>1. TypeOK'
  BY <1>b, <1>c, <1>d, <1>e, DeliveryAssumption
  DEF Inv, Others, TypeOK, Log, NoLog, Provider, Task, Events, Statuses, At, Mine,
      Logged, TaskInv
<1>2. \A g \in Handlers : TaskInv(g)'
  <2>h. TaskInv(h)'
    BY <1>b, <1>c, <1>d, <1>e, DeliveryAssumption
    DEF Inv, Others, TaskInv, At, Mine, Logged, TypeOK, Statuses, Provider
  <2>g. ASSUME NEW g \in Handlers, g # h PROVE TaskInv(g)'
    <3>1. task'[g] = task[g]
      BY <1>b, <1>c, <1>d, <1>e, <2>g DEF Moved, Others
    <3>2. QED
      BY <3>1, <2>g, <1>b, <1>c, <1>d, <1>e, DeliveryAssumption
      DEF Inv, Others, TaskInv, At, Mine, Logged, OneHandsOver
  <2>q. QED
    BY <2>h, <2>g
<1>3. OneHandsOver'
  BY <1>b, <1>c, <1>d, <1>e, DeliveryAssumption
  DEF Inv, Others, OneHandsOver, TaskInv, At, Mine, Logged
<1>4. \A r \in Requests : ProviderInv(r)'
  BY <1>b, <1>c, <1>d, <1>e, DeliveryAssumption
  DEF Inv, Others, ProviderInv, TaskInv, TypeOK, Provider, At, Mine, Logged
<1>5. HandedOverOnce'
  BY <1>b, <1>c, <1>d, <1>e, DeliveryAssumption
  DEF Inv, Others, HandedOverOnce, TaskInv, TypeOK, Provider, At, Mine, Logged
<1>6. AnswersOwnMessage'
  BY <1>b, <1>c, <1>d, <1>e, DeliveryAssumption
  DEF Inv, Others, AnswersOwnMessage, TaskInv, At, Mine, Logged
<1>7. QED
  BY <1>1, <1>2, <1>3, <1>4, <1>5, <1>6 DEF Inv

LEMMA FindKeepsInv ==
  ASSUME Inv, NEW h \in Handlers, Find(h)
  PROVE  Inv'
<1>a. UNCHANGED <<log, provider, calls, faults>> /\ At(h, "find")
  BY DEF Find
<1>b. \/ Moved(h, "create", task[h].status, task[h].answer) /\ ~Logged(Mine(h))
      \/ Moved(h, "idle", task[h].status, "item") /\ Logged(Mine(h)) /\ log[Mine(h)].message = task[h].message
      \/ Moved(h, "idle", task[h].status, "conflict")
  BY GotoMoves, AnswerMoves DEF Inv, TypeOK, Find, AnswerFrom
<1>1. TypeOK'
  BY <1>a, <1>b, DeliveryAssumption
  DEF Inv, Moved, Others, TypeOK, Log, NoLog, Provider, Task, Events, Statuses, At,
      Mine, Logged, TaskInv
<1>2. \A g \in Handlers : TaskInv(g)'
  <2>h. TaskInv(h)'
    BY <1>a, <1>b, DeliveryAssumption
    DEF Inv, Moved, Others, TaskInv, At, Mine, Logged, TypeOK, Statuses, Provider
  <2>g. ASSUME NEW g \in Handlers, g # h PROVE TaskInv(g)'
    <3>1. task'[g] = task[g]
      BY <1>a, <1>b, <2>g DEF Moved, Others
    <3>2. QED
      BY <3>1, <2>g, <1>a, <1>b, DeliveryAssumption
      DEF Inv, Moved, Others, TaskInv, At, Mine, Logged, OneHandsOver
  <2>q. QED
    BY <2>h, <2>g
<1>3. OneHandsOver'
  BY <1>a, <1>b, DeliveryAssumption
  DEF Inv, Moved, Others, OneHandsOver, TaskInv, At, Mine, Logged
<1>4. \A r \in Requests : ProviderInv(r)'
  BY <1>a, <1>b, DeliveryAssumption
  DEF Inv, Moved, Others, ProviderInv, TaskInv, TypeOK, Provider, At, Mine, Logged
<1>5. HandedOverOnce'
  BY <1>a, <1>b, DeliveryAssumption
  DEF Inv, Moved, Others, HandedOverOnce, TaskInv, TypeOK, Provider, At, Mine, Logged
<1>6. AnswersOwnMessage'
  BY <1>a, <1>b, DeliveryAssumption
  DEF Inv, Moved, Others, AnswersOwnMessage, TaskInv, At, Mine, Logged
<1>7. QED
  BY <1>1, <1>2, <1>3, <1>4, <1>5, <1>6 DEF Inv

LEMMA RefuseKeepsInv ==
  ASSUME Inv, NEW h \in Handlers, Refuse(h)
  PROVE  Inv'
<1>a. UNCHANGED <<log, provider, calls, faults>>
  BY DEF Refuse
<1>b. Moved(h, "idle", task[h].status, "error")
  BY AnswerMoves DEF Inv, TypeOK, Refuse
<1>1. TypeOK'
  BY <1>a, <1>b, DeliveryAssumption
  DEF Inv, Moved, Others, TypeOK, Log, NoLog, Provider, Task, Events, Statuses, At,
      Mine, Logged, TaskInv
<1>2. \A g \in Handlers : TaskInv(g)'
  <2>h. TaskInv(h)'
    BY <1>a, <1>b, DeliveryAssumption
    DEF Inv, Moved, Others, TaskInv, At, Mine, Logged, TypeOK, Statuses, Provider
  <2>g. ASSUME NEW g \in Handlers, g # h PROVE TaskInv(g)'
    <3>1. task'[g] = task[g]
      BY <1>a, <1>b, <2>g DEF Moved, Others
    <3>2. QED
      BY <3>1, <2>g, <1>a, <1>b, DeliveryAssumption
      DEF Inv, Moved, Others, TaskInv, At, Mine, Logged, OneHandsOver
  <2>q. QED
    BY <2>h, <2>g
<1>3. OneHandsOver'
  BY <1>a, <1>b, DeliveryAssumption
  DEF Inv, Moved, Others, OneHandsOver, TaskInv, At, Mine, Logged
<1>4. \A r \in Requests : ProviderInv(r)'
  BY <1>a, <1>b, DeliveryAssumption
  DEF Inv, Moved, Others, ProviderInv, TaskInv, TypeOK, Provider, At, Mine, Logged
<1>5. HandedOverOnce'
  BY <1>a, <1>b, DeliveryAssumption
  DEF Inv, Moved, Others, HandedOverOnce, TaskInv, TypeOK, Provider, At, Mine, Logged
<1>6. AnswersOwnMessage'
  BY <1>a, <1>b, DeliveryAssumption
  DEF Inv, Moved, Others, AnswersOwnMessage, TaskInv, At, Mine, Logged
<1>7. QED
  BY <1>1, <1>2, <1>3, <1>4, <1>5, <1>6 DEF Inv

LEMMA CreateLogKeepsInv ==
  ASSUME Inv, NEW h \in Handlers, CreateLog(h)
  PROVE  Inv'
<1> DEFINE q == Mine(h)
<1> DEFINE row == [status |-> "QUEUED", message |-> task[h].message, tracked |-> FALSE]
<1>a. At(h, "create") /\ UNCHANGED <<provider, calls, faults>> /\ q \in Requests /\ task[h].message \in Messages
  BY DEF CreateLog, Inv, TaskInv, At
<1>b. CASE Taken(q)
  <2>m. Moved(h, "raced", task[h].status, task[h].answer) /\ UNCHANGED log
    BY <1>b, GotoMoves DEF CreateLog, Inv, TypeOK
  <2>1. TypeOK'
    BY <1>a, <1>b, <2>m, DeliveryAssumption
    DEF Inv, Moved, Others, Taken, TypeOK, Log, NoLog, Provider, Task, Events, Statuses,
        At, Mine, Logged, TaskInv
  <2>2. \A g \in Handlers : TaskInv(g)'
    <3>h. TaskInv(h)'
      BY <1>a, <1>b, <2>m, DeliveryAssumption
      DEF Inv, Moved, Others, Taken, TaskInv, At, Mine, Logged, TypeOK, Statuses,
          Provider
    <3>g. ASSUME NEW g \in Handlers, g # h PROVE TaskInv(g)'
      <4>1. task'[g] = task[g]
        BY <1>a, <1>b, <2>m, <3>g DEF Moved, Others
      <4>2. QED
        BY <4>1, <3>g, <1>a, <1>b, <2>m, DeliveryAssumption
        DEF Inv, Moved, Others, Taken, TaskInv, At, Mine, Logged, OneHandsOver
    <3>q. QED
      BY <3>h, <3>g
  <2>3. OneHandsOver'
    BY <1>a, <1>b, <2>m, DeliveryAssumption
    DEF Inv, Moved, Others, Taken, OneHandsOver, TaskInv, At, Mine, Logged
  <2>4. \A r \in Requests : ProviderInv(r)'
    BY <1>a, <1>b, <2>m, DeliveryAssumption
    DEF Inv, Moved, Others, Taken, ProviderInv, TaskInv, TypeOK, Provider, At, Mine,
        Logged
  <2>5. HandedOverOnce'
    BY <1>a, <1>b, <2>m, DeliveryAssumption
    DEF Inv, Moved, Others, Taken, HandedOverOnce, TaskInv, TypeOK, Provider, At, Mine,
        Logged
  <2>6. AnswersOwnMessage'
    BY <1>a, <1>b, <2>m, DeliveryAssumption
    DEF Inv, Moved, Others, Taken, AnswersOwnMessage, TaskInv, At, Mine, Logged
  <2>7. QED
    BY <2>1, <2>2, <2>3, <2>4, <2>5, <2>6 DEF Inv
<1>c. CASE ~Taken(q)
  <2>d. Moved(h, "handOver", task[h].status, task[h].answer) /\ log' = [log EXCEPT ![q] = row]
    BY <1>c, GotoMoves DEF CreateLog, Inv, TypeOK
  <2>e. row \in Log
    BY <1>a DEF Log, Statuses
  <2>f. log' \in [Requests -> Log] /\ log'[q] = row /\ OtherRows(q)
    BY <1>a, <2>d, <2>e, RowChanges DEF Inv, TypeOK
  <2>g. ~Logged(q) /\ provider[q].copies = 0
    BY <1>a, <1>c DEF Taken, Logged, Inv, ProviderInv, TypeOK, Provider
  <2>8. log'[q].status = "QUEUED" /\ log'[q].message = task[h].message /\ log'[q].tracked = FALSE
    BY <2>f
  <2> HIDE DEF row
  <2>1. TypeOK'
    BY <1>a, <2>d, <2>f, <2>g, <2>8, DeliveryAssumption
    DEF Inv, Moved, Others, OtherRows, TypeOK, Log, NoLog, Provider, Task, Events,
        Statuses, At, Mine, Logged, TaskInv
  <2>2. \A g \in Handlers : TaskInv(g)'
    <3>h. TaskInv(h)'
      BY <1>a, <2>d, <2>f, <2>g, <2>8, DeliveryAssumption
      DEF Inv, Moved, Others, OtherRows, TaskInv, At, Mine, Logged, TypeOK, Statuses,
          Provider
    <3>g. ASSUME NEW g \in Handlers, g # h PROVE TaskInv(g)'
      <4>1. task'[g] = task[g]
        BY <1>a, <2>d, <2>f, <2>g, <2>8, <3>g DEF Moved, Others
      <4>2. QED
        BY <4>1, <3>g, <1>a, <2>d, <2>f, <2>g, <2>8, DeliveryAssumption
        DEF Inv, Moved, Others, OtherRows, TaskInv, At, Mine, Logged, OneHandsOver
    <3>q. QED
      BY <3>h, <3>g
  <2>3. OneHandsOver'
    BY <1>a, <2>d, <2>f, <2>g, <2>8, DeliveryAssumption
    DEF Inv, Moved, Others, OtherRows, OneHandsOver, TaskInv, At, Mine, Logged
  <2>4. \A r \in Requests : ProviderInv(r)'
    BY <1>a, <2>d, <2>f, <2>g, <2>8, DeliveryAssumption
    DEF Inv, Moved, Others, OtherRows, ProviderInv, TaskInv, TypeOK, Provider, At, Mine,
        Logged
  <2>5. HandedOverOnce'
    BY <1>a, <2>d, <2>f, <2>g, <2>8, DeliveryAssumption
    DEF Inv, Moved, Others, OtherRows, HandedOverOnce, TaskInv, TypeOK, Provider, At,
        Mine, Logged
  <2>6. AnswersOwnMessage'
    BY <1>a, <2>d, <2>f, <2>g, <2>8, DeliveryAssumption
    DEF Inv, Moved, Others, OtherRows, AnswersOwnMessage, TaskInv, At, Mine, Logged
  <2>7. QED
    BY <2>1, <2>2, <2>3, <2>4, <2>5, <2>6 DEF Inv
<1>d. QED
  BY <1>b, <1>c

LEMMA ReadRacedKeepsInv ==
  ASSUME Inv, NEW h \in Handlers, ReadRaced(h)
  PROVE  Inv'
<1>a. UNCHANGED <<log, provider, calls, faults>> /\ At(h, "raced")
  BY DEF ReadRaced
<1>b. \/ Moved(h, "idle", task[h].status, "item") /\ log[Mine(h)].message = task[h].message
      \/ Moved(h, "idle", task[h].status, "conflict")
  BY AnswerMoves DEF Inv, TypeOK, ReadRaced, AnswerFrom
<1>1. TypeOK'
  BY <1>a, <1>b, DeliveryAssumption
  DEF Inv, Moved, Others, TypeOK, Log, NoLog, Provider, Task, Events, Statuses, At,
      Mine, Logged, TaskInv
<1>2. \A g \in Handlers : TaskInv(g)'
  <2>h. TaskInv(h)'
    BY <1>a, <1>b, DeliveryAssumption
    DEF Inv, Moved, Others, TaskInv, At, Mine, Logged, TypeOK, Statuses, Provider
  <2>g. ASSUME NEW g \in Handlers, g # h PROVE TaskInv(g)'
    <3>1. task'[g] = task[g]
      BY <1>a, <1>b, <2>g DEF Moved, Others
    <3>2. QED
      BY <3>1, <2>g, <1>a, <1>b, DeliveryAssumption
      DEF Inv, Moved, Others, TaskInv, At, Mine, Logged, OneHandsOver
  <2>q. QED
    BY <2>h, <2>g
<1>3. OneHandsOver'
  BY <1>a, <1>b, DeliveryAssumption
  DEF Inv, Moved, Others, OneHandsOver, TaskInv, At, Mine, Logged
<1>4. \A r \in Requests : ProviderInv(r)'
  BY <1>a, <1>b, DeliveryAssumption
  DEF Inv, Moved, Others, ProviderInv, TaskInv, TypeOK, Provider, At, Mine, Logged
<1>5. HandedOverOnce'
  BY <1>a, <1>b, DeliveryAssumption
  DEF Inv, Moved, Others, HandedOverOnce, TaskInv, TypeOK, Provider, At, Mine, Logged
<1>6. AnswersOwnMessage'
  BY <1>a, <1>b, DeliveryAssumption
  DEF Inv, Moved, Others, AnswersOwnMessage, TaskInv, At, Mine, Logged
<1>7. QED
  BY <1>1, <1>2, <1>3, <1>4, <1>5, <1>6 DEF Inv

LEMMA HandOverKeepsInv ==
  ASSUME Inv, NEW h \in Handlers, HandOver(h)
  PROVE  Inv'
<1> DEFINE q == Mine(h)
<1>a. /\ UNCHANGED <<log, calls, faults>> /\ At(h, "handOver")
      /\ q \in Requests /\ Logged(q) /\ provider[q].copies = 0 /\ 0 < MaxCalls
  BY DEF HandOver, Inv, TaskInv, At
<1>b. PICK status \in {"SENT", "QUEUED", "FAILED"}, events \in SUBSET Events :
        /\ events # {}
        /\ Accepted(q, events)
        /\ task' = [task EXCEPT ![h].at = "record", ![h].status = status]
  BY DEF HandOver, NormalStatus, Events
<1>c. /\ provider' \in [Requests -> Provider]
      /\ provider'[q].copies = 1
      /\ \A r \in Requests : r # q => provider'[r] = provider[r]
  BY <1>a, <1>b, AcceptedChanges DEF Inv, TypeOK
<1> DEFINE new == [task[h] EXCEPT !.at = "record", !.status = status]
<1>d. new \in Task
  BY DEF Inv, TypeOK, Task, Statuses
<1>e. task' = [task EXCEPT ![h] = new]
  BY <1>b
<1>f. task' \in [Handlers -> Task] /\ task'[h] = new /\ Others(h)
  BY <1>d, <1>e DEF Inv, TypeOK, Others
<1>g. Moved(h, "record", status, task[h].answer)
  BY <1>f DEF Moved, Inv, TypeOK, Task
<1> HIDE DEF new
<1>1. TypeOK'
  BY <1>a, <1>c, <1>g, DeliveryAssumption
  DEF Inv, Moved, Others, TypeOK, Log, NoLog, Provider, Task, Events, Statuses, At,
      Mine, Logged, TaskInv
<1>2. \A g \in Handlers : TaskInv(g)'
  <2>h. TaskInv(h)'
    BY <1>a, <1>c, <1>g, DeliveryAssumption
    DEF Inv, Moved, Others, TaskInv, At, Mine, Logged, TypeOK, Statuses, Provider
  <2>g. ASSUME NEW g \in Handlers, g # h PROVE TaskInv(g)'
    <3>1. task'[g] = task[g]
      BY <1>a, <1>c, <1>g, <2>g DEF Moved, Others
    <3>2. QED
      BY <3>1, <2>g, <1>a, <1>c, <1>g, DeliveryAssumption
      DEF Inv, Moved, Others, TaskInv, At, Mine, Logged, OneHandsOver
  <2>q. QED
    BY <2>h, <2>g
<1>3. OneHandsOver'
  BY <1>a, <1>c, <1>g, DeliveryAssumption
  DEF Inv, Moved, Others, OneHandsOver, TaskInv, At, Mine, Logged
<1>4. \A r \in Requests : ProviderInv(r)'
  BY <1>a, <1>c, <1>g, DeliveryAssumption
  DEF Inv, Moved, Others, ProviderInv, TaskInv, TypeOK, Provider, At, Mine, Logged
<1>5. HandedOverOnce'
  BY <1>a, <1>c, <1>g, DeliveryAssumption
  DEF Inv, Moved, Others, HandedOverOnce, TaskInv, TypeOK, Provider, At, Mine, Logged
<1>6. AnswersOwnMessage'
  BY <1>a, <1>c, <1>g, DeliveryAssumption
  DEF Inv, Moved, Others, AnswersOwnMessage, TaskInv, At, Mine, Logged
<1>7. QED
  BY <1>1, <1>2, <1>3, <1>4, <1>5, <1>6 DEF Inv

LEMMA HandOverUnansweredKeepsInv ==
  ASSUME Inv, NEW h \in Handlers, HandOverUnanswered(h)
  PROVE  Inv'
<1> DEFINE q == Mine(h)
<1>a. /\ UNCHANGED <<log, calls>> /\ At(h, "handOver") /\ faults' \subseteq Faults
      /\ q \in Requests /\ Logged(q) /\ provider[q].copies = 0 /\ 0 < MaxCalls
  BY DEF HandOverUnanswered, Fault, Inv, TypeOK, TaskInv, At
<1>b. PICK events \in SUBSET Events : events # {} /\ Accepted(q, events)
  BY DEF HandOverUnanswered, Events
<1>c. /\ provider' \in [Requests -> Provider]
      /\ provider'[q].copies = 1
      /\ \A r \in Requests : r # q => provider'[r] = provider[r]
  BY <1>a, <1>b, AcceptedChanges DEF Inv, TypeOK
<1>d. Moved(h, "catch", task[h].status, task[h].answer)
  BY GotoMoves DEF HandOverUnanswered, Inv, TypeOK
<1>1. TypeOK'
  BY <1>a, <1>c, <1>d, DeliveryAssumption
  DEF Inv, Moved, Others, TypeOK, Log, NoLog, Provider, Task, Events, Statuses, At,
      Mine, Logged, TaskInv
<1>2. \A g \in Handlers : TaskInv(g)'
  <2>h. TaskInv(h)'
    BY <1>a, <1>c, <1>d, DeliveryAssumption
    DEF Inv, Moved, Others, TaskInv, At, Mine, Logged, TypeOK, Statuses, Provider
  <2>g. ASSUME NEW g \in Handlers, g # h PROVE TaskInv(g)'
    <3>1. task'[g] = task[g]
      BY <1>a, <1>c, <1>d, <2>g DEF Moved, Others
    <3>2. QED
      BY <3>1, <2>g, <1>a, <1>c, <1>d, DeliveryAssumption
      DEF Inv, Moved, Others, TaskInv, At, Mine, Logged, OneHandsOver
  <2>q. QED
    BY <2>h, <2>g
<1>3. OneHandsOver'
  BY <1>a, <1>c, <1>d, DeliveryAssumption
  DEF Inv, Moved, Others, OneHandsOver, TaskInv, At, Mine, Logged
<1>4. \A r \in Requests : ProviderInv(r)'
  BY <1>a, <1>c, <1>d, DeliveryAssumption
  DEF Inv, Moved, Others, ProviderInv, TaskInv, TypeOK, Provider, At, Mine, Logged
<1>5. HandedOverOnce'
  BY <1>a, <1>c, <1>d, DeliveryAssumption
  DEF Inv, Moved, Others, HandedOverOnce, TaskInv, TypeOK, Provider, At, Mine, Logged
<1>6. AnswersOwnMessage'
  BY <1>a, <1>c, <1>d, DeliveryAssumption
  DEF Inv, Moved, Others, AnswersOwnMessage, TaskInv, At, Mine, Logged
<1>7. QED
  BY <1>1, <1>2, <1>3, <1>4, <1>5, <1>6 DEF Inv

LEMMA HandOverFailsKeepsInv ==
  ASSUME Inv, NEW h \in Handlers, HandOverFails(h)
  PROVE  Inv'
<1>a. UNCHANGED <<log, provider, calls, faults>> /\ At(h, "handOver")
  BY DEF HandOverFails
<1>b. Moved(h, "catch", task[h].status, task[h].answer)
  BY GotoMoves DEF Inv, TypeOK, HandOverFails
<1>1. TypeOK'
  BY <1>a, <1>b, DeliveryAssumption
  DEF Inv, Moved, Others, TypeOK, Log, NoLog, Provider, Task, Events, Statuses, At,
      Mine, Logged, TaskInv
<1>2. \A g \in Handlers : TaskInv(g)'
  <2>h. TaskInv(h)'
    BY <1>a, <1>b, DeliveryAssumption
    DEF Inv, Moved, Others, TaskInv, At, Mine, Logged, TypeOK, Statuses, Provider
  <2>g. ASSUME NEW g \in Handlers, g # h PROVE TaskInv(g)'
    <3>1. task'[g] = task[g]
      BY <1>a, <1>b, <2>g DEF Moved, Others
    <3>2. QED
      BY <3>1, <2>g, <1>a, <1>b, DeliveryAssumption
      DEF Inv, Moved, Others, TaskInv, At, Mine, Logged, OneHandsOver
  <2>q. QED
    BY <2>h, <2>g
<1>3. OneHandsOver'
  BY <1>a, <1>b, DeliveryAssumption
  DEF Inv, Moved, Others, OneHandsOver, TaskInv, At, Mine, Logged
<1>4. \A r \in Requests : ProviderInv(r)'
  BY <1>a, <1>b, DeliveryAssumption
  DEF Inv, Moved, Others, ProviderInv, TaskInv, TypeOK, Provider, At, Mine, Logged
<1>5. HandedOverOnce'
  BY <1>a, <1>b, DeliveryAssumption
  DEF Inv, Moved, Others, HandedOverOnce, TaskInv, TypeOK, Provider, At, Mine, Logged
<1>6. AnswersOwnMessage'
  BY <1>a, <1>b, DeliveryAssumption
  DEF Inv, Moved, Others, AnswersOwnMessage, TaskInv, At, Mine, Logged
<1>7. QED
  BY <1>1, <1>2, <1>3, <1>4, <1>5, <1>6 DEF Inv

LEMMA RecordRowChanges ==
  ASSUME Inv, NEW h \in Handlers, At(h, "record"), RecordRow(h)
  PROVE  /\ log' \in [Requests -> Log]
         /\ OtherRows(Mine(h))
         /\ Mine(h) \in Requests
         /\ log'[Mine(h)].status # "NONE"
         /\ log'[Mine(h)].message = log[Mine(h)].message
<1> DEFINE q == Mine(h)
           row == Recorded(log[q], task[h].status)
<1>1. q \in Requests /\ Logged(q) /\ task[h].status \in Statuses /\ log[q] \in Log
  BY DEF Inv, TypeOK, TaskInv, At
<1>2. row \in Log /\ row.message = log[q].message /\ row.status # "NONE"
  BY <1>1 DEF Recorded, Log, Logged, Statuses
<1>3. log' = [log EXCEPT ![q] = row]
  BY DEF RecordRow
<1>4. log' \in [Requests -> Log] /\ log'[q] = row /\ OtherRows(q)
  BY <1>1, <1>2, <1>3, RowChanges DEF Inv, TypeOK
<1>5. QED
  BY <1>1, <1>2, <1>4 DEF Logged, Mine

LEMMA RecordKeepsInv ==
  ASSUME Inv, NEW h \in Handlers, Record(h)
  PROVE  Inv'
<1>a. UNCHANGED <<provider, calls, faults>> /\ At(h, "record") /\ RecordRow(h)
  BY DEF Record
<1>b. Moved(h, "idle", task[h].status, "item")
  BY AnswerMoves DEF Inv, TypeOK, Record
<1>c. /\ log' \in [Requests -> Log] /\ OtherRows(Mine(h)) /\ Mine(h) \in Requests
      /\ log'[Mine(h)].status # "NONE" /\ log'[Mine(h)].message = log[Mine(h)].message
      /\ provider[Mine(h)].copies > 0 /\ log[Mine(h)].message = task[h].message
      /\ log[Mine(h)].status # "NONE"
  BY <1>a, RecordRowChanges DEF Logged, Inv, TaskInv, At, Mine
<1>1. TypeOK'
  BY <1>a, <1>b, <1>c, DeliveryAssumption
  DEF Inv, Moved, Others, OtherRows, TypeOK, Log, NoLog, Provider, Task, Events,
      Statuses, At, Mine, Logged, TaskInv
<1>2. \A g \in Handlers : TaskInv(g)'
  <2>h. TaskInv(h)'
    BY <1>a, <1>b, <1>c, DeliveryAssumption
    DEF Inv, Moved, Others, OtherRows, TaskInv, At, Mine, Logged, TypeOK, Statuses,
        Provider
  <2>g. ASSUME NEW g \in Handlers, g # h PROVE TaskInv(g)'
    <3>1. task'[g] = task[g]
      BY <1>a, <1>b, <1>c, <2>g DEF Moved, Others
    <3>2. QED
      BY <3>1, <2>g, <1>a, <1>b, <1>c, DeliveryAssumption
      DEF Inv, Moved, Others, OtherRows, TaskInv, At, Mine, Logged, OneHandsOver
  <2>q. QED
    BY <2>h, <2>g
<1>3. OneHandsOver'
  BY <1>a, <1>b, <1>c, DeliveryAssumption
  DEF Inv, Moved, Others, OtherRows, OneHandsOver, TaskInv, At, Mine, Logged
<1>4. \A r \in Requests : ProviderInv(r)'
  BY <1>a, <1>b, <1>c, DeliveryAssumption
  DEF Inv, Moved, Others, OtherRows, ProviderInv, TaskInv, TypeOK, Provider, At, Mine,
      Logged
<1>5. HandedOverOnce'
  BY <1>a, <1>b, <1>c, DeliveryAssumption
  DEF Inv, Moved, Others, OtherRows, HandedOverOnce, TaskInv, TypeOK, Provider, At,
      Mine, Logged
<1>6. AnswersOwnMessage'
  BY <1>a, <1>b, <1>c, DeliveryAssumption
  DEF Inv, Moved, Others, OtherRows, AnswersOwnMessage, TaskInv, At, Mine, Logged
<1>7. QED
  BY <1>1, <1>2, <1>3, <1>4, <1>5, <1>6 DEF Inv

LEMMA RecordFailsKeepsInv ==
  ASSUME Inv, NEW h \in Handlers, RecordFails(h)
  PROVE  Inv'
<1>a. UNCHANGED <<provider, calls>> /\ At(h, "record") /\ (UNCHANGED log \/ RecordRow(h)) /\ faults' \subseteq Faults
  BY DEF RecordFails, Fault, Inv, TypeOK
<1>b. Moved(h, "catch", task[h].status, task[h].answer)
  BY GotoMoves DEF Inv, TypeOK, RecordFails
<1>c. /\ log' \in [Requests -> Log] /\ OtherRows(Mine(h)) /\ Mine(h) \in Requests
      /\ log'[Mine(h)].status # "NONE" /\ log'[Mine(h)].message = log[Mine(h)].message
      /\ provider[Mine(h)].copies > 0 /\ log[Mine(h)].message = task[h].message
      /\ log[Mine(h)].status # "NONE"
  BY <1>a, RecordRowChanges DEF Logged, Inv, TypeOK, TaskInv, At, Mine, OtherRows
<1>1. TypeOK'
  BY <1>a, <1>b, <1>c, DeliveryAssumption
  DEF Inv, Moved, Others, OtherRows, TypeOK, Log, NoLog, Provider, Task, Events,
      Statuses, At, Mine, Logged, TaskInv
<1>2. \A g \in Handlers : TaskInv(g)'
  <2>h. TaskInv(h)'
    BY <1>a, <1>b, <1>c, DeliveryAssumption
    DEF Inv, Moved, Others, OtherRows, TaskInv, At, Mine, Logged, TypeOK, Statuses,
        Provider
  <2>g. ASSUME NEW g \in Handlers, g # h PROVE TaskInv(g)'
    <3>1. task'[g] = task[g]
      BY <1>a, <1>b, <1>c, <2>g DEF Moved, Others
    <3>2. QED
      BY <3>1, <2>g, <1>a, <1>b, <1>c, DeliveryAssumption
      DEF Inv, Moved, Others, OtherRows, TaskInv, At, Mine, Logged, OneHandsOver
  <2>q. QED
    BY <2>h, <2>g
<1>3. OneHandsOver'
  BY <1>a, <1>b, <1>c, DeliveryAssumption
  DEF Inv, Moved, Others, OtherRows, OneHandsOver, TaskInv, At, Mine, Logged
<1>4. \A r \in Requests : ProviderInv(r)'
  BY <1>a, <1>b, <1>c, DeliveryAssumption
  DEF Inv, Moved, Others, OtherRows, ProviderInv, TaskInv, TypeOK, Provider, At, Mine,
      Logged
<1>5. HandedOverOnce'
  BY <1>a, <1>b, <1>c, DeliveryAssumption
  DEF Inv, Moved, Others, OtherRows, HandedOverOnce, TaskInv, TypeOK, Provider, At,
      Mine, Logged
<1>6. AnswersOwnMessage'
  BY <1>a, <1>b, <1>c, DeliveryAssumption
  DEF Inv, Moved, Others, OtherRows, AnswersOwnMessage, TaskInv, At, Mine, Logged
<1>7. QED
  BY <1>1, <1>2, <1>3, <1>4, <1>5, <1>6 DEF Inv

LEMMA CatchKeepsInv ==
  ASSUME Inv, NEW h \in Handlers, Catch(h)
  PROVE  Inv'
<1> DEFINE q == Mine(h)
           row == [log[q] EXCEPT !.status = "FAILED"]
<1>a. UNCHANGED <<provider, calls, faults>> /\ At(h, "catch") /\ q \in Requests /\ Logged(q)
  BY DEF Catch, Inv, TaskInv, At
<1>b. Moved(h, "idle", task[h].status, "item") /\ log[q].message = task[h].message
  BY AnswerMoves DEF Inv, TypeOK, TaskInv, Catch, At
<1>c. row \in Log /\ row.status = "FAILED" /\ row.message = log[q].message /\ row.tracked = log[q].tracked
  BY <1>a DEF Inv, TypeOK, Log, Statuses
<1>d. log' = [log EXCEPT ![q] = row]
  BY DEF Catch, FailedRow
<1>e. /\ log' \in [Requests -> Log] /\ OtherRows(q)
      /\ log'[q].status = "FAILED" /\ log'[q].message = log[q].message /\ log'[q].tracked = log[q].tracked
  BY <1>a, <1>c, <1>d, RowChanges DEF Inv, TypeOK
<1> HIDE DEF row
<1>1. TypeOK'
  BY <1>a, <1>b, <1>e, DeliveryAssumption
  DEF Inv, Moved, Others, OtherRows, TypeOK, Log, NoLog, Provider, Task, Events,
      Statuses, At, Mine, Logged, TaskInv
<1>2. \A g \in Handlers : TaskInv(g)'
  <2>h. TaskInv(h)'
    BY <1>a, <1>b, <1>e, DeliveryAssumption
    DEF Inv, Moved, Others, OtherRows, TaskInv, At, Mine, Logged, TypeOK, Statuses,
        Provider
  <2>g. ASSUME NEW g \in Handlers, g # h PROVE TaskInv(g)'
    <3>1. task'[g] = task[g]
      BY <1>a, <1>b, <1>e, <2>g DEF Moved, Others
    <3>2. QED
      BY <3>1, <2>g, <1>a, <1>b, <1>e, DeliveryAssumption
      DEF Inv, Moved, Others, OtherRows, TaskInv, At, Mine, Logged, OneHandsOver
  <2>q. QED
    BY <2>h, <2>g
<1>3. OneHandsOver'
  BY <1>a, <1>b, <1>e, DeliveryAssumption
  DEF Inv, Moved, Others, OtherRows, OneHandsOver, TaskInv, At, Mine, Logged
<1>4. \A r \in Requests : ProviderInv(r)'
  BY <1>a, <1>b, <1>e, DeliveryAssumption
  DEF Inv, Moved, Others, OtherRows, ProviderInv, TaskInv, TypeOK, Provider, At, Mine,
      Logged
<1>5. HandedOverOnce'
  BY <1>a, <1>b, <1>e, DeliveryAssumption
  DEF Inv, Moved, Others, OtherRows, HandedOverOnce, TaskInv, TypeOK, Provider, At,
      Mine, Logged
<1>6. AnswersOwnMessage'
  BY <1>a, <1>b, <1>e, DeliveryAssumption
  DEF Inv, Moved, Others, OtherRows, AnswersOwnMessage, TaskInv, At, Mine, Logged
<1>7. QED
  BY <1>1, <1>2, <1>3, <1>4, <1>5, <1>6 DEF Inv

LEMMA CatchFailsKeepsInv ==
  ASSUME Inv, NEW h \in Handlers, CatchFails(h)
  PROVE  Inv'
<1>a. UNCHANGED <<log, provider, calls>> /\ faults' \subseteq Faults
  BY DEF CatchFails, Fault, Inv, TypeOK
<1>b. Moved(h, "idle", task[h].status, "error")
  BY AnswerMoves DEF Inv, TypeOK, CatchFails
<1>1. TypeOK'
  BY <1>a, <1>b, DeliveryAssumption
  DEF Inv, Moved, Others, TypeOK, Log, NoLog, Provider, Task, Events, Statuses, At,
      Mine, Logged, TaskInv
<1>2. \A g \in Handlers : TaskInv(g)'
  <2>h. TaskInv(h)'
    BY <1>a, <1>b, DeliveryAssumption
    DEF Inv, Moved, Others, TaskInv, At, Mine, Logged, TypeOK, Statuses, Provider
  <2>g. ASSUME NEW g \in Handlers, g # h PROVE TaskInv(g)'
    <3>1. task'[g] = task[g]
      BY <1>a, <1>b, <2>g DEF Moved, Others
    <3>2. QED
      BY <3>1, <2>g, <1>a, <1>b, DeliveryAssumption
      DEF Inv, Moved, Others, TaskInv, At, Mine, Logged, OneHandsOver
  <2>q. QED
    BY <2>h, <2>g
<1>3. OneHandsOver'
  BY <1>a, <1>b, DeliveryAssumption
  DEF Inv, Moved, Others, OneHandsOver, TaskInv, At, Mine, Logged
<1>4. \A r \in Requests : ProviderInv(r)'
  BY <1>a, <1>b, DeliveryAssumption
  DEF Inv, Moved, Others, ProviderInv, TaskInv, TypeOK, Provider, At, Mine, Logged
<1>5. HandedOverOnce'
  BY <1>a, <1>b, DeliveryAssumption
  DEF Inv, Moved, Others, HandedOverOnce, TaskInv, TypeOK, Provider, At, Mine, Logged
<1>6. AnswersOwnMessage'
  BY <1>a, <1>b, DeliveryAssumption
  DEF Inv, Moved, Others, AnswersOwnMessage, TaskInv, At, Mine, Logged
<1>7. QED
  BY <1>1, <1>2, <1>3, <1>4, <1>5, <1>6 DEF Inv

LEMMA CrashKeepsInv ==
  ASSUME Inv, Crash
  PROVE  Inv'
<1>1. TypeOK'
  BY DeliveryAssumption
  DEF Inv, Crash, Fault, NoTask, TypeOK, Log, NoLog, Provider, Task, Events, Statuses,
      At, Mine, Logged, TaskInv
<1>2. \A g \in Handlers : TaskInv(g)'
  BY DeliveryAssumption
  DEF Inv, Crash, Fault, NoTask, TypeOK, Log, NoLog, Provider, Task, Events, Statuses,
      At, Mine, Logged, TaskInv
<1>3. OneHandsOver'
  BY DeliveryAssumption
  DEF Inv, Crash, Fault, NoTask, TypeOK, Log, NoLog, Provider, Task, Events, Statuses,
      At, Mine, Logged, OneHandsOver, TaskInv
<1>4. \A r \in Requests : ProviderInv(r)'
  BY DeliveryAssumption
  DEF Inv, Crash, Fault, NoTask, TypeOK, Log, NoLog, Provider, Task, Events, Statuses,
      At, Mine, Logged, ProviderInv, TaskInv
<1>5. HandedOverOnce'
  BY DeliveryAssumption
  DEF Inv, Crash, Fault, NoTask, TypeOK, Log, NoLog, Provider, Task, Events, Statuses,
      At, Mine, Logged, HandedOverOnce, TaskInv
<1>6. AnswersOwnMessage'
  BY DeliveryAssumption
  DEF Inv, Crash, Fault, NoTask, TypeOK, Log, NoLog, Provider, Task, Events, Statuses,
      At, Mine, Logged, AnswersOwnMessage, TaskInv
<1>7. QED
  BY <1>1, <1>2, <1>3, <1>4, <1>5, <1>6 DEF Inv

LEMMA ProgressKeepsInv ==
  ASSUME Inv, NEW q \in Requests, Progress(q)
  PROVE  Inv'
<1>1. TypeOK'
  BY DeliveryAssumption
  DEF Inv, Progress, Follows, TypeOK, Log, NoLog, Provider, Task, Events, Statuses, At,
      Mine, Logged, TaskInv
<1>2. \A g \in Handlers : TaskInv(g)'
  BY DeliveryAssumption
  DEF Inv, Progress, Follows, TypeOK, Log, NoLog, Provider, Task, Events, Statuses, At,
      Mine, Logged, TaskInv
<1>3. OneHandsOver'
  BY DeliveryAssumption
  DEF Inv, Progress, Follows, TypeOK, Log, NoLog, Provider, Task, Events, Statuses, At,
      Mine, Logged, OneHandsOver, TaskInv
<1>4. \A r \in Requests : ProviderInv(r)'
  BY DeliveryAssumption
  DEF Inv, Progress, Follows, TypeOK, Log, NoLog, Provider, Task, Events, Statuses, At,
      Mine, Logged, ProviderInv, TaskInv
<1>5. HandedOverOnce'
  BY DeliveryAssumption
  DEF Inv, Progress, Follows, TypeOK, Log, NoLog, Provider, Task, Events, Statuses, At,
      Mine, Logged, HandedOverOnce, TaskInv
<1>6. AnswersOwnMessage'
  BY DeliveryAssumption
  DEF Inv, Progress, Follows, TypeOK, Log, NoLog, Provider, Task, Events, Statuses, At,
      Mine, Logged, AnswersOwnMessage, TaskInv
<1>7. QED
  BY <1>1, <1>2, <1>3, <1>4, <1>5, <1>6 DEF Inv

LEMMA CallbackKeepsInv ==
  ASSUME Inv, NEW q \in Requests, Callback(q)
  PROVE  Inv'
<1>a. PICK event \in provider[q].events :
        /\ log[q].status \in ReplacedBy(CallbackStatus(event))
        /\ log' = [log EXCEPT ![q].status = CallbackStatus(event), ![q].tracked = TRUE]
  BY DEF Callback
<1>b. UNCHANGED <<provider, task, calls, faults>> /\ provider[q].copies > 0 /\ Logged(q)
  BY <1>a DEF Callback, Inv, ProviderInv
<1> DEFINE row == [log[q] EXCEPT !.status = CallbackStatus(event), !.tracked = TRUE]
<1>c. row \in Log /\ row.status # "NONE" /\ row.message = log[q].message
  BY DEF Inv, TypeOK, Log, Statuses, CallbackStatus
<1>d. log' = [log EXCEPT ![q] = row]
  BY <1>a
<1>e. /\ log' \in [Requests -> Log] /\ OtherRows(q)
      /\ log'[q].status # "NONE" /\ log'[q].message = log[q].message
  BY <1>c, <1>d, RowChanges DEF Inv, TypeOK
<1> HIDE DEF row
<1>1. TypeOK'
  BY <1>b, <1>e, DeliveryAssumption
  DEF Inv, OtherRows, TypeOK, Log, NoLog, Provider, Task, Events, Statuses, At, Mine,
      Logged, TaskInv
<1>2. ASSUME NEW g \in Handlers PROVE TaskInv(g)'
  BY <1>b, <1>e, DeliveryAssumption DEF Inv, OtherRows, TaskInv, At, Mine, Logged
<1>3. OneHandsOver'
  BY <1>b, <1>e, DeliveryAssumption
  DEF Inv, OtherRows, OneHandsOver, TaskInv, At, Mine, Logged
<1>4. \A r \in Requests : ProviderInv(r)'
  BY <1>b, <1>e, DeliveryAssumption
  DEF Inv, OtherRows, ProviderInv, TaskInv, TypeOK, Provider, At, Mine, Logged
<1>5. HandedOverOnce'
  BY <1>b, <1>e, DeliveryAssumption
  DEF Inv, OtherRows, HandedOverOnce, TaskInv, TypeOK, Provider, At, Mine, Logged
<1>6. AnswersOwnMessage'
  BY <1>b, <1>e, DeliveryAssumption
  DEF Inv, OtherRows, AnswersOwnMessage, TaskInv, At, Mine, Logged
<1>7. QED
  BY <1>1, <1>2, <1>3, <1>4, <1>5, <1>6 DEF Inv

LEMMA NextKeepsInv ==
  ASSUME Inv, [Next]_vars
  PROVE  Inv'
<1>1. CASE \E h \in Handlers, q \in Requests, m \in Messages : Call(h, q, m)
  BY <1>1, CallKeepsInv
<1>2. ASSUME NEW h \in Handlers, Sending(h) PROVE Inv'
  BY <1>2, FindKeepsInv, RefuseKeepsInv, CreateLogKeepsInv, ReadRacedKeepsInv,
     HandOverKeepsInv,
     HandOverUnansweredKeepsInv, HandOverFailsKeepsInv, RecordKeepsInv, RecordFailsKeepsInv,
     CatchKeepsInv, CatchFailsKeepsInv
  DEF Sending
<1>3. CASE \E q \in Requests : Progress(q) \/ Callback(q)
  BY <1>3, ProgressKeepsInv, CallbackKeepsInv
<1>4. CASE Crash
  BY <1>4, CrashKeepsInv
<1>5. CASE UNCHANGED vars
  BY <1>5 DEF vars, Inv, TypeOK, TaskInv, OneHandsOver, ProviderInv, HandedOverOnce,
              AnswersOwnMessage, At, Mine, Logged
<1>6. QED
  BY <1>1, <1>2, <1>3, <1>4, <1>5 DEF Next

-----------------------------------------------------------------------------
(* Statuses.                                                               *)

\* A row that is replaced by one of at least its rank.
LEMMA RowRises ==
  ASSUME log \in [Requests -> Log], NEW q \in Requests, NEW row,
         log' = [log EXCEPT ![q] = row], Rank(row.status) >= Rank(log[q].status)
  PROVE  \A r \in Requests : Rank(log'[r].status) >= Rank(log[r].status)
<1>1. ASSUME NEW r \in Requests, r # q PROVE Rank(log'[r].status) >= Rank(log[r].status)
  BY <1>1 DEF Rank
<1>2. QED
  BY <1>1

LEMMA CreateLogRises ==
  ASSUME Inv, NEW h \in Handlers, CreateLog(h)
  PROVE  \A r \in Requests : Rank(log'[r].status) >= Rank(log[r].status)
<1> DEFINE q == Mine(h)
           row == [status |-> "QUEUED", message |-> task[h].message, tracked |-> FALSE]
<1>1. CASE UNCHANGED log
  BY <1>1 DEF Rank
<1>2. CASE ~Taken(q) /\ log' = [log EXCEPT ![q] = row]
  <2>1. q \in Requests
    BY DEF CreateLog, Inv, TaskInv, At
  <2>2. Rank(row.status) >= Rank(log[q].status)
    BY <1>2 DEF Taken, Logged, Rank
  <2>3. QED
    BY <1>2, <2>1, <2>2, RowRises DEF Inv, TypeOK
<1>3. QED
  BY <1>1, <1>2 DEF CreateLog

\* The record is written over a queued row only.
LEMMA RecordRowRises ==
  ASSUME Inv, NEW h \in Handlers, At(h, "record"), RecordRow(h)
  PROVE  \A r \in Requests : Rank(log'[r].status) >= Rank(log[r].status)
<1> DEFINE q == Mine(h)
           row == Recorded(log[q], task[h].status)
<1>1. q \in Requests /\ task[h].status \in Statuses /\ log[q] \in Log
  BY DEF Inv, TypeOK, TaskInv, At
<1>2. CASE log[q].status = "QUEUED"
  <2>1. row.status = task[h].status
    BY <1>1, <1>2 DEF Recorded, Log
  <2>2. Rank(row.status) >= Rank(log[q].status)
    BY <1>1, <1>2, <2>1 DEF Rank, Statuses
  <2>3. QED
    BY <1>1, <2>2, RowRises DEF RecordRow, Inv, TypeOK
<1>3. CASE log[q].status # "QUEUED"
  BY <1>1, <1>3, RowRises DEF RecordRow, Recorded, Rank, Inv, TypeOK
<1>4. QED
  BY <1>2, <1>3

\* FAILED is the last.
LEMMA CatchRises ==
  ASSUME Inv, NEW h \in Handlers, Catch(h)
  PROVE  \A r \in Requests : Rank(log'[r].status) >= Rank(log[r].status)
<1> DEFINE q == Mine(h)
           row == FailedRow(log[q])
<1>1. q \in Requests /\ log[q] \in Log
  BY DEF Catch, Inv, TypeOK, TaskInv, At
<1>2. row.status = "FAILED"
  BY <1>1 DEF FailedRow, Log
<1>3. Rank(row.status) >= Rank(log[q].status)
  BY <1>2 DEF Rank
<1>4. QED
  BY <1>1, <1>3, RowRises DEF Catch, Inv, TypeOK

LEMMA CallbackRises ==
  ASSUME Inv, NEW q \in Requests, Callback(q)
  PROVE  \A r \in Requests : Rank(log'[r].status) >= Rank(log[r].status)
<1>1. PICK event \in provider[q].events :
        /\ log[q].status \in ReplacedBy(CallbackStatus(event))
        /\ log' = [log EXCEPT ![q].status = CallbackStatus(event), ![q].tracked = TRUE]
  BY DEF Callback
<1> DEFINE row == [log[q] EXCEPT !.status = CallbackStatus(event), !.tracked = TRUE]
<1>2. row.status = CallbackStatus(event)
  BY DEF Inv, TypeOK, Log
<1>3. Rank(row.status) >= Rank(log[q].status)
  BY <1>1, <1>2 DEF ReplacedBy, CallbackStatus, Rank
<1>4. log' = [log EXCEPT ![q] = row]
  BY <1>1
<1>5. QED
  BY <1>3, <1>4, RowRises DEF Inv, TypeOK

LEMMA NextRises ==
  ASSUME Inv, [Next]_vars
  PROVE  \A r \in Requests : Rank(log'[r].status) >= Rank(log[r].status)
<1>1. CASE UNCHANGED log
  BY <1>1 DEF Rank
<1>2. ASSUME NEW h \in Handlers, Sending(h)
      PROVE  \A r \in Requests : Rank(log'[r].status) >= Rank(log[r].status)
  <2>1. CASE CreateLog(h)
    BY <2>1, CreateLogRises
  <2>2. CASE Record(h) \/ RecordFails(h)
    BY <2>2, <1>1, RecordRowRises DEF Record, RecordFails
  <2>3. CASE Catch(h)
    BY <2>3, CatchRises
  <2>4. QED
    BY <1>1, <1>2, <2>1, <2>2, <2>3
    DEF Sending, Find, Refuse, ReadRaced, HandOver, HandOverUnanswered, HandOverFails, CatchFails
<1>3. CASE \E q \in Requests : Callback(q)
  BY <1>3, CallbackRises
<1>4. QED
  BY <1>1, <1>2, <1>3 DEF Next, Call, Progress, Crash, vars

-----------------------------------------------------------------------------
(* What the statuses rest on.                                              *)

\* A row, and a call about to record one, say no more than has happened; a
\* message is read only after it was delivered.
Reported(h) ==
  At(h, "record") =>
    /\ task[h].status # "DELIVERED"
    /\ task[h].status = "SENT" /\ ~ByEmail(task[h].message) => "sent" \in provider[Mine(h)].events
Backed ==
  /\ StatusIsBacked
  /\ \A h \in Handlers : Reported(h)
  /\ \A q \in Requests : "read" \in provider[q].events => "delivered" \in provider[q].events

\* What the provider knows only grows.
Grows(q) ==
  /\ provider[q].copies > 0 => provider'[q].copies > 0
  /\ provider[q].events \subseteq provider'[q].events
  /\ "read" \in provider'[q].events => "delivered" \in provider'[q].events

\* A call of which the step leaves what it is about to record.
Keeps(h) ==
  task'[h].at = "record" =>
    /\ task[h].at = "record" /\ task'[h].status = task[h].status
    /\ task'[h].message = task[h].message /\ task'[h].request = task[h].request

LEMMA BackedFrame ==
  ASSUME Inv, Backed, \A q \in Requests : log'[q] = log[q] /\ Grows(q),
         \A h \in Handlers : Keeps(h)
  PROVE  Backed'
<1>1. StatusIsBacked'
  BY DEF Backed, StatusIsBacked, Grows, ByEmail
<1>2. ASSUME NEW h \in Handlers
      PROVE  Reported(h)'
  <2>1. At(h, "record") => Mine(h) \in Requests
    BY DEF Inv, TaskInv, At
  <2> QED
    BY <2>1 DEF Backed, Reported, Keeps, Grows, At, Mine, ByEmail
<1> QED
  BY <1>1, <1>2 DEF Backed, Grows

\* A row that is replaced by one that is backed.
LEMMA RowBacked ==
  ASSUME Inv, Backed, UNCHANGED provider, NEW q \in Requests, OtherRows(q),
         log'[q].status = "DELIVERED" => "delivered" \in provider[q].events,
         log'[q].status = "SENT" =>
           IF ByEmail(log'[q].message) THEN provider[q].copies > 0 ELSE "sent" \in provider[q].events,
         \A h \in Handlers : Keeps(h)
  PROVE  Backed'
<1>1. StatusIsBacked'
  BY DEF Backed, StatusIsBacked, OtherRows, ByEmail
<1>2. \A h \in Handlers : Reported(h)'
  BY DEF Backed, Reported, Keeps, At, Mine, ByEmail
<1> QED
  BY <1>1, <1>2 DEF Backed

\* The message goes to the provider, with what it says at once.
LEMMA AcceptedGrows ==
  ASSUME Inv, Backed, NEW q \in Requests, NEW events \in SUBSET {"accepted", "sent", "undelivered"},
         Accepted(q, events)
  PROVE  /\ \A r \in Requests : Grows(r)
         /\ events \subseteq provider'[q].events
<1> DEFINE new == [provider[q] EXCEPT !.copies = @ + 1, !.events = @ \cup events]
<1>1. provider[q] \in Provider /\ provider[q].copies \in Nat
  BY DeliveryAssumption DEF Inv, TypeOK, Provider
<1>2. /\ new.copies = provider[q].copies + 1
      /\ new.events = provider[q].events \cup events
  BY <1>1 DEF Provider
<1>3. provider' = [provider EXCEPT ![q] = new]
  BY DEF Accepted
<1>4. /\ provider'[q] = new
      /\ \A r \in Requests : r # q => provider'[r] = provider[r]
  BY <1>3 DEF Inv, TypeOK
<1> HIDE DEF new
<1>5. Grows(q) /\ events \subseteq provider'[q].events
  BY <1>1, <1>2, <1>4 DEF Grows, Backed
<1>6. ASSUME NEW r \in Requests, r # q
      PROVE  Grows(r)
  BY <1>4, <1>6, DeliveryAssumption DEF Grows, Backed, Inv, TypeOK, Provider
<1> QED
  BY <1>5, <1>6

LEMMA HandOverBacked ==
  ASSUME Inv, Backed, NEW h \in Handlers, HandOver(h)
  PROVE  Backed'
<1>1. PICK event \in {"accepted", "sent", "undelivered"} :
        /\ Accepted(Mine(h), {"accepted", event}) \/ Accepted(Mine(h), {"accepted"})
        /\ task' = [task EXCEPT ![h].at = "record", ![h].status = task'[h].status]
        /\ \/ ByEmail(task[h].message) /\ task'[h].status = "SENT"
           \/ /\ Accepted(Mine(h), {"accepted", event})
              /\ task'[h].status = NormalStatus(event)
  <2>1. task[h] \in Task
    BY DEF Inv, TypeOK
  <2>2. CASE ByEmail(task[h].message)
    <3>1. /\ Accepted(Mine(h), {"accepted"})
          /\ task' = [task EXCEPT ![h].at = "record", ![h].status = "SENT"]
      BY <2>2 DEF HandOver
    <3> QED
      BY <2>1, <2>2, <3>1 DEF Inv, TypeOK, Task
  <2>3. CASE ~ByEmail(task[h].message)
    <3>1. PICK event \in {"accepted", "sent", "undelivered"} :
            /\ Accepted(Mine(h), {"accepted", event})
            /\ task' = [task EXCEPT ![h].at = "record", ![h].status = NormalStatus(event)]
      BY <2>3 DEF HandOver
    <3> QED
      BY <2>1, <3>1 DEF Inv, TypeOK, Task
  <2> QED
    BY <2>2, <2>3
<1>2. /\ Mine(h) \in Requests
      /\ UNCHANGED log
  BY DEF HandOver, Inv, TaskInv, At
<1>3. /\ \A q \in Requests : Grows(q)
      /\ Accepted(Mine(h), {"accepted", event}) => event \in provider'[Mine(h)].events
  BY <1>1, <1>2, AcceptedGrows
<1>4. /\ Others(h)
      /\ task'[h].message = task[h].message /\ task'[h].request = task[h].request
  BY <1>1 DEF Others, Inv, TypeOK, Task
<1>5. Reported(h)'
  BY <1>1, <1>3, <1>4 DEF Reported, NormalStatus, ByEmail, Mine
<1>6. ASSUME NEW g \in Handlers, g # h
      PROVE  Reported(g)'
  <2>1. At(g, "record") => Mine(g) \in Requests
    BY DEF Inv, TaskInv, At
  <2> QED
    BY <1>3, <1>4, <1>6, <2>1 DEF Others, Backed, Reported, Grows, At, Mine, ByEmail
<1>7. StatusIsBacked'
  BY <1>2, <1>3 DEF Backed, StatusIsBacked, Grows, ByEmail
<1> QED
  BY <1>3, <1>5, <1>6, <1>7 DEF Backed, Grows

LEMMA RecordRowBacked ==
  ASSUME Inv, Backed, NEW h \in Handlers, At(h, "record"), RecordRow(h), UNCHANGED provider,
         \A g \in Handlers : Keeps(g)
  PROVE  Backed'
<1> DEFINE q == Mine(h)
<1>1. /\ q \in Requests /\ log[q] \in Log /\ OtherRows(q)
      /\ log'[q].message = log[q].message /\ log[q].message = task[h].message
      /\ provider[q].copies > 0
  BY RecordRowChanges DEF Inv, TypeOK, TaskInv, At
<1>2. log'[q] = Recorded(log[q], task[h].status)
  BY <1>1 DEF RecordRow, Inv, TypeOK
<1>3. log'[q].status \in {log[q].status, task[h].status}
  BY <1>1, <1>2 DEF Recorded, Log
<1>4. Reported(h)
  BY DEF Backed
<1> QED
  BY <1>1, <1>3, <1>4, RowBacked DEF Backed, StatusIsBacked, Reported, ByEmail

LEMMA CreateLogBacked ==
  ASSUME Inv, Backed, NEW h \in Handlers, CreateLog(h)
  PROVE  Backed'
<1>1. Mine(h) \in Requests
  BY DEF CreateLog, Inv, TaskInv, At
<1>2. \A g \in Handlers : Keeps(g)
  <2>1. Others(h) /\ task'[h].at # "record"
    BY GotoMoves DEF CreateLog, Moved, Inv, TypeOK
  <2> QED
    BY <2>1 DEF Keeps, Others
<1>3. CASE UNCHANGED log
  BY <1>2, <1>3, BackedFrame, DeliveryAssumption DEF CreateLog, Grows, Backed, Inv, TypeOK, Provider
<1>4. CASE ~UNCHANGED log
  <2>1. log' = [log EXCEPT ![Mine(h)] =
                  [status |-> "QUEUED", message |-> task[h].message, tracked |-> FALSE]]
    BY <1>4 DEF CreateLog
  <2>2. log'[Mine(h)].status = "QUEUED" /\ OtherRows(Mine(h))
    BY <1>1, <2>1 DEF OtherRows, Inv, TypeOK
  <2> QED
    BY <1>1, <1>2, <2>2, RowBacked DEF CreateLog
<1> QED
  BY <1>3, <1>4

\* FAILED needs nothing.
LEMMA CatchBacked ==
  ASSUME Inv, Backed, NEW h \in Handlers, Catch(h)
  PROVE  Backed'
<1> DEFINE q == Mine(h)
<1>1. q \in Requests /\ log[q] \in Log
  BY DEF Catch, Inv, TypeOK, TaskInv, At
<1>2. FailedRow(log[q]).status = "FAILED"
  BY <1>1 DEF FailedRow, Log
<1>3. log'[q] = FailedRow(log[q]) /\ OtherRows(q)
  BY <1>1 DEF Catch, OtherRows, Inv, TypeOK
<1>4. \A g \in Handlers : Keeps(g)
  <2>1. Others(h) /\ task'[h].at # "record"
    BY AnswerMoves DEF Catch, Moved, Inv, TypeOK
  <2> QED
    BY <2>1 DEF Keeps, Others
<1> QED
  BY <1>1, <1>2, <1>3, <1>4, RowBacked DEF Catch

\* A webhook says what has happened, and what is read was delivered.
LEMMA CallbackBacked ==
  ASSUME Inv, Backed, NEW q \in Requests, Callback(q)
  PROVE  Backed'
<1>1. PICK event \in provider[q].events :
        log' = [log EXCEPT ![q].status = CallbackStatus(event), ![q].tracked = TRUE]
  BY DEF Callback
<1>2. /\ OtherRows(q)
      /\ log'[q].status = CallbackStatus(event)
  BY <1>1 DEF OtherRows, Inv, TypeOK, Log
<1>3. /\ CallbackStatus(event) = "DELIVERED" => "delivered" \in provider[q].events
      /\ CallbackStatus(event) = "SENT" => "sent" \in provider[q].events
      /\ provider[q].copies > 0
  BY <1>1 DEF CallbackStatus, Backed, Inv, ProviderInv
<1>4. \A h \in Handlers : Keeps(h)
  BY DEF Callback, Keeps
<1> QED
  BY <1>2, <1>3, <1>4, RowBacked DEF Callback

LEMMA ProgressBacked ==
  ASSUME Inv, Backed, NEW q \in Requests, Progress(q)
  PROVE  Backed'
<1>1. PICK event \in Follows(provider[q].events) :
        provider' = [provider EXCEPT ![q].events = @ \cup {event}]
  BY DEF Progress
<1>2. /\ provider'[q].copies = provider[q].copies
      /\ provider'[q].events = provider[q].events \cup {event}
      /\ \A r \in Requests : r # q => provider'[r] = provider[r]
  BY <1>1 DEF Inv, TypeOK, Provider
<1>3. event = "read" => "delivered" \in provider[q].events
  BY <1>1 DEF Follows
<1>4. \A r \in Requests : provider[r].copies \in Nat
  BY DeliveryAssumption DEF Inv, TypeOK, Provider
<1>5. \A r \in Requests : Grows(r)
  BY <1>2, <1>3, <1>4 DEF Grows, Backed
<1>6. \A h \in Handlers : Keeps(h)
  BY DEF Progress, Keeps
<1> QED
  BY <1>5, <1>6, BackedFrame DEF Progress

LEMMA NextBacked ==
  ASSUME Inv, Backed, [Next]_vars
  PROVE  Backed'
<1> DEFINE Calm == \A h \in Handlers : Keeps(h)
<1>1. ASSUME UNCHANGED <<log, provider>>, Calm
      PROVE  Backed'
  BY <1>1, BackedFrame, DeliveryAssumption DEF Grows, Backed, Inv, TypeOK, Provider
<1>2. ASSUME NEW h \in Handlers, Goto(h, "create") \/ Goto(h, "raced") \/ Goto(h, "catch")
      PROVE  Calm
  BY <1>2, GotoMoves DEF Moved, Others, Keeps, Inv, TypeOK
<1>3. ASSUME NEW h \in Handlers,
             Answer(h, "item") \/ Answer(h, "conflict") \/ Answer(h, "error")
      PROVE  Calm
  BY <1>3, AnswerMoves DEF Moved, Others, Keeps, Inv, TypeOK
<1> HIDE DEF Calm
<1>4. ASSUME NEW h \in Handlers, NEW q \in Requests, NEW m \in Messages, Call(h, q, m)
      PROVE  Backed'
  <2>1. Calm
    BY <1>4 DEF Calm, Call, Keeps, NoTask, Inv, TypeOK
  <2> QED
    BY <1>1, <1>4, <2>1 DEF Call
<1>5. ASSUME NEW h \in Handlers, Find(h) \/ ReadRaced(h) \/ Refuse(h)
      PROVE  Backed'
  <2>1. Calm
    BY <1>2, <1>3, <1>5 DEF Find, ReadRaced, Refuse, AnswerFrom
  <2> QED
    BY <1>1, <1>5, <2>1 DEF Find, ReadRaced, Refuse
<1>6. ASSUME NEW h \in Handlers, HandOverFails(h) \/ CatchFails(h)
      PROVE  Backed'
  <2>1. Calm
    BY <1>2, <1>3, <1>6 DEF HandOverFails, CatchFails
  <2> QED
    BY <1>1, <1>6, <2>1 DEF HandOverFails, CatchFails
<1>7. ASSUME NEW h \in Handlers, HandOverUnanswered(h)
      PROVE  Backed'
  <2>1. Calm
    BY <1>2, <1>7 DEF HandOverUnanswered
  <2>2. Mine(h) \in Requests
    BY <1>7 DEF HandOverUnanswered, Inv, TaskInv, At
  <2>3. \A q \in Requests : Grows(q)
    BY <1>7, <2>2, AcceptedGrows DEF HandOverUnanswered
  <2> QED
    BY <1>7, <2>1, <2>3, BackedFrame DEF HandOverUnanswered, Calm
<1>8. ASSUME NEW h \in Handlers, Record(h)
      PROVE  Backed'
  BY <1>3, <1>8, RecordRowBacked DEF Record, Calm
<1>9. ASSUME NEW h \in Handlers, RecordFails(h)
      PROVE  Backed'
  <2>1. Calm
    BY <1>2, <1>9 DEF RecordFails
  <2>2. CASE UNCHANGED log
    BY <1>1, <1>9, <2>1, <2>2 DEF RecordFails
  <2>3. CASE RecordRow(h)
    BY <1>9, <2>1, <2>3, RecordRowBacked DEF RecordFails, Calm
  <2> QED
    BY <1>9, <2>2, <2>3 DEF RecordFails
<1>10. CASE Crash
  <2>1. Calm
    BY <1>10 DEF Calm, Crash, Keeps, NoTask
  <2> QED
    BY <1>1, <1>10, <2>1 DEF Crash
<1>11. CASE UNCHANGED vars
  <2>1. Calm
    BY <1>11 DEF Calm, vars, Keeps
  <2> QED
    BY <1>1, <1>11, <2>1 DEF vars
<1> QED
  BY <1>4, <1>5, <1>6, <1>7, <1>8, <1>9, <1>10, <1>11, CreateLogBacked, HandOverBacked,
     CatchBacked, ProgressBacked, CallbackBacked
  DEF Next, Sending

-----------------------------------------------------------------------------
(* The theorems.                                                           *)

\* The inductive invariant holds.
THEOREM InvHolds == Spec => []Inv
<1>1. Init => Inv
  BY InitInv
<1>2. Inv /\ [Next]_vars => Inv'
  BY NextKeepsInv
<1>3. QED
  BY <1>1, <1>2, PTL DEF Spec

\* Types, and what is tracked is with the provider.
THEOREM TypesHold == Spec => []TypeOK
<1>1. Inv => TypeOK
  BY DEF Inv
<1>2. QED
  BY <1>1, InvHolds, PTL

\* sendInspectionReport hands the message of a request id over at most once,
\* however many calls repeat it and whatever fails or crashes between.
THEOREM OneHandOver == Spec => []HandedOverOnce
<1>1. Inv => HandedOverOnce
  BY DEF Inv
<1>2. QED
  BY <1>1, InvHolds, PTL

\* An item answers a call of the same message, on the first read and after the
\* unique constraint refused the insert.
THEOREM OwnAnswer == Spec => []AnswersOwnMessage
<1>1. Inv => AnswersOwnMessage
  BY DEF Inv
<1>2. QED
  BY <1>1, InvHolds, PTL

\* No order or repetition of webhooks, with the handler's record and its catch
\* block between them, takes the status of a row back.
THEOREM NoReturn == Spec => StatusNeverReturns
<1>1. Inv /\ [Next]_vars => [\A q \in Requests : Rank(log'[q].status) >= Rank(log[q].status)]_vars
  BY NextRises
<1>2. QED
  BY <1>1, InvHolds, PTL DEF Spec, StatusNeverReturns

\* No row says more than the provider has, whichever of the handler, its catch
\* block and the webhooks wrote it last.
THEOREM BackedStatuses == Spec => []StatusIsBacked
<1>1. Init => Backed
  BY DEF Init, Backed, StatusIsBacked, Reported, NoLog, NoTask, At
<1>2. Inv /\ Inv' /\ Backed /\ [Next]_vars => Backed'
  BY NextBacked
<1>3. Backed => StatusIsBacked
  BY DEF Backed
<1>4. QED
  BY <1>1, <1>2, <1>3, InvHolds, PTL DEF Spec
=============================================================================
