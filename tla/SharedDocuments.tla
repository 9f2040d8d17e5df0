---------------------------- MODULE SharedDocuments ----------------------------
(***************************************************************************)
(* Documents of the AppJsonRow table that two sides write: support tickets *)
(* and demo requests, which the browsers of a workshop save as a whole and *)
(* the platform's support patches and replies to.  The id of a document is *)
(* unique over all workshops, so every write asks first whose it is.       *)
(***************************************************************************)
EXTENDS Naturals, FiniteSets

CONSTANTS
  Documents,     \* entity ids
  Organizations,
  Users,         \* users of workshops, each with a browser
  Workshop,      \* the workshop of each user
  Agents,        \* the platform's requests in progress
  None,
  MaxRequests    \* bound: requests, which number the messages

Actors == Users \cup Agents
Messages == 1..MaxRequests
Thread == SUBSET Messages

\* creator: createdByUserId of the payload.
Row == [org: Organizations, creator: Users, thread: Thread]

SharedDocumentsAssumption ==
  /\ Workshop \in [Users -> Organizations]
  /\ Users \cap Agents = {}
  /\ None \notin Users \cup Organizations \cup Documents \cup Nat \cup Row
  /\ \A thread \in Thread : thread # None
  /\ MaxRequests \in Nat

VARIABLES
  row,     \* the rows of the collection
  copy,    \* what each browser has loaded or sent of each document
  task,    \* the request of each user and agent
  stale,   \* by document: those whose copy or reading is older than another's write
  raced,   \* those whose question whose it is was, too
  owed,    \* by document: the messages nobody has a reason to have lost
  owner,   \* the workshop that created it
  author,  \* the user who did
  requests \* how many there were

vars == <<row, copy, task, stale, raced, owed, owner, author, requests>>

-----------------------------------------------------------------------------
Task == [at: {"idle", "again", "check", "write", "look", "remove", "foreign", "commit"},
         document: Documents \cup {None}, org: Organizations \cup {None},
         creator: Users \cup {None}, thread: Thread, message: Messages \cup {None},
         items: [Documents -> Thread \cup {None}]]
NoTask == [at |-> "idle", document |-> None, org |-> None, creator |-> None, thread |-> {},
           message |-> None, items |-> [d \in Documents |-> None]]

TypeOK ==
  /\ row \in [Documents -> Row \cup {None}]
  /\ copy \in [Users -> [Documents -> Thread \cup {None}]]
  /\ task \in [Actors -> Task]
  /\ stale \in [Documents -> SUBSET Actors] /\ raced \subseteq Actors
  /\ owed \in [Documents -> Thread]
  /\ owner \in [Documents -> Organizations \cup {None}]
  /\ author \in [Documents -> Users \cup {None}]
  /\ requests \in 0..MaxRequests

Init ==
  /\ row = [d \in Documents |-> None]
  /\ copy = [u \in Users |-> [d \in Documents |-> None]]
  /\ task = [a \in Actors |-> NoTask]
  /\ stale = [d \in Documents |-> {}] /\ raced = {}
  /\ owed = [d \in Documents |-> {}]
  /\ owner = [d \in Documents |-> None] /\ author = [d \in Documents |-> None]
  /\ requests = 0

At(a, step) == task[a].at = step
Request(a) == At(a, "idle") /\ requests < MaxRequests /\ requests' = requests + 1
Fresh == requests + 1
Goto(a, step) == task' = [task EXCEPT ![a].at = step]
Return(a) == task' = [task EXCEPT ![a] = NoTask]
\* An agent's page is read again by the next request, a browser's is not.
Done(a) ==
  /\ Return(a)
  /\ raced' = raced \ {a}
  /\ stale' = [d \in Documents |-> stale[d] \ ({a} \cap Agents)]

\* With a bug: a document is never another workshop's.
NobodyElses(d, org) == FALSE
Foreign(d, org) == row[d] # None /\ row[d].org # org
Own(d, org) == row[d] # None /\ row[d].org = org

\* A write of some documents: what the others go by has changed.
Followers(d) == Users \cup {g \in Agents : task[g].document = d}
Overtakes(a, written) ==
  /\ stale' = [d \in Documents |-> IF d \in written THEN Followers(d) \ {a} ELSE stale[d]]
  /\ raced' = (raced \cup {b \in Actors : /\ task[b].at \in {"write", "remove"}
                                        /\ task[b].document \in written}) \ {a}

UnchangedRows == UNCHANGED <<row, owed, owner, author>>

-----------------------------------------------------------------------------
(* The browsers of a workshop: the generic routes of a collection.         *)

\* listCollectionItems: the rows of the workshop.
Load(u) ==
  LET loaded == [d \in Documents |-> IF Own(d, Workshop[u]) THEN row[d].thread ELSE None] IN
  /\ At(u, "idle")
  /\ \E d \in Documents : u \in stale[d]
  /\ copy' = [copy EXCEPT ![u] = loaded]
  /\ stale' = [d \in Documents |-> stale[d] \ {u}]
  /\ UNCHANGED <<task, raced, requests>> /\ UnchangedRows

\* A browser sends a document as it has it, perhaps with a new message.
Shown(u, d) == IF copy[u][d] = None THEN {} ELSE copy[u][d]
Put(u, d, message) ==
  LET thread == Shown(u, d) \cup ({message} \ {None}) IN
  /\ Request(u)
  /\ task' = [task EXCEPT ![u] = [NoTask EXCEPT !.at = "check", !.document = d, !.org = Workshop[u],
                                    !.creator = u, !.thread = thread, !.message = message]]
  /\ copy' = [copy EXCEPT ![u][d] = thread]
  /\ UNCHANGED <<stale, raced>> /\ UnchangedRows

Delete(u, d) ==
  /\ Request(u)
  /\ task' = [task EXCEPT ![u] = [NoTask EXCEPT !.at = "look", !.document = d, !.org = Workshop[u]]]
  /\ copy' = [copy EXCEPT ![u][d] = None]
  /\ UNCHANGED <<stale, raced>> /\ UnchangedRows

\* postSnapshot of some of the documents: the others are to be deleted.
PostSnapshot(u, sent) ==
  LET items == [d \in Documents |-> IF d \in sent THEN Shown(u, d) ELSE None] IN
  /\ Request(u)
  /\ task' = [task EXCEPT ![u] = [NoTask EXCEPT !.at = "foreign", !.org = Workshop[u],
                                    !.creator = u, !.items = items]]
  /\ copy' = [copy EXCEPT ![u] = items]
  /\ UNCHANGED <<stale, raced>> /\ UnchangedRows

-----------------------------------------------------------------------------
(* The platform's support.                                                 *)

\* loadTicketRow, loadDemoRow: of any workshop.
BeginTask(g, d, step, message) ==
  /\ Request(g)
  /\ row[d] # None
  /\ task' = [task EXCEPT ![g] =
       [NoTask EXCEPT !.at = step, !.document = d, !.org = row[d].org, !.creator = row[d].creator,
                      !.thread = row[d].thread, !.message = message]]
  /\ UNCHANGED <<copy, stale, raced>> /\ UnchangedRows

\* patchSupportTicket goes by the first reading; replySupportTicket and
\* patchDemoRequest read again.
PatchSupportTicket(g, d) == BeginTask(g, d, "check", None)
ReplySupportTicket(g, d) == BeginTask(g, d, "again", Fresh)
PatchDemoRequest(g, d) == BeginTask(g, d, "again", None)

\* getCollectionItem; a document that is gone is taken from the first reading.
Latest(g) ==
  LET d == task[g].document
  IN  IF Own(d, task[g].org) THEN [thread |-> row[d].thread, creator |-> row[d].creator]
                             ELSE [thread |-> task[g].thread, creator |-> task[g].creator]

ReadAgain(g) ==
  /\ At(g, "again")
  /\ task' = [task EXCEPT ![g].at = "check", ![g].creator = Latest(g).creator,
                          ![g].thread = Latest(g).thread \cup ({task[g].message} \ {None})]
  /\ stale' = IF Own(task[g].document, task[g].org)
                THEN [stale EXCEPT ![task[g].document] = @ \ {g}] ELSE stale
  /\ UNCHANGED <<copy, raced, requests>> /\ UnchangedRows

-----------------------------------------------------------------------------
(* upsertCollectionItem: whose it is, then the write.                      *)

CheckOwner(a) ==
  LET d == task[a].document IN
  /\ At(a, "check")
  /\ IF Foreign(d, task[a].org)
       THEN Done(a)
       ELSE /\ task' = [task EXCEPT ![a].at = "write",
                          ![a].creator = IF a \in Users /\ row[d] # None THEN row[d].creator ELSE @]
            /\ UNCHANGED <<stale, raced>>
  /\ UNCHANGED <<copy, requests>> /\ UnchangedRows

\* What of the messages is left, when a writes this thread.
StillOwed(a, d, thread) == IF a \in stale[d] THEN owed[d] \cap thread ELSE owed[d]

Write(a) ==
  LET d == task[a].document
      new == row[d] = None \/ a \in raced
  IN  /\ At(a, "write")
      /\ row' = [row EXCEPT ![d] = [org |-> task[a].org, creator |-> task[a].creator,
                                    thread |-> task[a].thread]]
      /\ owed' = [owed EXCEPT ![d] = StillOwed(a, d, task[a].thread)
                                       \cup ({task[a].message} \ {None})]
      /\ owner' = [owner EXCEPT ![d] = IF new THEN task[a].org ELSE @]
      /\ author' = [author EXCEPT ![d] = IF new \/ a \in stale[d] \cap Agents
                                                 THEN task[a].creator ELSE @]
      /\ Overtakes(a, {d}) /\ Return(a)
      /\ UNCHANGED <<copy, requests>>

-----------------------------------------------------------------------------
(* deleteCollectionItem: whose it is, then the deletion by id.             *)

Look(u) ==
  /\ At(u, "look")
  /\ IF Own(task[u].document, task[u].org)
       THEN Goto(u, "remove") /\ UNCHANGED <<stale, raced>>
       ELSE Done(u)
  /\ UNCHANGED <<copy, requests>> /\ UnchangedRows

\* The deletion of a row that is gone fails, and nothing follows.
Remove(u) ==
  LET d == task[u].document
      mine == u \in raced \/ owner[d] = task[u].org
  IN  /\ At(u, "remove")
      /\ IF row[d] = None
           THEN Done(u) /\ UnchangedRows
           ELSE /\ row' = [row EXCEPT ![d] = None]
                /\ owed' = [owed EXCEPT ![d] = {}]
                /\ owner' = [owner EXCEPT ![d] = IF mine THEN None ELSE @]
                /\ author' = [author EXCEPT ![d] = IF mine THEN None ELSE @]
                /\ Overtakes(u, {d}) /\ Return(u)
      /\ UNCHANGED <<copy, requests>>

-----------------------------------------------------------------------------
(* replaceCollectionArray: no foreign ids, then all rows in a transaction. *)

\* A snapshot that is refused leaves the browser behind.
CheckForeign(u) ==
  /\ At(u, "foreign")
  /\ IF \E d \in Documents : task[u].items[d] # None /\ Foreign(d, task[u].org)
       THEN /\ Return(u)
            /\ stale' = [d \in Documents |->
                 IF task[u].items[d] = None THEN stale[d] \cup {u} ELSE stale[d]]
            /\ UNCHANGED raced
       ELSE Goto(u, "commit") /\ UNCHANGED <<stale, raced>>
  /\ UNCHANGED <<copy, requests>> /\ UnchangedRows

\* deleteMany of the workshop, createMany with skipDuplicates: a row another
\* workshop has created meanwhile stays.
Commit(u) ==
  LET org == task[u].org
      sent == {d \in Documents : task[u].items[d] # None}
      Kept(d) == Foreign(d, org)
      written == {d \in Documents : ~Kept(d) /\ (d \in sent \/ row[d] # None)}
      Creator(d, stored) == IF row[d] = None THEN task[u].creator ELSE stored
      Replaced(d) == [org |-> org, thread |-> task[u].items[d],
                      creator |-> IF row[d] = None THEN task[u].creator ELSE row[d].creator]
  IN  /\ At(u, "commit")
      /\ row' = [d \in Documents |-> IF Kept(d) THEN row[d]
                                     ELSE IF d \in sent THEN Replaced(d) ELSE None]
      /\ owed' = [d \in Documents |->
           IF Kept(d) THEN owed[d]
           ELSE IF d \in sent THEN StillOwed(u, d, task[u].items[d]) ELSE {}]
      /\ owner' = [d \in Documents |->
           IF Kept(d) THEN owner[d] ELSE IF d \in sent THEN org ELSE None]
      /\ author' = [d \in Documents |->
           IF Kept(d) THEN author[d] ELSE IF d \in sent THEN Creator(d, author[d]) ELSE None]
      /\ Overtakes(u, written) /\ Return(u)
      /\ UNCHANGED <<copy, requests>>

-----------------------------------------------------------------------------

Next ==
  \/ \E u \in Users :
       \/ Load(u) \/ Look(u) \/ Remove(u) \/ CheckForeign(u) \/ Commit(u)
       \/ \E sent \in SUBSET Documents : PostSnapshot(u, sent)
       \/ \E d \in Documents : Delete(u, d) \/ Put(u, d, Fresh) \/ Put(u, d, None)
  \/ \E g \in Agents :
       \/ ReadAgain(g)
       \/ \E d \in Documents :
            PatchSupportTicket(g, d) \/ ReplySupportTicket(g, d) \/ PatchDemoRequest(g, d)
  \/ \E a \in Actors : CheckOwner(a) \/ Write(a)

Spec == Init /\ [][Next]_vars

-----------------------------------------------------------------------------
(* Properties.                                                             *)

\* "Re-read via collection helper so we merge against latest payload": a
\* message that was stored stays on its ticket, and the ticket with its
\* workshop and under the name of its creator, whatever saves, snapshots,
\* deletions and replies of both sides follow, but where one went by a page of
\* that ticket older than another's write, or than a snapshot that was refused
\* (support-tickets.controller.ts, app-json-store.ts).
TicketsStand ==
  \A d \in Documents :
    IF row[d] = None THEN owed[d] = {} /\ owner[d] = None
    ELSE owed[d] \subseteq row[d].thread /\ row[d].org = owner[d] /\ row[d].creator = author[d]
=============================================================================
