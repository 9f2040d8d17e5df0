--------------------------------- MODULE Books ---------------------------------
(***************************************************************************)
(* The cash book and the vendor directory: one document per workshop,      *)
(* saved as a whole by every browser that changes an entry.  A save keeps  *)
(* the lists its form leaves empty, and moves a document stored under the  *)
(* old shared id to the id of the workshop.                                *)
(***************************************************************************)
EXTENDS Naturals, FiniteSets

CONSTANTS
  Entries,    \* accounts, transactions, vendors
  Lists,      \* the lists of a document: disjoint sets of entries
  Vendors,    \* entries that are mirrored to the Party table
  Local,      \* entries a user of one branch is shown
  Workers,    \* browsers, each with the save it has in progress
  None,
  MaxRequests \* bound: loads, saves and failures

BooksAssumption ==
  /\ IsFiniteSet(Entries)
  /\ UNION Lists = Entries
  /\ \A L, K \in Lists : L # K => L \cap K = {}
  /\ Vendors \subseteq Entries /\ Local \subseteq Entries
  /\ \A entries \in SUBSET Entries : entries # None
  /\ MaxRequests \in Nat

VARIABLES
  scoped,    \* the row {organization}::default, None if there is none
  legacy,    \* the row "default" of the time before workshops were told apart
  mirrored,  \* vendors with a row in the Party table
  missed,    \* vendors whose mirror ended in an error
  task,      \* the save of each browser
  seen,      \* entries each browser has loaded or sent
  overtaken, \* browsers whose save read before another write
  last,      \* what the saves should have left
  requests   \* how many there were

vars == <<scoped, legacy, mirrored, missed, task, seen, overtaken, last, requests>>

-----------------------------------------------------------------------------
(* Documents.                                                              *)

Document == SUBSET Entries
Payload(row) == IF row = None THEN {} ELSE row

\* getCollectionItem and listCollectionItems: the scoped row before the old one.
Visible == IF scoped # None THEN scoped ELSE Payload(legacy)

Save == [at: {"idle", "look", "find", "drop", "store", "mirror"},
         form: Document, kept: Document, dropped: BOOLEAN, todo: SUBSET Vendors]
NoSave == [at |-> "idle", form |-> {}, kept |-> {}, dropped |-> FALSE, todo |-> {}]

At(w, step) == task[w].at = step
Writing(w) == ~At(w, "idle") /\ ~At(w, "mirror")

TypeOK ==
  /\ scoped \in Document \cup {None} /\ legacy \in Document \cup {None}
  /\ mirrored \subseteq Vendors /\ missed \subseteq Vendors
  /\ task \in [Workers -> Save]
  /\ seen \in [Workers -> SUBSET Entries]
  /\ overtaken \subseteq {w \in Workers : Writing(w)}
  /\ last \in Document
  /\ requests \in 0..MaxRequests

Init ==
  /\ scoped = None
  /\ legacy \in Document \cup {None}
  /\ mirrored = {} /\ missed = {}
  /\ task = [w \in Workers |-> NoSave]
  /\ seen = [w \in Workers |-> {}]
  /\ overtaken = {}
  /\ last = Payload(legacy)
  /\ requests = 0

Request == requests < MaxRequests /\ requests' = requests + 1
Return(w) == task' = [task EXCEPT ![w] = NoSave]
Overtakes(w) == overtaken' = (overtaken \cup {v \in Workers : Writing(v)}) \ {w}

-----------------------------------------------------------------------------
(* Loading and saving.                                                     *)

\* A user of one branch, and one who has chosen a branch, get its entries.
Load(w) ==
  /\ At(w, "idle") /\ Request
  /\ \E shown \in {Visible, Visible \cap Local} : seen' = [seen EXCEPT ![w] = shown]
  /\ UNCHANGED <<scoped, legacy, mirrored, missed, task, overtaken, last>>

\* With a bug: a list that comes without items is emptied.
AsSent(form, stored) == form
\* upsertCashBank, upsertExpenseMeta: a list without items is kept as stored.
Merge(form, stored) == UNION {IF form \cap L # {} THEN form \cap L ELSE stored \cap L : L \in Lists}

\* A form has what the browser has loaded and entries that are new.  The
\* scoped row is read; the other one only if it is not there.
PutDocument(w, form) ==
  /\ At(w, "idle") /\ Request
  /\ form \subseteq seen[w] \cup (Entries \ (Payload(scoped) \cup Payload(legacy)))
  /\ task' = [task EXCEPT ![w] = [NoSave EXCEPT
                !.at = IF scoped # None THEN "find" ELSE "look",
                !.form = form, !.kept = Merge(form, Payload(scoped))]]
  /\ seen' = [seen EXCEPT ![w] = @ \cup form]
  /\ overtaken' = IF \E v \in Workers : task[v].dropped THEN overtaken \cup {w} ELSE overtaken
  /\ UNCHANGED <<scoped, legacy, mirrored, missed, last>>

LookAtLegacy(w) ==
  /\ At(w, "look")
  /\ task' = [task EXCEPT ![w].at = "find", ![w].kept = Merge(task[w].form, Payload(legacy))]
  /\ UNCHANGED <<scoped, legacy, mirrored, missed, seen, overtaken, last, requests>>

\* upsertCollectionItem: with no scoped row, the old one is deleted first.
FindRow(w) ==
  /\ At(w, "find")
  /\ task' = [task EXCEPT ![w].at = IF scoped = None /\ legacy # None THEN "drop" ELSE "store"]
  /\ UNCHANGED <<scoped, legacy, mirrored, missed, seen, overtaken, last, requests>>

DropLegacy(w) ==
  /\ At(w, "drop") /\ legacy # None
  /\ legacy' = None
  /\ task' = [task EXCEPT ![w].at = "store", ![w].dropped = TRUE]
  /\ Overtakes(w)
  /\ UNCHANGED <<scoped, mirrored, missed, seen, last, requests>>

\* Another save has deleted it: the delete throws.
DropTwice(w) ==
  /\ At(w, "drop") /\ legacy = None
  /\ Return(w)
  /\ overtaken' = overtaken \ {w}
  /\ UNCHANGED <<scoped, legacy, mirrored, missed, seen, last, requests>>

\* Of each list the last items that were sent, if any ever were.
LastSaved(form) ==
  {e \in form \cup last : \A L \in Lists : e \in L /\ form \cap L # {} => e \in form}

StoreDocument(w) ==
  /\ At(w, "store")
  /\ scoped' = task[w].kept
  /\ last' = IF w \in overtaken THEN scoped' ELSE LastSaved(task[w].form)
  /\ task' = [task EXCEPT ![w] = [NoSave EXCEPT !.todo = scoped' \cap Vendors,
                !.at = IF scoped' \cap Vendors = {} THEN "idle" ELSE "mirror"]]
  /\ Overtakes(w)
  /\ UNCHANGED <<legacy, mirrored, missed, seen, requests>>

\* A query fails or the server stops.  Between the two writes of a move the
\* document is in neither row.
Fail(w) ==
  /\ Writing(w) /\ Request
  /\ Return(w)
  /\ overtaken' = overtaken \ {w}
  /\ last' = IF task[w].dropped THEN Visible ELSE last
  /\ UNCHANGED <<scoped, legacy, mirrored, missed, seen>>

-----------------------------------------------------------------------------
(* mirrorVendorsToPartyTable, in the background.                           *)

MirrorOne(w, e) ==
  /\ At(w, "mirror") /\ e \in task[w].todo
  /\ mirrored' = mirrored \cup {e}
  /\ missed' = missed \ {e}
  /\ IF task[w].todo = {e} THEN Return(w) ELSE task' = [task EXCEPT ![w].todo = @ \ {e}]
  /\ UNCHANGED <<scoped, legacy, seen, overtaken, last, requests>>

\* The first error ends the mirror; nobody is told.
MirrorFails(w) ==
  /\ At(w, "mirror") /\ Request
  /\ missed' = missed \cup (task[w].todo \ mirrored)
  /\ Return(w)
  /\ UNCHANGED <<scoped, legacy, mirrored, seen, overtaken, last>>

Next ==
  \E w \in Workers :
    \/ Load(w) \/ LookAtLegacy(w) \/ FindRow(w) \/ DropLegacy(w) \/ DropTwice(w)
    \/ StoreDocument(w) \/ Fail(w) \/ MirrorFails(w)
    \/ \E form \in Document : PutDocument(w, form)
    \/ \E e \in Vendors : MirrorOne(w, e)

Spec == Init /\ [][Next]_vars

\* Whatever saves, moves to the scoped row and failures there were, the book
\* shows the last items that were saved of each list, and every vendor it shows
\* has a row of its own when the mirrors are done.  Left out are a save that
\* read before another one wrote, a failure between the two writes of a move,
\* and, of the vendors, those whose mirror ended in an error or that no save
\* has written since they were moved.
BooksKept ==
  \/ \E w \in Workers : task[w].dropped
  \/ /\ Visible = last
     /\ (\A w \in Workers : ~At(w, "mirror")) => Payload(scoped) \cap Vendors \subseteq mirrored \cup missed
=============================================================================
