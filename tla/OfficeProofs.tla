------------------------------ MODULE OfficeProofs ------------------------------
(***************************************************************************)
(* Theorems about the parts of OfficeParts, for any values of their        *)
(* constants.  Each is proved of a part alone, from its own invariant, and *)
(* holds of OfficeParts because a behaviour of all is one of each          *)
(* (EachPartRuns).                                                         *)
(*                                                                         *)
(* Bookings: for any appointments and any number of requests at once, the  *)
(* requests to pick a vehicle up and to bring it back follow their         *)
(* appointment.  That is settled only between saves; a save of an          *)
(* appointment that is not set aside is the only one at work on it         *)
(* (Alone), and how far it has got says what it has left to do (Progress). *)
(*                                                                         *)
(* Reminders: for any reminders and any number of runs of the job, a       *)
(* reminder is sent once for each date it is due at.  The messages alone   *)
(* do not say why.  What keeps the next one apart is that a reminder still *)
(* to be sent is due later than every message (Ahead), and that a run      *)
(* which may send it goes by the stored version and is the only one        *)
(* (Tracked).                                                              *)
(*                                                                         *)
(* SharedDocuments: for any documents, workshops, browsers and agents, no  *)
(* message is lost, and a document stays its workshop's and its creator's, *)
(* but where a request went by an old page.  Nothing is locked between the *)
(* reading of a document and its write.  What a request goes by still      *)
(* holds when it writes (Asked, Reads, Shows), or a write came in between: *)
(* that one has made the request stale, or has raced it.                   *)
(*                                                                         *)
(* Books: for any entries, lists and browsers, the book shows the last     *)
(* items saved of each list.  A save that nothing has overtaken stores     *)
(* them with its own (Fresh, by MergedIsLast); between the deletion of the *)
(* shared row and the write of the workshop's, the book is in the save     *)
(* alone, and no row can come back in between (Moved).                     *)
(*                                                                         *)
(* PlanCatalog: for any codes, workshops and admins, a change of a plan is *)
(* read back as that change and nothing else, from either format of the    *)
(* payload (ReadsBack), and a plan that a workshop has stays.  The count   *)
(* of workshops and the write are apart: what a request has read is what   *)
(* is stored, or it has been overtaken (Current).                          *)
(*                                                                         *)
(* Clients: for any customers, vehicles and lengths of imports, what a     *)
(* customer was told lets them into the portal, and an import gives no two *)
(* vehicles one plate, but where a request was overtaken or two were at    *)
(* work on one customer.  One request is at work on a customer (OneJob);   *)
(* what a request looked for before its write has not come since, or it    *)
(* was overtaken (Sought); a password on its way is the stored one         *)
(* (WillSend, Told).                                                       *)
(*                                                                         *)
(* Wallet: for any browsers, invoices and payments, the balance is never   *)
(* negative, what a stored invoice says was paid from the wallet is what   *)
(* its rows debit, and the extra of each of its payments has been credited *)
(* and stamped (CustomerWallet).  The wallet and the invoice are two       *)
(* writes, and between them the rows are ahead of the invoice by one save. *)
(* The invariant says which: an invoice that nobody has set aside is open  *)
(* in one browser (OneBrowser), whose request has read what is stored      *)
(* (ReadsStored), so the rows are those of the content that request is     *)
(* about to store, or of the stored one (Booked).  A stamp is what keeps   *)
(* an extra from being credited twice or never (Stamped).                  *)
(*                                                                         *)
(* Targets: for any settings, members and invoices, the shares of a period *)
(* are what its tiers have to give, and the periods of a year have its     *)
(* revenue.  Nothing here is about steps: it is what the computation gives *)
(* for any settings, members and invoices of their types.  A sum over the  *)
(* members is cut into sums over those who get of one tier (PaidByTier),   *)
(* which give each of them the same, rounded by half a cent (BreakdownIs); *)
(* the year is cut into its periods (PeriodsAre).  Sums has the lemmas.    *)
(***************************************************************************)
EXTENDS OfficeParts, Sequences, Sums

-----------------------------------------------------------------------------
(* Parts and whole.                                                        *)

\* A behaviour of all the parts is a behaviour of each of them.
THEOREM EachPartRuns ==
  OfficeSpec => /\ W!Spec /\ Spec /\ A!Spec /\ R!Spec /\ B!Spec
                /\ C!Spec /\ T!Spec /\ P!Spec /\ D!Spec
<1>1. OfficeInit => Init /\ W!Init /\ A!Init /\ R!Init /\ B!Init /\ C!Init /\ T!Init /\ P!Init
                    /\ D!Init
  BY DEF OfficeInit
<1>2. [OfficeNext]_officeVars =>
        /\ [Next]_vars /\ [W!Next]_(W!vars) /\ [A!Next]_(A!vars) /\ [R!Next]_(R!vars)
        /\ [B!Next]_(B!vars) /\ [C!Next]_(C!vars) /\ [T!Next]_(T!vars) /\ [P!Next]_(P!vars)
        /\ [D!Next]_(D!vars)
  <2> USE DEF OfficeNext, officeVars, vars, walletVars, bookVars, runVars, saveVars, clientVars,
              targetVars, planVars, ticketVars
  <2>1. [OfficeNext]_officeVars => [Next]_vars
    BY DEF vars
  <2>2. [OfficeNext]_officeVars => [W!Next]_(W!vars)
    BY DEF W!vars
  <2>3. [OfficeNext]_officeVars => [A!Next]_(A!vars)
    BY DEF A!vars
  <2>4. [OfficeNext]_officeVars => [R!Next]_(R!vars)
    BY DEF R!vars
  <2>5. [OfficeNext]_officeVars => [B!Next]_(B!vars)
    BY DEF B!vars
  <2>6. [OfficeNext]_officeVars => [C!Next]_(C!vars)
    BY DEF C!vars
  <2>7. [OfficeNext]_officeVars => [T!Next]_(T!vars)
    BY DEF T!vars
  <2>8. [OfficeNext]_officeVars => [P!Next]_(P!vars)
    BY DEF P!vars
  <2>9. [OfficeNext]_officeVars => [D!Next]_(D!vars)
    BY DEF D!vars
  <2> HIDE DEF OfficeNext, officeVars, vars
  <2> QED
    BY <2>1, <2>2, <2>3, <2>4, <2>5, <2>6, <2>7, <2>8, <2>9
<1> QED
  BY <1>1, <1>2, PTL
  DEF OfficeSpec, Spec, W!Spec, A!Spec, R!Spec, B!Spec, C!Spec, T!Spec, P!Spec, D!Spec

\* The finite sets of CustomerWallet are those of the library.
LEMMA WalletFinite ==
  \A X : /\ W!IsFiniteSet(X) <=> IsFiniteSet(X)
         /\ W!Cardinality(X) = Cardinality(X)
<1> TAKE X
<1>1. W!IsFiniteSet(X) <=> IsFiniteSet(X)
  BY DEF W!IsFiniteSet, IsFiniteSet
<1>2. W!Cardinality(X) = Cardinality(X)
  BY DEF W!Cardinality, Cardinality
<1> QED
  BY <1>1, <1>2

-----------------------------------------------------------------------------
(* Bookings: the inductive invariant.                                      *)

\* What is stored of an appointment when no request is at work on it.
Settled(a) ==
  /\ \A l \in A!Legs : leg[a][l] # "none" <=> document[a] = "true"
  /\ row[a] = document[a]

\* The legs a request has come to, or all that it will not come to, are as
\* they shall be.
Placed(w, a) == \A l \in A!Legs \ bookTask[w].todo : leg[a][l] # "none"
Cleared(w, a) == \A l \in A!Legs \ bookTask[w].todo : leg[a][l] = "none"

\* How far the request of w has got with a.
Progress(w, a) ==
  /\ A!At(w, "store") => /\ Settled(a) /\ bookTask[w].previous = document[a]
                         /\ bookTask[w].required \in A!Required
                         /\ bookTask[w].required = "null" => bookTask[w].previous # "true"
  /\ A!At(w, "mirror") => /\ document[a] = bookTask[w].required
                          /\ \A l \in A!Legs : leg[a][l] # "none" <=> bookTask[w].previous = "true"
                          /\ bookTask[w].required \in A!Required
                          /\ bookTask[w].required = "null" => bookTask[w].previous # "true"
  /\ A!At(w, "look") \/ A!At(w, "write") =>
         document[a] = "true" /\ row[a] = "true" /\ Placed(w, a)
  /\ A!At(w, "clear") =>
         /\ Cleared(w, a) /\ document[a] = bookTask[w].required
         /\ \/ bookTask[w].required = "false" /\ row[a] = "false"
            \/ bookTask[w].required = "none"
  /\ A!At(w, "unmirror") => document[a] = "none" /\ \A l \in A!Legs : leg[a][l] = "none"

\* A request that goes from leg to leg has one to go to; those that replace all
\* appointments have set all of them aside.
Underway(w) ==
  /\ bookTask[w].at \in {"look", "write", "clear"} => bookTask[w].todo # {}
  /\ bookTask[w].at \in {"store", "mirror", "look", "write", "clear", "unmirror"} =>
       A!Of(w) \in Appointments
  /\ bookTask[w].at \in {"replace", "rows"} => disturbed = Appointments

\* An appointment that is not set aside has one request at most.
Alone(a) == \A v, w \in Workers : a \in A!Touches(v) /\ a \in A!Touches(w) => v = w

Followed(a) ==
  /\ Alone(a)
  /\ \A w \in Workers : a \in A!Touches(w) => Progress(w, a)
  /\ (\A w \in Workers : a \notin A!Touches(w)) => Settled(a)

Arrivals == \A a \in Appointments, l \in A!Legs : <<a, l>> \in arrived => leg[a][l] = "DONE"

BookingsInv ==
  /\ A!BookingsAssumption /\ A!TypeOK
  /\ Arrivals
  /\ \A w \in Workers : Underway(w)
  /\ \A a \in Appointments \ disturbed : Followed(a)

-----------------------------------------------------------------------------
(* Bookings: what a step leaves.                                           *)

LEMMA TouchesOne ==
  ASSUME A!TypeOK, NEW w \in Workers, Underway(w)
  PROVE  /\ A!At(w, "idle") => A!Touches(w) = {}
         /\ A!At(w, "replace") \/ A!At(w, "rows") => A!Touches(w) = Appointments
         /\ bookTask[w].at \in {"store", "mirror", "look", "write", "clear", "unmirror"} =>
              A!Touches(w) = {A!Of(w)}
BY DEF A!Touches, A!At

LEMMA TouchesWithin ==
  ASSUME A!TypeOK, NEW w \in Workers, Underway(w)
  PROVE  A!Touches(w) \subseteq Appointments
BY DEF A!Touches, A!At, Underway, A!Of, A!TypeOK, A!Task

\* An appointment that only w is at work on, before and after.
LEMMA OneRequest ==
  ASSUME NEW w \in Workers, \A v \in Workers \ {w} : bookTask'[v] = bookTask[v],
         NEW a \in Appointments, \A v \in Workers \ {w} : a \notin A!Touches(v),
         (a \in A!Touches(w))' => Progress(w, a)',
         (a \notin A!Touches(w))' => Settled(a)'
  PROVE  Followed(a)'
<1>1. \A v \in Workers \ {w} : (a \notin A!Touches(v))'
  BY DEF A!Touches, A!At, A!Of
<1> QED
  BY <1>1 DEF Followed, Alone

LEMMA OnlyOne ==
  ASSUME BookingsInv, NEW w \in Workers, NEW a \in Appointments \ disturbed, a \in A!Touches(w)
  PROVE  \A v \in Workers \ {w} : a \notin A!Touches(v)
BY DEF BookingsInv, Followed, Alone

\* An appointment that w is not at work on.
LEMMA ElsewhereStays ==
  ASSUME BookingsInv, NEW w \in Workers, \A v \in Workers \ {w} : bookTask'[v] = bookTask[v],
         NEW a \in Appointments \ disturbed, a \notin A!Touches(w), (a \notin A!Touches(w))',
         document'[a] = document[a], row'[a] = row[a], \A l \in A!Legs : leg'[a][l] = leg[a][l]
  PROVE  Followed(a)'
<1>1. Followed(a)
  BY DEF BookingsInv
<1>2. \A v \in Workers : (a \in A!Touches(v))' <=> a \in A!Touches(v)
  BY DEF A!Touches, A!At, A!Of
<1>3. ASSUME NEW v \in Workers, a \in A!Touches(v)
      PROVE  Progress(v, a)'
  <2>1. v # w /\ bookTask'[v] = bookTask[v] /\ Progress(v, a)
    BY <1>1, <1>3 DEF Followed
  <2> QED
    BY <2>1 DEF Progress, Settled, Placed, Cleared, A!At
<1>4. Settled(a) => Settled(a)'
  BY DEF Settled
<1> QED
  BY <1>1, <1>2, <1>3, <1>4 DEF Followed, Alone

\* The step of a request that is under way.
LEMMA Advances ==
  ASSUME BookingsInv, NEW w \in Workers, A!TypeOK', Arrivals', Underway(w)',
         \A v \in Workers \ {w} : bookTask'[v] = bookTask[v],
         disturbed \subseteq disturbed',
         bookTask[w].at \in {"store", "mirror", "look", "write", "clear", "unmirror"},
         NEW a, a = A!Of(w),
         \/ bookTask'[w].at = "idle"
         \/ /\ bookTask'[w].at \in {"mirror", "look", "write", "clear", "unmirror"}
            /\ bookTask'[w].appointment = a,
         \A b \in Appointments \ {a} :
            /\ document'[b] = document[b] /\ row'[b] = row[b]
            /\ \A l \in A!Legs : leg'[b][l] = leg[b][l],
         a \notin disturbed' /\ bookTask'[w].at # "idle" => Progress(w, a)',
         a \notin disturbed' /\ bookTask'[w].at = "idle" => Settled(a)'
  PROVE  BookingsInv'
<1>0. A!BookingsAssumption /\ A!TypeOK /\ Underway(w) /\ a \in Appointments
  BY DEF BookingsInv, Underway
<1>1. A!Touches(w) = {a}
  BY <1>0, TouchesOne
<1>2. A!Touches(w)' = IF bookTask'[w].at = "idle" THEN {} ELSE {a}
  BY DEF A!Touches, A!At, A!Of
<1>3. \A v \in Workers : Underway(v)'
  BY <1>0 DEF BookingsInv, Underway, A!Of, A!TypeOK
<1>4. ASSUME NEW b \in Appointments \ disturbed'
      PROVE  Followed(b)'
  <2>1. CASE b = a
    <3>1. \A v \in Workers \ {w} : a \notin A!Touches(v)
      BY <1>1, <1>4, <2>1, OnlyOne
    <3>2. (a \in A!Touches(w))' => Progress(w, a)'
      BY <1>2, <1>4, <2>1
    <3>3. (a \notin A!Touches(w))' => Settled(a)'
      BY <1>2, <1>4, <2>1
    <3> QED
      BY <1>4, <2>1, <3>1, <3>2, <3>3, OneRequest
  <2>2. CASE b # a
    BY <1>1, <1>2, <1>4, <2>2, ElsewhereStays
  <2> QED
    BY <2>1, <2>2
<1> QED
  BY <1>3, <1>4 DEF BookingsInv, A!BookingsAssumption

\* The first step of a request, which is about one appointment.
LEMMA Begins ==
  ASSUME BookingsInv, NEW w \in Workers, A!At(w, "idle"), A!TypeOK', Arrivals', Underway(w)',
         \A v \in Workers \ {w} : bookTask'[v] = bookTask[v],
         NEW a \in Appointments, bookTask'[w].appointment = a,
         bookTask'[w].at \in {"store", "clear"},
         disturbed \cup A!Overlaps(a) \subseteq disturbed',
         \A b \in Appointments \ {a} : document'[b] = document[b],
         UNCHANGED <<row, leg>>,
         Settled(a) /\ a \notin disturbed' => Progress(w, a)'
  PROVE  BookingsInv'
<1>0. A!BookingsAssumption /\ A!TypeOK /\ Underway(w)
  BY DEF BookingsInv
<1>1. A!Touches(w) = {} /\ A!Touches(w)' = {a}
  BY <1>0, TouchesOne DEF A!Touches, A!At, A!Of
<1>2. \A v \in Workers : Underway(v)'
  BY <1>0 DEF BookingsInv, Underway, A!Of, A!TypeOK
<1>3. ASSUME NEW b \in Appointments \ disturbed'
      PROVE  Followed(b)'
  <2>1. CASE b = a
    <3>1. \A v \in Workers : a \notin A!Touches(v)
      BY <1>3, <2>1 DEF A!Overlaps
    <3>2. Settled(a)
      BY <1>3, <2>1, <3>1 DEF BookingsInv, Followed
    <3> QED
      BY <1>1, <1>3, <2>1, <3>1, <3>2, OneRequest
  <2>2. CASE b # a
    BY <1>1, <1>3, <2>2, ElsewhereStays
  <2> QED
    BY <2>1, <2>2
<1> QED
  BY <1>2, <1>3 DEF BookingsInv, A!BookingsAssumption

\* A step that sets aside all it touches.
LEMMA SetsAside ==
  ASSUME BookingsInv, NEW w \in Workers, A!TypeOK', Arrivals', Underway(w)',
         \A v \in Workers \ {w} : bookTask'[v] = bookTask[v],
         disturbed \subseteq disturbed',
         \A a \in Appointments \ disturbed' :
            /\ a \notin A!Touches(w) /\ a \notin A!Touches(w)'
            /\ document'[a] = document[a] /\ row'[a] = row[a]
            /\ \A l \in A!Legs : leg'[a][l] = leg[a][l]
  PROVE  BookingsInv'
<1>1. \A v \in Workers : Underway(v)'
  BY DEF BookingsInv, Underway, A!Of, A!TypeOK
<1>2. ASSUME NEW a \in Appointments \ disturbed'
      PROVE  Followed(a)'
  BY <1>2, ElsewhereStays
<1> QED
  BY <1>1, <1>2 DEF BookingsInv, A!BookingsAssumption

-----------------------------------------------------------------------------
(* Bookings: the steps of a save of one appointment.                       *)

LEMMA StoreDocumentStep ==
  ASSUME BookingsInv, NEW w \in Workers, A!StoreDocument(w),
         NEW a, a = A!Of(w)
  PROVE  BookingsInv'
<1>0. A!TypeOK /\ Arrivals /\ Underway(w) /\ A!At(w, "store") /\ a \in Appointments
  BY DEF BookingsInv, Underway, A!StoreDocument, A!At
<1>1. /\ document' = [document EXCEPT ![a] = bookTask[w].required]
      /\ bookTask' = [bookTask EXCEPT ![w].at = "mirror"]
      /\ UNCHANGED <<row, leg, disturbed, arrived, bookRequests>>
  BY DEF A!StoreDocument, A!Goto
<1>2. bookTask[w] \in A!Task /\ bookTask' \in [Workers -> A!Task]
  <2>1. bookTask[w] \in A!Task
    BY <1>0 DEF A!TypeOK
  <2>2. [bookTask[w] EXCEPT !.at = "mirror"] \in A!Task
    BY <2>1 DEF A!Task
  <2> QED
    BY <1>0, <1>1, <2>1, <2>2 DEF A!TypeOK
<1>3. /\ bookTask'[w].at = "mirror" /\ bookTask'[w].appointment = a
      /\ bookTask'[w].required = bookTask[w].required /\ bookTask'[w].previous = bookTask[w].previous
  BY <1>0, <1>1, <1>2 DEF A!TypeOK, A!Task, A!Of
<1>4. A!TypeOK' /\ Arrivals'
  <2>1. bookTask[w].required \in A!Stored
    BY <1>2 DEF A!Task
  <2> QED
    BY <1>0, <1>1, <1>2, <2>1 DEF A!TypeOK, Arrivals
<1>5. Underway(w)'
  BY <1>0, <1>3 DEF Underway, A!Of
<1>6. \A v \in Workers \ {w} : bookTask'[v] = bookTask[v]
  BY <1>0, <1>1 DEF A!TypeOK
<1>7. \A b \in Appointments \ {a} :
        document'[b] = document[b] /\ row'[b] = row[b] /\ \A l \in A!Legs : leg'[b][l] = leg[b][l]
  BY <1>0, <1>1 DEF A!TypeOK
<1>8. a \notin disturbed => Progress(w, a)'
  <2>1. SUFFICES ASSUME a \notin disturbed PROVE Progress(w, a)'
    OBVIOUS
  <2>2. Progress(w, a)
    BY <1>0, <2>1, TouchesOne DEF BookingsInv, Followed, A!At
  <2>3. document'[a] = bookTask[w].required
    BY <1>0, <1>1 DEF A!TypeOK
  <2> QED
    BY <1>0, <1>1, <1>3, <2>2, <2>3 DEF Progress, Settled, A!At
<1> QED
  BY <1>0, <1>1, <1>3, <1>4, <1>5, <1>6, <1>7, <1>8, Advances DEF A!At

LEMMA StoreRowStep ==
  ASSUME BookingsInv, NEW w \in Workers, A!StoreRow(w),
         NEW a, a = A!Of(w)
  PROVE  BookingsInv'
<1>0. A!TypeOK /\ Arrivals /\ Underway(w) /\ A!At(w, "mirror") /\ a \in Appointments
  BY DEF BookingsInv, Underway, A!StoreRow, A!At
<1>1. /\ row' = [row EXCEPT ![a] = bookTask[w].required]
      /\ UNCHANGED <<document, leg, disturbed, arrived, bookRequests>>
  BY DEF A!StoreRow
<1>2. /\ \/ /\ bookTask[w].required = "true"
            /\ bookTask' = [bookTask EXCEPT ![w].at = "look", ![w].todo = A!Legs]
         \/ /\ bookTask[w].required = "false" /\ bookTask[w].previous = "true"
            /\ bookTask' = [bookTask EXCEPT ![w].at = "clear", ![w].todo = A!Legs]
         \/ /\ bookTask[w].required # "true" 
            /\ ~(bookTask[w].required = "false" /\ bookTask[w].previous = "true")
            /\ bookTask' = [bookTask EXCEPT ![w] = A!NoTask]
  BY DEF A!StoreRow, A!Return
<1>3. bookTask[w] \in A!Task /\ A!NoTask \in A!Task
  BY <1>0 DEF A!TypeOK, A!Task, A!NoTask, A!NoneStored, A!Stored
<1>4. bookTask' \in [Workers -> A!Task]
  <2>1. /\ [bookTask[w] EXCEPT !.at = "look", !.todo = A!Legs] \in A!Task
        /\ [bookTask[w] EXCEPT !.at = "clear", !.todo = A!Legs] \in A!Task
    BY <1>3 DEF A!Task
  <2> QED
    BY <1>0, <1>2, <1>3, <2>1 DEF A!TypeOK
<1>5. /\ bookTask'[w].required = bookTask[w].required \/ bookTask'[w].at = "idle"
      /\ bookTask'[w].appointment = a \/ bookTask'[w].at = "idle"
      /\ bookTask'[w].todo = A!Legs \/ bookTask'[w].at = "idle"
      /\ \/ bookTask[w].required = "true" /\ bookTask'[w].at = "look"
         \/ bookTask[w].required = "false" /\ bookTask[w].previous = "true" /\ bookTask'[w].at = "clear"
         \/ /\ bookTask[w].required # "true"
            /\ ~(bookTask[w].required = "false" /\ bookTask[w].previous = "true")
            /\ bookTask'[w].at = "idle"
  BY <1>0, <1>2, <1>3 DEF A!TypeOK, A!Task, A!Of, A!NoTask
<1>6. A!TypeOK' /\ Arrivals'
  BY <1>0, <1>1, <1>3, <1>4 DEF A!TypeOK, A!Task, Arrivals
<1>7. Underway(w)'
  BY <1>0, <1>5 DEF Underway, A!Of, A!Legs
<1>8. \A v \in Workers \ {w} : bookTask'[v] = bookTask[v]
  BY <1>0, <1>2 DEF A!TypeOK
<1>9. \A b \in Appointments \ {a} :
        document'[b] = document[b] /\ row'[b] = row[b] /\ \A l \in A!Legs : leg'[b][l] = leg[b][l]
  BY <1>0, <1>1 DEF A!TypeOK
<1>10. ASSUME a \notin disturbed
       PROVE  /\ bookTask'[w].at # "idle" => Progress(w, a)'
              /\ bookTask'[w].at = "idle" => Settled(a)'
  <2>1. Progress(w, a)
    BY <1>0, <1>10, TouchesOne DEF BookingsInv, Followed, A!At
  <2>2. row'[a] = bookTask[w].required
    BY <1>0, <1>1 DEF A!TypeOK
  <2>3. bookTask[w].required \in {"true", "false", "null"}
    BY <1>0, <2>1 DEF Progress, A!Required
  <2>4. bookTask'[w].at # "idle" => Progress(w, a)'
    BY <1>0, <1>1, <1>5, <2>1, <2>2 DEF Progress, Settled, A!At, Placed, Cleared
  <2>5. bookTask'[w].at = "idle" => Settled(a)'
    BY <1>0, <1>1, <1>5, <2>1, <2>2, <2>3 DEF Progress, Settled, A!At
  <2> QED
    BY <2>4, <2>5
<1> QED
  BY <1>0, <1>1, <1>5, <1>6, <1>7, <1>8, <1>9, <1>10, Advances DEF A!At

\* The leg a request has come to.
LEMMA NextLegIs ==
  ASSUME A!TypeOK, NEW w \in Workers, bookTask[w].todo # {}
  PROVE  /\ A!NextLeg(w) \in A!Legs /\ A!NextLeg(w) \in bookTask[w].todo
         /\ A!LegDone(w) \in SUBSET A!Legs
         /\ A!Legs \ A!LegDone(w) = (A!Legs \ bookTask[w].todo) \cup {A!NextLeg(w)}
<1>1. bookTask[w].todo \subseteq A!Legs
  BY DEF A!TypeOK, A!Task
<1> QED
  BY <1>1 DEF A!NextLeg, A!LegDone, A!Legs

LEMMA LookAtLegStep ==
  ASSUME BookingsInv, NEW w \in Workers, A!LookAtLeg(w),
         NEW a, a = A!Of(w)
  PROVE  BookingsInv'
<1>0. A!TypeOK /\ Arrivals /\ Underway(w) /\ A!At(w, "look") /\ a \in Appointments
  BY DEF BookingsInv, Underway, A!LookAtLeg, A!At
<1>1. /\ bookTask' = [bookTask EXCEPT ![w].at = "write", ![w].found = leg[a][A!NextLeg(w)]]
      /\ UNCHANGED <<document, row, leg, disturbed, arrived, bookRequests>>
  BY DEF A!LookAtLeg
<1>2. bookTask[w] \in A!Task /\ leg[a][A!NextLeg(w)] \in {"none", "PENDING", "DONE"}
  BY <1>0, NextLegIs DEF A!TypeOK, Underway, A!At
<1>3. bookTask' \in [Workers -> A!Task]
  BY <1>0, <1>1, <1>2 DEF A!TypeOK, A!Task
<1>4. /\ bookTask'[w].at = "write" /\ bookTask'[w].appointment = a
      /\ bookTask'[w].todo = bookTask[w].todo
  BY <1>0, <1>1, <1>2 DEF A!TypeOK, A!Task, A!Of
<1>5. A!TypeOK' /\ Arrivals'
  BY <1>0, <1>1, <1>3 DEF A!TypeOK, Arrivals
<1>6. Underway(w)'
  BY <1>0, <1>4 DEF Underway, A!Of, A!At
<1>7. \A v \in Workers \ {w} : bookTask'[v] = bookTask[v]
  BY <1>0, <1>1 DEF A!TypeOK
<1>8. a \notin disturbed => Progress(w, a)'
  <2>1. SUFFICES ASSUME a \notin disturbed PROVE Progress(w, a)'
    OBVIOUS
  <2>2. Progress(w, a)
    BY <1>0, <2>1, TouchesOne DEF BookingsInv, Followed, A!At
  <2> QED
    BY <1>0, <1>1, <1>4, <2>2 DEF Progress, A!At, Placed
<1> QED
  BY <1>0, <1>1, <1>4, <1>5, <1>6, <1>7, <1>8, Advances DEF A!At

LEMMA WriteLegStep ==
  ASSUME BookingsInv, NEW w \in Workers, A!WriteLeg(w),
         NEW a, a = A!Of(w)
  PROVE  BookingsInv'
<1> PICK l, still : l = A!NextLeg(w) /\ still = A!KeptStatus(bookTask[w].found)
  OBVIOUS
<1>0. A!TypeOK /\ Arrivals /\ Underway(w) /\ A!At(w, "write") /\ a \in Appointments
  BY DEF BookingsInv, Underway, A!WriteLeg, A!At
<1>1. /\ leg' = [leg EXCEPT ![a][l] = still]
      /\ arrived' = IF bookTask[w].found = leg[a][l] THEN arrived ELSE arrived \ {<<a, l>>}
      /\ UNCHANGED <<document, row, disturbed, bookRequests>>
  BY DEF A!WriteLeg
<1>2. bookTask' = IF A!LegDone(w) = {} THEN [bookTask EXCEPT ![w] = A!NoTask]
                  ELSE [bookTask EXCEPT ![w].at = "look", ![w].todo = A!LegDone(w)]
  BY DEF A!WriteLeg, A!Return
<1>3. /\ l \in A!Legs /\ l \in bookTask[w].todo /\ A!LegDone(w) \in SUBSET A!Legs
      /\ A!Legs \ A!LegDone(w) = (A!Legs \ bookTask[w].todo) \cup {l}
  BY <1>0, NextLegIs DEF Underway, A!At
<1>4. bookTask[w] \in A!Task /\ A!NoTask \in A!Task /\ still \in {"PENDING", "DONE"}
  BY <1>0 DEF A!TypeOK, A!Task, A!NoTask, A!NoneStored, A!Stored, A!KeptStatus
<1>5. bookTask' \in [Workers -> A!Task]
  BY <1>0, <1>2, <1>3, <1>4 DEF A!TypeOK, A!Task
<1>6. \/ A!LegDone(w) = {} /\ bookTask'[w].at = "idle"
      \/ /\ A!LegDone(w) # {} /\ bookTask'[w].at = "look"
         /\ bookTask'[w].appointment = a /\ bookTask'[w].todo = A!LegDone(w)
  BY <1>0, <1>2, <1>4 DEF A!TypeOK, A!Task, A!Of, A!NoTask
<1>7. /\ leg' \in [Appointments -> [A!Legs -> {"none", "PENDING", "DONE"}]]
      /\ leg'[a][l] = still
      /\ \A b \in Appointments, m \in A!Legs : b # a \/ m # l => leg'[b][m] = leg[b][m]
  BY <1>0, <1>1, <1>3, <1>4 DEF A!TypeOK
<1>8. A!TypeOK'
  BY <1>0, <1>1, <1>5, <1>7 DEF A!TypeOK
<1>9. Arrivals'
  <2>1. ASSUME NEW b \in Appointments, NEW m \in A!Legs, <<b, m>> \in arrived'
        PROVE  leg'[b][m] = "DONE"
    <3>1. <<b, m>> \in arrived /\ leg[b][m] = "DONE"
      BY <1>0, <1>1, <2>1 DEF Arrivals
    <3>2. CASE <<b, m>> = <<a, l>>
      BY <1>1, <1>7, <2>1, <3>1, <3>2 DEF A!KeptStatus
    <3> QED
      BY <1>7, <3>1, <3>2
  <2> QED
    BY <2>1 DEF Arrivals
<1>10. Underway(w)'
  BY <1>0, <1>6 DEF Underway, A!Of
<1>11. \A v \in Workers \ {w} : bookTask'[v] = bookTask[v]
  BY <1>0, <1>2 DEF A!TypeOK
<1>12. \A b \in Appointments \ {a} :
         document'[b] = document[b] /\ row'[b] = row[b] /\ \A m \in A!Legs : leg'[b][m] = leg[b][m]
  BY <1>1, <1>7
<1>13. ASSUME a \notin disturbed
       PROVE  /\ bookTask'[w].at # "idle" => Progress(w, a)'
              /\ bookTask'[w].at = "idle" => Settled(a)'
  <2>1. document[a] = "true" /\ row[a] = "true" /\ Placed(w, a)
    BY <1>0, <1>13, TouchesOne DEF BookingsInv, Followed, A!At, Progress
  <2>2. \A m \in A!Legs \ A!LegDone(w) : leg'[a][m] # "none"
    BY <1>0, <1>3, <1>4, <1>7, <2>1 DEF Placed
  <2>3. bookTask'[w].at # "idle" => Progress(w, a)'
    BY <1>1, <1>6, <2>1, <2>2 DEF Progress, A!At, Placed
  <2>4. bookTask'[w].at = "idle" => Settled(a)'
    BY <1>1, <1>6, <2>1, <2>2 DEF Settled
  <2> QED
    BY <2>3, <2>4
<1> QED
  BY <1>0, <1>1, <1>6, <1>8, <1>9, <1>10, <1>11, <1>12, <1>13, Advances DEF A!At

LEMMA ClearLegStep ==
  ASSUME BookingsInv, NEW w \in Workers, A!ClearLeg(w),
         NEW a, a = A!Of(w)
  PROVE  BookingsInv'
<1> PICK l : l = A!NextLeg(w)
  OBVIOUS
<1>0. A!TypeOK /\ Arrivals /\ Underway(w) /\ A!At(w, "clear") /\ a \in Appointments
  BY DEF BookingsInv, Underway, A!ClearLeg, A!At
<1>1. /\ leg' = [leg EXCEPT ![a][l] = "none"]
      /\ arrived' = arrived \ {<<a, l>>}
      /\ UNCHANGED <<document, row, disturbed, bookRequests>>
  BY DEF A!ClearLeg
<1>2. bookTask' = IF A!LegDone(w) # {} THEN [bookTask EXCEPT ![w].todo = A!LegDone(w)]
                  ELSE IF bookTask[w].required = "none" THEN [bookTask EXCEPT ![w].at = "unmirror"]
                  ELSE [bookTask EXCEPT ![w] = A!NoTask]
  BY DEF A!ClearLeg, A!Return, A!Goto
<1>3. /\ l \in A!Legs /\ l \in bookTask[w].todo /\ A!LegDone(w) \in SUBSET A!Legs
      /\ A!Legs \ A!LegDone(w) = (A!Legs \ bookTask[w].todo) \cup {l}
  BY <1>0, NextLegIs DEF Underway, A!At
<1>4. bookTask[w] \in A!Task /\ A!NoTask \in A!Task
  BY <1>0 DEF A!TypeOK, A!Task, A!NoTask, A!NoneStored, A!Stored
<1>5. bookTask' \in [Workers -> A!Task]
  BY <1>0, <1>2, <1>3, <1>4 DEF A!TypeOK, A!Task
<1>6. \/ /\ A!LegDone(w) = {} /\ bookTask'[w].at = "idle" /\ bookTask[w].required # "none"
      \/ /\ A!LegDone(w) = {} /\ bookTask'[w].at = "unmirror" /\ bookTask[w].required = "none"
         /\ bookTask'[w].appointment = a
      \/ /\ A!LegDone(w) # {} /\ bookTask'[w].at = "clear"
         /\ bookTask'[w].appointment = a /\ bookTask'[w].todo = A!LegDone(w)
         /\ bookTask'[w].required = bookTask[w].required
  BY <1>0, <1>2, <1>4 DEF A!TypeOK, A!Task, A!Of, A!NoTask, A!At
<1>7. /\ leg' \in [Appointments -> [A!Legs -> {"none", "PENDING", "DONE"}]]
      /\ leg'[a][l] = "none"
      /\ \A b \in Appointments, m \in A!Legs : b # a \/ m # l => leg'[b][m] = leg[b][m]
  BY <1>0, <1>1, <1>3, <1>4 DEF A!TypeOK
<1>8. A!TypeOK' /\ Arrivals'
  BY <1>0, <1>1, <1>5, <1>7 DEF A!TypeOK, Arrivals
<1>9. Underway(w)'
  BY <1>0, <1>6 DEF Underway, A!Of
<1>10. \A v \in Workers \ {w} : bookTask'[v] = bookTask[v]
  BY <1>0, <1>2 DEF A!TypeOK
<1>11. \A b \in Appointments \ {a} :
         document'[b] = document[b] /\ row'[b] = row[b] /\ \A m \in A!Legs : leg'[b][m] = leg[b][m]
  BY <1>1, <1>7
<1>12. ASSUME a \notin disturbed
       PROVE  /\ bookTask'[w].at # "idle" => Progress(w, a)'
              /\ bookTask'[w].at = "idle" => Settled(a)'
  <2>1. /\ Cleared(w, a) /\ document[a] = bookTask[w].required
        /\ (bookTask[w].required = "false" /\ row[a] = "false") \/ bookTask[w].required = "none"
    BY <1>0, <1>12, TouchesOne DEF BookingsInv, Followed, A!At, Progress
  <2>2. \A m \in A!Legs \ A!LegDone(w) : leg'[a][m] = "none"
    BY <1>0, <1>3, <1>7, <2>1 DEF Cleared
  <2>3. bookTask'[w].at # "idle" => Progress(w, a)'
    BY <1>1, <1>6, <2>1, <2>2 DEF Progress, A!At, Cleared
  <2>4. bookTask'[w].at = "idle" => Settled(a)'
    BY <1>1, <1>6, <2>1, <2>2 DEF Settled
  <2> QED
    BY <2>3, <2>4
<1> QED
  BY <1>0, <1>1, <1>6, <1>8, <1>9, <1>10, <1>11, <1>12, Advances DEF A!At

LEMMA DeleteRowStep ==
  ASSUME BookingsInv, NEW w \in Workers, A!DeleteRow(w),
         NEW a, a = A!Of(w)
  PROVE  BookingsInv'
<1>0. A!TypeOK /\ Arrivals /\ Underway(w) /\ A!At(w, "unmirror") /\ a \in Appointments
  BY DEF BookingsInv, Underway, A!DeleteRow, A!At
<1>1. /\ row' = [row EXCEPT ![a] = "none"] /\ bookTask' = [bookTask EXCEPT ![w] = A!NoTask]
      /\ UNCHANGED <<document, leg, disturbed, arrived, bookRequests>>
  BY DEF A!DeleteRow, A!Return
<1>2. A!NoTask \in A!Task /\ bookTask'[w].at = "idle"
  BY <1>0, <1>1 DEF A!TypeOK, A!Task, A!NoTask, A!NoneStored, A!Stored
<1>3. A!TypeOK' /\ Arrivals'
  BY <1>0, <1>1, <1>2 DEF A!TypeOK, Arrivals, A!Stored
<1>4. Underway(w)'
  BY <1>2 DEF Underway
<1>5. \A v \in Workers \ {w} : bookTask'[v] = bookTask[v]
  BY <1>0, <1>1 DEF A!TypeOK
<1>6. \A b \in Appointments \ {a} :
        document'[b] = document[b] /\ row'[b] = row[b] /\ \A l \in A!Legs : leg'[b][l] = leg[b][l]
  BY <1>0, <1>1 DEF A!TypeOK
<1>7. a \notin disturbed => Settled(a)'
  <2>1. SUFFICES ASSUME a \notin disturbed PROVE Settled(a)'
    OBVIOUS
  <2>2. document[a] = "none" /\ \A l \in A!Legs : leg[a][l] = "none"
    BY <1>0, <2>1, TouchesOne DEF BookingsInv, Followed, A!At, Progress
  <2> QED
    BY <1>0, <1>1, <2>2 DEF Settled, A!TypeOK
<1> QED
  BY <1>0, <1>1, <1>2, <1>3, <1>4, <1>5, <1>6, <1>7, Advances DEF A!At

-----------------------------------------------------------------------------
(* Bookings: the first step of a request, and those that set all they      *)
(* touch aside.                                                            *)

LEMMA PutAppointmentStep ==
  ASSUME BookingsInv, NEW w \in Workers, NEW a \in Appointments, NEW body \in A!Payloads,
         A!PutAppointment(w, a, body)
  PROVE  BookingsInv'
<1> DEFINE asked == A!normalizeAppointmentPayload(body, document[a])
<1>0. A!TypeOK /\ Arrivals /\ A!At(w, "idle")
  BY DEF BookingsInv, A!PutAppointment
<1>1. /\ bookTask' = [bookTask EXCEPT ![w] = [A!NoTask EXCEPT !.at = "store", !.appointment = a,
                                                !.required = asked, !.previous = document[a]]]
      /\ bookRequests < MaxBookings /\ bookRequests' = bookRequests + 1
      /\ disturbed' = disturbed \cup A!Overlaps(a) \cup (IF body = "null" THEN {a} ELSE {})
      /\ UNCHANGED <<document, row, leg, arrived>>
  BY DEF A!PutAppointment, A!Request
<1>2. /\ document[a] \in A!Stored /\ asked \in A!Required
      /\ asked = "null" => body = "null" \/ document[a] # "true"
  BY <1>0 DEF A!TypeOK, A!Stored, A!Required, A!Payloads, A!normalizeAppointmentPayload
<1> HIDE DEF asked
<1>3. [A!NoTask EXCEPT !.at = "store", !.appointment = a,
                       !.required = asked, !.previous = document[a]] \in A!Task
  BY <1>2 DEF A!Task, A!NoTask, A!NoneStored, A!Stored
<1>4. /\ bookTask'[w].at = "store" /\ bookTask'[w].appointment = a
      /\ bookTask'[w].required = asked /\ bookTask'[w].previous = document[a]
  BY <1>0, <1>1 DEF A!TypeOK, A!NoTask
<1>5. A!TypeOK'
  <2>1. bookRequests' \in 0..MaxBookings
    BY <1>0, <1>1 DEF BookingsInv, A!BookingsAssumption, A!TypeOK
  <2>2. disturbed' \subseteq Appointments
    BY <1>0, <1>1 DEF A!TypeOK, A!Overlaps
  <2>3. bookTask' \in [Workers -> A!Task]
    BY <1>0, <1>1, <1>3 DEF A!TypeOK
  <2> QED
    BY <1>0, <1>1, <2>1, <2>2, <2>3 DEF A!TypeOK
<1>6. Arrivals' /\ Underway(w)'
  BY <1>0, <1>1, <1>4 DEF Arrivals, Underway, A!Of
<1>7. \A v \in Workers \ {w} : bookTask'[v] = bookTask[v]
  BY <1>0, <1>1 DEF A!TypeOK
<1>8. Settled(a) /\ a \notin disturbed' => Progress(w, a)'
  BY <1>1, <1>2, <1>4 DEF Settled, Progress, A!At
<1> QED
  BY <1>0, <1>1, <1>4, <1>5, <1>6, <1>7, <1>8, Begins

LEMMA DeleteAppointmentStep ==
  ASSUME BookingsInv, NEW w \in Workers, NEW a \in Appointments, A!DeleteAppointment(w, a)
  PROVE  BookingsInv'
<1>0. A!TypeOK /\ Arrivals /\ A!At(w, "idle")
  BY DEF BookingsInv, A!DeleteAppointment
<1>1. /\ document' = [document EXCEPT ![a] = "none"]
      /\ bookTask' = [bookTask EXCEPT ![w] = [A!NoTask EXCEPT !.at = "clear", !.appointment = a,
                                                !.todo = A!Legs]]
      /\ bookRequests < MaxBookings /\ bookRequests' = bookRequests + 1
      /\ disturbed' = disturbed \cup A!Overlaps(a)
      /\ UNCHANGED <<row, leg, arrived>>
  BY DEF A!DeleteAppointment, A!Request
<1>2. [A!NoTask EXCEPT !.at = "clear", !.appointment = a, !.todo = A!Legs] \in A!Task
  BY DEF A!Task, A!NoTask, A!NoneStored, A!Stored
<1>3. /\ bookTask'[w].at = "clear" /\ bookTask'[w].appointment = a
      /\ bookTask'[w].required = "none" /\ bookTask'[w].todo = A!Legs
  BY <1>0, <1>1 DEF A!TypeOK, A!NoTask
<1>4. A!TypeOK'
  <2>1. bookRequests' \in 0..MaxBookings
    BY <1>0, <1>1 DEF BookingsInv, A!BookingsAssumption, A!TypeOK
  <2>2. disturbed' \subseteq Appointments
    BY <1>0, <1>1 DEF A!TypeOK, A!Overlaps
  <2>3. bookTask' \in [Workers -> A!Task]
    BY <1>0, <1>1, <1>2 DEF A!TypeOK
  <2> QED
    BY <1>0, <1>1, <2>1, <2>2, <2>3 DEF A!TypeOK, A!Stored
<1>5. Arrivals' /\ Underway(w)'
  BY <1>0, <1>1, <1>3 DEF Arrivals, Underway, A!Of, A!Legs
<1>6. \A v \in Workers \ {w} : bookTask'[v] = bookTask[v]
  BY <1>0, <1>1 DEF A!TypeOK
<1>7. \A b \in Appointments \ {a} : document'[b] = document[b]
  BY <1>0, <1>1 DEF A!TypeOK
<1>8. Progress(w, a)'
  BY <1>0, <1>1, <1>3 DEF Progress, A!At, Cleared, A!TypeOK
<1> QED
  BY <1>0, <1>1, <1>3, <1>4, <1>5, <1>6, <1>7, <1>8, Begins

LEMMA PostSnapshotStep ==
  ASSUME BookingsInv, NEW w \in Workers,
         NEW payloads \in [Appointments -> A!Payloads \cup {"none"}],
         A!PostSnapshot(w, payloads)
  PROVE  BookingsInv'
<1> DEFINE sent == [a \in Appointments |->
                      IF payloads[a] = "none" THEN "none"
                      ELSE A!normalizeAppointmentPayload(payloads[a], document[a])]
<1>0. A!TypeOK /\ Arrivals
  BY DEF BookingsInv
<1>1. /\ bookTask' = [bookTask EXCEPT ![w] = [A!NoTask EXCEPT !.at = "replace", !.items = sent]]
      /\ bookRequests < MaxBookings /\ bookRequests' = bookRequests + 1
      /\ disturbed' = Appointments
      /\ UNCHANGED <<document, row, leg, arrived>>
  BY DEF A!PostSnapshot, A!Request
<1>2. sent \in [Appointments -> A!Stored]
  BY <1>0 DEF A!TypeOK, A!Stored, A!Required, A!Payloads, A!normalizeAppointmentPayload
<1> HIDE DEF sent
<1>3. [A!NoTask EXCEPT !.at = "replace", !.items = sent] \in A!Task
  BY <1>2 DEF A!Task, A!NoTask, A!NoneStored, A!Stored
<1>4. bookTask'[w].at = "replace"
  BY <1>0, <1>1 DEF A!TypeOK, A!NoTask
<1>5. A!TypeOK'
  <2>1. bookRequests' \in 0..MaxBookings
    BY <1>0, <1>1 DEF BookingsInv, A!BookingsAssumption, A!TypeOK
  <2>2. bookTask' \in [Workers -> A!Task]
    BY <1>0, <1>1, <1>3 DEF A!TypeOK
  <2> QED
    BY <1>0, <1>1, <2>1, <2>2 DEF A!TypeOK
<1>6. Arrivals' /\ Underway(w)'
  BY <1>0, <1>1, <1>4 DEF Arrivals, Underway
<1>7. \A v \in Workers \ {w} : bookTask'[v] = bookTask[v]
  BY <1>0, <1>1 DEF A!TypeOK
<1> QED
  BY <1>0, <1>1, <1>5, <1>6, <1>7, SetsAside DEF A!TypeOK

LEMMA ReplaceDocumentsStep ==
  ASSUME BookingsInv, NEW w \in Workers, A!ReplaceDocuments(w)
  PROVE  BookingsInv'
<1>0. A!TypeOK /\ Arrivals /\ bookTask[w] \in A!Task /\ disturbed = Appointments
  BY DEF BookingsInv, Underway, A!ReplaceDocuments, A!At, A!TypeOK
<1>1. /\ document' = bookTask[w].items /\ bookTask' = [bookTask EXCEPT ![w].at = "rows"]
      /\ UNCHANGED <<row, leg, disturbed, arrived, bookRequests>>
  BY DEF A!ReplaceDocuments, A!Goto
<1>2. bookTask[w].items \in [Appointments -> A!Stored] /\ [bookTask[w] EXCEPT !.at = "rows"] \in A!Task
  BY <1>0 DEF A!Task
<1>3. A!TypeOK' /\ Arrivals'
  BY <1>0, <1>1, <1>2 DEF A!TypeOK, Arrivals
<1>4. Underway(w)'
  BY <1>0, <1>1 DEF Underway, A!TypeOK
<1>5. \A v \in Workers \ {w} : bookTask'[v] = bookTask[v]
  BY <1>0, <1>1 DEF A!TypeOK
<1> QED
  BY <1>0, <1>1, <1>3, <1>4, <1>5, SetsAside DEF A!TypeOK

LEMMA ReplaceRowsStep ==
  ASSUME BookingsInv, NEW w \in Workers, A!ReplaceRows(w)
  PROVE  BookingsInv'
<1>0. A!TypeOK /\ Arrivals /\ bookTask[w] \in A!Task /\ disturbed = Appointments
  BY DEF BookingsInv, Underway, A!ReplaceRows, A!At, A!TypeOK
<1>1. /\ row' = [a \in Appointments |-> IF bookTask[w].items[a] = "none" THEN row[a]
                                        ELSE bookTask[w].items[a]]
      /\ bookTask' = [bookTask EXCEPT ![w] = A!NoTask]
      /\ UNCHANGED <<document, leg, disturbed, arrived, bookRequests>>
  BY DEF A!ReplaceRows, A!Return
<1>2. bookTask[w].items \in [Appointments -> A!Stored] /\ A!NoTask \in A!Task
  BY <1>0 DEF A!Task, A!NoTask, A!NoneStored, A!Stored
<1>3. A!TypeOK' /\ Arrivals'
  BY <1>0, <1>1, <1>2 DEF A!TypeOK, Arrivals
<1>4. Underway(w)'
  BY <1>0, <1>1 DEF Underway, A!TypeOK, A!NoTask
<1>5. \A v \in Workers \ {w} : bookTask'[v] = bookTask[v]
  BY <1>0, <1>1 DEF A!TypeOK
<1> QED
  BY <1>0, <1>1, <1>3, <1>4, <1>5, SetsAside DEF A!TypeOK

LEMMA RequestFailsStep ==
  ASSUME BookingsInv, NEW w \in Workers, A!Fail(w)
  PROVE  BookingsInv'
<1>0. A!TypeOK /\ Arrivals
  BY DEF BookingsInv
<1>1. /\ disturbed' = disturbed \cup A!Touches(w)
      /\ bookTask' = [bookTask EXCEPT ![w] = A!NoTask]
      /\ bookRequests < MaxBookings /\ bookRequests' = bookRequests + 1
      /\ UNCHANGED <<document, row, leg, arrived>>
  BY DEF A!Fail, A!Return, A!Request
<1>2. A!NoTask \in A!Task /\ A!Touches(w) \subseteq Appointments
  BY <1>0, TouchesWithin DEF BookingsInv, A!Task, A!NoTask, A!NoneStored, A!Stored
<1>3. A!TypeOK'
  <2>1. bookRequests' \in 0..MaxBookings
    BY <1>0, <1>1 DEF BookingsInv, A!BookingsAssumption, A!TypeOK
  <2> QED
    BY <1>0, <1>1, <1>2, <2>1 DEF A!TypeOK
<1>4. bookTask'[w].at = "idle" /\ A!Touches(w)' = {}
  BY <1>0, <1>1 DEF A!Touches, A!At, A!TypeOK, A!NoTask
<1>5. Arrivals' /\ Underway(w)'
  BY <1>0, <1>1, <1>4 DEF Arrivals, Underway
<1>6. \A v \in Workers \ {w} : bookTask'[v] = bookTask[v]
  BY <1>0, <1>1 DEF A!TypeOK
<1> QED
  BY <1>0, <1>1, <1>3, <1>4, <1>5, <1>6, SetsAside

-----------------------------------------------------------------------------
(* Bookings: a driver's update, and every step.                            *)

LEMMA SaveLegStep ==
  ASSUME BookingsInv, NEW a \in Appointments, NEW l \in A!Legs,
         NEW status \in {"none", "PENDING", "DONE"}, A!SaveLeg(a, l, status)
  PROVE  BookingsInv'
<1>0. A!TypeOK /\ Arrivals /\ A!BookingsAssumption
  BY DEF BookingsInv
<1>1. /\ leg[a][l] # "none" /\ leg' = [leg EXCEPT ![a][l] = status]
      /\ arrived' = IF status = "DONE" THEN arrived \cup {<<a, l>>} ELSE arrived \ {<<a, l>>}
      /\ disturbed' = IF status = "none" THEN disturbed \cup {a} ELSE disturbed
      /\ bookRequests < MaxBookings /\ bookRequests' = bookRequests + 1
      /\ UNCHANGED <<document, row, bookTask>>
  BY DEF A!SaveLeg, A!Request
<1>2. /\ leg' \in [Appointments -> [A!Legs -> {"none", "PENDING", "DONE"}]]
      /\ leg'[a][l] = status
      /\ \A b \in Appointments, m \in A!Legs : b # a \/ m # l => leg'[b][m] = leg[b][m]
  BY <1>0, <1>1 DEF A!TypeOK
<1>3. A!TypeOK'
  <2>1. bookRequests' \in 0..MaxBookings
    BY <1>0, <1>1 DEF A!BookingsAssumption, A!TypeOK
  <2>2. arrived' \subseteq Appointments \X A!Legs /\ disturbed' \subseteq Appointments
    BY <1>0, <1>1 DEF A!TypeOK
  <2> QED
    BY <1>0, <1>1, <1>2, <2>1, <2>2 DEF A!TypeOK
<1>4. Arrivals'
  <2>1. ASSUME NEW b \in Appointments, NEW m \in A!Legs, <<b, m>> \in arrived'
        PROVE  leg'[b][m] = "DONE"
    <3>1. CASE b = a /\ m = l
      BY <1>1, <1>2, <2>1, <3>1
    <3>2. CASE b # a \/ m # l
      <4>1. <<b, m>> \in arrived
        BY <1>1, <2>1, <3>2
      <4> QED
        BY <1>0, <1>2, <3>2, <4>1 DEF Arrivals
    <3> QED
      BY <3>1, <3>2
  <2> QED
    BY <2>1 DEF Arrivals
<1>5. \A v \in Workers : Underway(v)'
  BY <1>0, <1>1 DEF BookingsInv, Underway, A!Of, A!TypeOK
<1>6. ASSUME NEW b \in Appointments \ disturbed'
      PROVE  Followed(b)'
  <2>1. Followed(b) /\ b \in Appointments
    BY <1>1, <1>6 DEF BookingsInv
  <2>2. \A m \in A!Legs : leg'[b][m] # "none" <=> leg[b][m] # "none"
    BY <1>1, <1>2, <1>6
  <2>3. \A v \in Workers : b \in A!Touches(v)' <=> b \in A!Touches(v)
    BY <1>1 DEF A!Touches, A!At, A!Of
  <2>4. ASSUME NEW v \in Workers, b \in A!Touches(v)
        PROVE  Progress(v, b)'
    <3>1. Progress(v, b)
      BY <2>1, <2>4 DEF Followed
    <3> QED
      BY <1>1, <2>2, <3>1 DEF Progress, Settled, Placed, Cleared, A!At
  <2>5. Settled(b) => Settled(b)'
    BY <1>1, <2>2 DEF Settled
  <2> QED
    BY <2>1, <2>3, <2>4, <2>5 DEF Followed, Alone
<1> QED
  BY <1>0, <1>3, <1>4, <1>5, <1>6 DEF BookingsInv, A!BookingsAssumption

LEMMA BookingsStutter ==
  ASSUME BookingsInv, UNCHANGED A!vars
  PROVE  BookingsInv'
<1>1. UNCHANGED <<document, row, leg, bookTask, disturbed, arrived, bookRequests>>
  BY DEF A!vars
<1>2. \A a \in Appointments : Followed(a)' <=> Followed(a)
  BY <1>1 DEF Followed, Alone, Progress, Settled, Placed, Cleared, A!At, A!Touches, A!Of
<1> QED
  BY <1>1, <1>2 DEF BookingsInv, A!BookingsAssumption, A!TypeOK, Arrivals, Underway, A!Of

LEMMA BookingsInit ==
  ASSUME A!BookingsAssumption, A!Init
  PROVE  BookingsInv
<1>1. A!TypeOK
  BY DEF A!BookingsAssumption, A!Init, A!TypeOK, A!Task, A!NoTask, A!NoneStored, A!Stored
<1>2. \A w \in Workers : A!At(w, "idle") /\ A!Touches(w) = {} /\ Underway(w)
  BY DEF A!Init, A!NoTask, A!At, A!Touches, Underway
<1>3. \A a \in Appointments : Settled(a)
  BY DEF A!Init, Settled, A!NoneStored
<1> QED
  BY <1>1, <1>2, <1>3 DEF BookingsInv, A!Init, Arrivals, Followed, Alone

LEMMA BookingsNext ==
  ASSUME BookingsInv, A!Next
  PROVE  BookingsInv'
<1>1. ASSUME NEW w \in Workers, NEW a \in Appointments, NEW body \in A!Payloads,
             A!PutAppointment(w, a, body)
      PROVE  BookingsInv'
  BY <1>1, PutAppointmentStep
<1>2. ASSUME NEW w \in Workers, NEW a \in Appointments, A!DeleteAppointment(w, a)
      PROVE  BookingsInv'
  BY <1>2, DeleteAppointmentStep
<1>3. ASSUME NEW w \in Workers, NEW payloads \in [Appointments -> A!Payloads \cup {"none"}],
             A!PostSnapshot(w, payloads)
      PROVE  BookingsInv'
  BY <1>3, PostSnapshotStep
<1>4. ASSUME NEW a \in Appointments, NEW l \in A!Legs,
             NEW status \in {"none", "PENDING", "DONE"}, A!SaveLeg(a, l, status)
      PROVE  BookingsInv'
  BY <1>4, SaveLegStep
<1>5. ASSUME NEW w \in Workers,
             \/ A!StoreDocument(w) \/ A!StoreRow(w) \/ A!LookAtLeg(w)
             \/ A!WriteLeg(w) \/ A!ClearLeg(w)
             \/ A!DeleteRow(w) \/ A!ReplaceDocuments(w) \/ A!ReplaceRows(w) \/ A!Fail(w)
      PROVE  BookingsInv'
  BY <1>5, StoreDocumentStep, StoreRowStep, LookAtLegStep, WriteLegStep, ClearLegStep,
     DeleteRowStep, ReplaceDocumentsStep, ReplaceRowsStep, RequestFailsStep
<1> QED
  BY <1>1, <1>2, <1>3, <1>4, <1>5 DEF A!Next

-----------------------------------------------------------------------------
(* Bookings: the theorems.                                                 *)

\* What is stored follows the appointment when no request is at work on it, and
\* a request at work is alone and as far as its part of the writes.
THEOREM BookingsInvariance ==
  ASSUME A!BookingsAssumption
  PROVE  A!Spec => []BookingsInv
<1>1. A!Init => BookingsInv
  BY BookingsInit
<1>2. BookingsInv /\ [A!Next]_(A!vars) => BookingsInv'
  BY BookingsNext, BookingsStutter
<1> QED
  BY <1>1, <1>2, PTL DEF A!Spec

\* Appointments, requests and tasks keep their types.
THEOREM BookingsTyped ==
  ASSUME A!BookingsAssumption
  PROVE  A!Spec => []A!TypeOK
<1>1. BookingsInv => A!TypeOK
  BY DEF BookingsInv
<1> QED
  BY <1>1, BookingsInvariance, PTL

\* When no request is at work on an appointment, it has both requests or neither,
\* as it asks, and its row says the same (syncPickupDropRequest), unless it was
\* set aside.
THEOREM RequestsFollow ==
  /\ A!Spec => []A!PickupsFollow
  /\ OfficeSpec => []PickupsFollow
<1>1. BookingsInv => A!PickupsFollow
  <2>1. ASSUME BookingsInv, NEW a \in Appointments \ disturbed,
               \A w \in Workers : a \notin A!Touches(w)
        PROVE  /\ Settled(a)
               /\ \A l \in A!Legs : <<a, l>> \in arrived => leg[a][l] = "DONE"
    BY <2>1 DEF BookingsInv, Followed, Arrivals
  <2> QED
    BY <2>1 DEF A!PickupsFollow, Settled
<1>2. A!Spec => []BookingsInv
  BY OfficeAssumption, BookingsInvariance, PTL DEF OfficeAssumption
<1>3. A!PickupsFollow => PickupsFollow
  BY DEF PickupsFollow
<1> QED
  BY <1>1, <1>2, <1>3, EachPartRuns, PTL

-----------------------------------------------------------------------------
(* Reminders: the inductive invariant.                                     *)

RunTypes ==
  /\ today \in R!Days
  /\ reminder \in [Reminders -> R!Reminder]
  /\ runs \in [Workers -> R!Run]
  /\ messages \in [Reminders -> Seq(R!Message)]

\* A run that will write r has read the stored version, which was not sent.
Tracks(w, r) ==
  /\ runs[w].seen[r] = reminder[r]
  /\ reminder[r].open /\ ~reminder[r].sent
  /\ \A v \in Workers : r \in R!Touches(v) => v = w
Tracked == \A r \in Reminders \ unsure : \A w \in Workers : r \in R!Touches(w) => Tracks(w, r)

\* The message of r was handed over and is not saved yet.
Sending(r) == \E w \in Workers : runs[w].at = r

\* What may be sent again is due later than what was.
Ahead(r) ==
  \A i \in DOMAIN messages[r] :
    /\ messages[r][i].due <= reminder[r].due
    /\ reminder[r].open /\ ~reminder[r].sent /\ ~Sending(r) => messages[r][i].due < reminder[r].due

Apart(r) ==
  \A i, j \in DOMAIN messages[r] : i # j => messages[r][i].due # messages[r][j].due

\* A reminder that is being sent is not to be sent as well.
Once == \A w \in Workers : runs[w].at \notin runs[w].todo

RemindersInv ==
  /\ RunTypes
  /\ Once
  /\ Tracked
  /\ \A r \in Reminders \ unsure : Ahead(r) /\ Apart(r)

-----------------------------------------------------------------------------
(* Reminders: steps that write none and hand nothing over.                 *)

LEMMA TouchesIs ==
  ASSUME R!RemindersAssumption, NEW w \in Workers, NEW r \in Reminders
  PROVE  r \in R!Touches(w) <=> r \in runs[w].todo \/ r = runs[w].at
BY DEF R!Touches, R!RemindersAssumption

\* Every run that touched r before, or touches it now, is known.
LEMMA TouchedIs ==
  ASSUME R!RemindersAssumption, NEW w, NEW r
  PROVE  r \in R!TouchedBut(w) <=> \E v \in Workers \ {w} : r \in R!Touches(v)
BY DEF R!TouchedBut

LEMMA DueDates ==
  ASSUME RunTypes, NEW r \in Reminders, NEW i \in DOMAIN messages[r]
  PROVE  messages[r][i].due \in Nat
<1>1. messages[r] \in Seq(R!Message)
  BY DEF RunTypes
<1>2. messages[r][i] \in R!Message
  BY <1>1
<1> QED
  BY <1>2 DEF R!Message

\* The runs end, or leave out some of what they would have sent.
LEMMA Fewer ==
  ASSUME R!RemindersAssumption, RemindersInv, RunTypes', Once',
         UNCHANGED <<reminder, messages>>, unsure \subseteq unsure',
         \A v \in Workers : /\ runs'[v].todo \subseteq runs[v].todo
                            /\ runs'[v].at = runs[v].at \/ runs'[v].at = None
                            /\ runs'[v].todo # {} \/ runs'[v].at # None =>
                                 runs'[v].seen = runs[v].seen,
         \A v \in Workers : runs'[v].at # runs[v].at => runs[v].at \in unsure'
  PROVE  RemindersInv'
<1>1. ASSUME NEW r \in Reminders \ unsure', NEW w \in Workers, (r \in R!Touches(w))'
      PROVE  Tracks(w, r)'
  <2>1. \A v \in Workers : (r \in R!Touches(v))' => r \in R!Touches(v)
    BY TouchesIs DEF R!Touches
  <2>2. Tracks(w, r)
    BY <1>1, <2>1 DEF RemindersInv, Tracked
  <2>3. runs'[w].seen = runs[w].seen
    BY <1>1 DEF R!Touches
  <2> QED
    BY <2>1, <2>2, <2>3 DEF Tracks
<1>2. ASSUME NEW r \in Reminders \ unsure'
      PROVE  Ahead(r)' /\ Apart(r)'
  <2>1. Sending(r)' <=> Sending(r)
    BY DEF Sending, R!RemindersAssumption
  <2> QED
    BY <2>1 DEF RemindersInv, Ahead, Apart
<1> QED
  BY <1>1, <1>2 DEF RemindersInv, Tracked

\* Nothing that the invariant is about has changed.
LEMMA Undisturbed ==
  ASSUME RemindersInv, UNCHANGED <<reminder, runs, messages, unsure>>, today' \in R!Days
  PROVE  RemindersInv'
<1>1. RunTypes'
  BY DEF RemindersInv, RunTypes, R!Days, R!Message
<1>2. Once' /\ Tracked'
  BY DEF RemindersInv, Once, Tracked, Tracks, R!Touches
<1>3. \A r \in Reminders \ unsure : Ahead(r)' /\ Apart(r)'
  BY DEF RemindersInv, Ahead, Apart, Sending
<1> QED
  BY <1>1, <1>2, <1>3 DEF RemindersInv

-----------------------------------------------------------------------------
(* Reminders: the job.                                                     *)

LEMMA BeginRunStep ==
  ASSUME R!RemindersAssumption, RemindersInv, NEW w \in Workers, R!BeginRun(w)
  PROVE  RemindersInv'
<1> DEFINE run == [todo |-> R!Selected, at |-> None, seen |-> reminder]
<1>1. /\ R!Selected \subseteq Reminders
      /\ \A r \in R!Selected : reminder[r].open /\ ~reminder[r].sent
  BY DEF R!Selected
<1>2. run \in R!Run
  BY <1>1 DEF R!Run, RemindersInv, RunTypes
<1>3. /\ runs' = [runs EXCEPT ![w] = run]
      /\ UNCHANGED <<today, reminder, messages>>
      /\ unsure' = unsure \cup (R!Selected \cap R!TouchedBut(w))
  BY DEF R!BeginRun
<1>4. runs'[w] = run /\ \A v \in Workers \ {w} : runs'[v] = runs[v]
  BY <1>3 DEF RemindersInv, RunTypes
<1>5. RunTypes'
  BY <1>2, <1>3 DEF RemindersInv, RunTypes, R!Days, R!Message
<1>6. Once'
  BY <1>1, <1>4 DEF RemindersInv, Once, R!RemindersAssumption
<1>7. runs[w].at = None
  <2>1. runs[w].at \in Reminders \cup {None}
    BY DEF RemindersInv, RunTypes, R!Run
  <2> QED
    BY <2>1 DEF R!BeginRun, R!Touches
<1>8. ASSUME NEW r \in Reminders \ unsure', NEW v \in Workers, (r \in R!Touches(v))'
      PROVE  Tracks(v, r)'
  <2>1. \A u \in Workers \ {w} : (r \in R!Touches(u))' <=> r \in R!Touches(u)
    BY <1>4 DEF R!Touches
  <2>2. (r \in R!Touches(w))' <=> r \in R!Selected
    BY <1>4 DEF R!Touches, R!RemindersAssumption
  <2>3. CASE v = w
    <3>1. \A u \in Workers \ {w} : r \notin R!Touches(u)
      BY <1>3, <1>8, <2>2, <2>3, TouchedIs
    <3> QED
      BY <1>1, <1>3, <1>4, <1>8, <2>1, <2>2, <2>3, <3>1 DEF Tracks
  <2>4. CASE v # w
    <3>1. r \in R!Touches(v)
      BY <1>8, <2>1, <2>4
    <3>2. Tracks(v, r)
      BY <1>3, <1>8, <3>1 DEF RemindersInv, Tracked
    <3>3. r \notin R!Selected
      BY <1>3, <1>8, <2>4, <3>1, TouchedIs
    <3> QED
      BY <1>3, <1>4, <2>1, <2>2, <2>4, <3>2, <3>3 DEF Tracks
  <2> QED
    BY <2>3, <2>4
<1>9. ASSUME NEW r \in Reminders \ unsure'
      PROVE  Ahead(r)' /\ Apart(r)'
  <2>1. Sending(r)' <=> Sending(r)
    BY <1>4, <1>7 DEF Sending
  <2> QED
    BY <1>3, <2>1 DEF RemindersInv, Ahead, Apart
<1> QED
  BY <1>5, <1>6, <1>8, <1>9 DEF RemindersInv, Tracked

\* One more message, due later than those before unless the reminder is left out.
LEMMA HandedOver ==
  ASSUME R!RemindersAssumption, RemindersInv, NEW r \in Reminders, NEW due \in Nat,
         R!HandOver(r, due)
  PROVE  /\ messages' \in [Reminders -> Seq(R!Message)]
         /\ \A q \in Reminders \ {r} : messages'[q] = messages[q]
         /\ \A i \in DOMAIN messages'[r] :
              \/ i \in DOMAIN messages[r] /\ messages'[r][i] = messages[r][i]
              \/ i = Len(messages[r]) + 1 /\ messages'[r][i].due = due
<1>1. [due |-> due, day |-> today] \in R!Message
  BY DEF R!Message, RemindersInv, RunTypes
<1>2. messages[r] \in Seq(R!Message)
  BY DEF RemindersInv, RunTypes
<1> DEFINE more == Append(messages[r], [due |-> due, day |-> today])
<1>3. messages' = [messages EXCEPT ![r] = more]
  BY DEF R!HandOver
<1>4. /\ more \in Seq(R!Message)
      /\ \A i \in DOMAIN more :
           \/ i \in DOMAIN messages[r] /\ more[i] = messages[r][i]
           \/ i = Len(messages[r]) + 1 /\ more[i] = [due |-> due, day |-> today]
  BY <1>1, <1>2
<1>5. messages'[r] = more
  BY <1>3 DEF RemindersInv, RunTypes
<1> QED
  BY <1>3, <1>4, <1>5 DEF RemindersInv, RunTypes

LEMMA SendOneStep ==
  ASSUME R!RemindersAssumption, RemindersInv, NEW w \in Workers, NEW r \in Reminders,
         R!SendOne(w, r)
  PROVE  RemindersInv'
<1> DEFINE due == runs[w].seen[r].due
<1>1. runs[w] \in R!Run /\ due \in Nat
  BY DEF RemindersInv, RunTypes, R!Run, R!Reminder
<1>2. /\ runs[w].at = None /\ r \in runs[w].todo
      /\ R!HandOver(r, due)
      /\ runs' = [runs EXCEPT ![w].todo = @ \ {r}, ![w].at = r]
      /\ UNCHANGED <<today, reminder, unsure>>
  BY DEF R!SendOne
<1>3. /\ runs'[w] = [runs[w] EXCEPT !.todo = @ \ {r}, !.at = r]
      /\ \A v \in Workers \ {w} : runs'[v] = runs[v]
      /\ runs' \in [Workers -> R!Run]
  BY <1>1, <1>2 DEF RemindersInv, RunTypes, R!Run
<1>4. runs'[w].todo = runs[w].todo \ {r} /\ runs'[w].at = r /\ runs'[w].seen = runs[w].seen
  BY <1>1, <1>3 DEF R!Run
<1>5. RunTypes'
  BY <1>1, <1>2, <1>3, HandedOver DEF RemindersInv, RunTypes, R!Days, R!Message
<1>6. Once'
  BY <1>3, <1>4 DEF RemindersInv, Once
<1>7. \A q \in Reminders, v \in Workers : (q \in R!Touches(v))' <=> q \in R!Touches(v)
  <2>1. ASSUME NEW q \in Reminders
        PROVE  (q \in R!Touches(w))' <=> q \in R!Touches(w)
    BY <1>2, <1>4 DEF R!Touches, R!RemindersAssumption
  <2> QED
    BY <1>3, <2>1 DEF R!Touches
<1>8. Tracked'
  <2>1. ASSUME NEW q \in Reminders \ unsure, NEW v \in Workers, (q \in R!Touches(v))'
        PROVE  Tracks(v, q)'
    <3>1. Tracks(v, q)
      BY <1>7, <2>1 DEF RemindersInv, Tracked
    <3>2. runs'[v].seen = runs[v].seen
      BY <1>3, <1>4
    <3> QED
      BY <1>2, <1>7, <3>1, <3>2 DEF Tracks
  <2> QED
    BY <1>2, <2>1 DEF Tracked
<1>9. ASSUME NEW q \in Reminders \ unsure
      PROVE  Ahead(q)' /\ Apart(q)'
  <2>1. CASE q = r
    <3>1. Tracks(w, r)
      BY <1>2, <1>9, <2>1 DEF RemindersInv, Tracked, R!Touches
    <3>2. ~Sending(r)
      <4>1. ASSUME NEW v \in Workers, runs[v].at = r
            PROVE  FALSE
        BY <1>2, <3>1, <4>1, TouchesIs DEF Tracks, R!RemindersAssumption
      <4> QED
        BY <4>1 DEF Sending
    <3>3. /\ due = reminder[r].due
          /\ \A i \in DOMAIN messages[r] : messages[r][i].due < due
      BY <1>9, <2>1, <3>1, <3>2 DEF RemindersInv, Ahead, Tracks
    <3>4. \A i \in DOMAIN messages[r] : messages[r][i].due \in Nat
      BY DueDates DEF RemindersInv
    <3>5. Sending(r)'
      BY <1>4 DEF Sending
    <3>6. \A i \in DOMAIN messages'[r] :
            \/ i \in DOMAIN messages[r] /\ messages'[r][i] = messages[r][i]
            \/ i = Len(messages[r]) + 1 /\ messages'[r][i].due = due
      BY <1>1, <1>2, HandedOver
    <3>7. Ahead(r)'
      BY <1>1, <1>2, <3>3, <3>4, <3>5, <3>6 DEF Ahead
    <3>8. Apart(r)'
      BY <1>1, <1>9, <2>1, <3>3, <3>4, <3>6 DEF RemindersInv, Apart
    <3> QED
      BY <2>1, <3>7, <3>8
  <2>2. CASE q # r
    <3>1. messages'[q] = messages[q]
      BY <1>1, <1>2, <2>2, HandedOver
    <3>2. Sending(q)' <=> Sending(q)
      BY <1>2, <1>3, <1>4, <2>2 DEF Sending, R!RemindersAssumption
    <3> QED
      BY <1>2, <3>1, <3>2 DEF RemindersInv, Ahead, Apart
  <2> QED
    BY <2>1, <2>2
<1> QED
  BY <1>2, <1>5, <1>6, <1>8, <1>9 DEF RemindersInv

\* A message that may have gone out leaves its reminder out of the property.
LEMMA SendFailsStep ==
  ASSUME R!RemindersAssumption, RemindersInv, NEW w \in Workers, NEW r \in Reminders,
         R!SendFails(w, r)
  PROVE  RemindersInv'
<1>1. runs[w] \in R!Run /\ runs[w].seen[r].due \in Nat
  BY DEF RemindersInv, RunTypes, R!Run, R!Reminder
<1>2. /\ runs' = [runs EXCEPT ![w].todo = @ \ {r}]
      /\ UNCHANGED <<today, reminder>>
  BY DEF R!SendFails
<1>3. /\ runs'[w] = [runs[w] EXCEPT !.todo = @ \ {r}]
      /\ \A v \in Workers \ {w} : runs'[v] = runs[v]
      /\ runs' \in [Workers -> R!Run]
  BY <1>1, <1>2 DEF RemindersInv, RunTypes, R!Run
<1>4. runs'[w].todo = runs[w].todo \ {r} /\ runs'[w].at = runs[w].at /\ runs'[w].seen = runs[w].seen
  BY <1>1, <1>3 DEF R!Run
<1>5. Once'
  BY <1>3, <1>4 DEF RemindersInv, Once
<1>6. CASE UNCHANGED <<messages, unsure>>
  <2>1. RunTypes'
    BY <1>2, <1>3, <1>6 DEF RemindersInv, RunTypes, R!Days, R!Message
  <2> QED
    BY <1>2, <1>3, <1>4, <1>5, <1>6, <2>1, Fewer
<1>7. CASE R!HandOver(r, runs[w].seen[r].due) /\ unsure' = unsure \cup {r}
  <2>1. RunTypes'
    BY <1>1, <1>2, <1>3, <1>7, HandedOver DEF RemindersInv, RunTypes, R!Days, R!Message
  <2>2. ASSUME NEW q \in Reminders \ unsure', NEW v \in Workers, (q \in R!Touches(v))'
        PROVE  Tracks(v, q)'
    <3>1. \A u \in Workers : (q \in R!Touches(u))' => q \in R!Touches(u)
      BY <1>3, <1>4 DEF R!Touches
    <3>2. Tracks(v, q)
      BY <1>7, <2>2, <3>1 DEF RemindersInv, Tracked
    <3>3. runs'[v].seen = runs[v].seen
      BY <1>3, <1>4
    <3> QED
      BY <1>2, <3>1, <3>2, <3>3 DEF Tracks
  <2>3. ASSUME NEW q \in Reminders \ unsure'
        PROVE  Ahead(q)' /\ Apart(q)'
    <3>1. messages'[q] = messages[q] /\ q \notin unsure
      BY <1>1, <1>7, <2>3, HandedOver
    <3>2. Sending(q)' <=> Sending(q)
      BY <1>3, <1>4 DEF Sending
    <3> QED
      BY <1>2, <3>1, <3>2 DEF RemindersInv, Ahead, Apart
  <2> QED
    BY <1>5, <2>1, <2>2, <2>3 DEF RemindersInv, Tracked
<1> QED
  BY <1>6, <1>7 DEF R!SendFails

LEMMA SavedVersion ==
  ASSUME R!RemindersAssumption, NEW before \in R!Reminder
  PROVE  \A version \in {R!Marked(before), R!Advanced(before)} :
           /\ version \in R!Reminder
           /\ version.open = before.open
           /\ version.sent \/ version.due > before.due
           /\ version.due >= before.due
<1>1. before.due \in Nat /\ Period \in Nat /\ Period > 0
  BY DEF R!Reminder, R!RemindersAssumption
<1>2. /\ R!Marked(before) \in R!Reminder
      /\ R!Marked(before).open = before.open /\ R!Marked(before).sent
      /\ R!Marked(before).due = before.due
  BY DEF R!Marked, R!Reminder
<1>3. /\ R!Advanced(before) \in R!Reminder
      /\ R!Advanced(before).open = before.open /\ R!Advanced(before).due = before.due + Period
  <2> DEFINE due == before.due + Period
             later == [before EXCEPT !.due = due]
  <2>1. due \in Nat
    BY <1>1
  <2>2. R!Advanced(before) = [later EXCEPT !.sent = FALSE]
    BY DEF R!Advanced
  <2> HIDE DEF due
  <2>3. later \in R!Reminder /\ later.due = due /\ later.open = before.open
    BY <2>1 DEF R!Reminder
  <2> HIDE DEF later
  <2>4. /\ R!Advanced(before) \in R!Reminder
        /\ R!Advanced(before).open = later.open /\ R!Advanced(before).due = later.due
    BY <2>2, <2>3 DEF R!Reminder
  <2> QED
    BY <2>3, <2>4 DEF due
<1> QED
  BY <1>1, <1>2, <1>3

\* The mark, or the next due date, puts the reminder ahead of its messages again.
LEMMA SaveOneStep ==
  ASSUME R!RemindersAssumption, RemindersInv, NEW w \in Workers, R!SaveOne(w)
  PROVE  RemindersInv'
<1> DEFINE r == runs[w].at
<1>1. /\ r \in Reminders
      /\ runs[w] \in R!Run
      /\ runs[w].seen[r] \in R!Reminder
  BY DEF R!SaveOne, RemindersInv, RunTypes, R!Run
<1>2. /\ R!AfterSend(w, r) \in R!Reminder
      /\ R!AfterSend(w, r).open = runs[w].seen[r].open
      /\ R!AfterSend(w, r).sent \/ R!AfterSend(w, r).due > runs[w].seen[r].due
      /\ R!AfterSend(w, r).due >= runs[w].seen[r].due
  BY <1>1, SavedVersion DEF R!AfterSend
<1>3. /\ reminder' = [reminder EXCEPT ![r] = R!AfterSend(w, r)]
      /\ runs' = [runs EXCEPT ![w].at = None]
      /\ UNCHANGED <<today, messages, unsure>>
  BY DEF R!SaveOne
<1>4. /\ runs'[w] = [runs[w] EXCEPT !.at = None]
      /\ \A v \in Workers \ {w} : runs'[v] = runs[v]
      /\ runs' \in [Workers -> R!Run]
  BY <1>1, <1>3 DEF RemindersInv, RunTypes, R!Run
<1>5. runs'[w].todo = runs[w].todo /\ runs'[w].at = None /\ runs'[w].seen = runs[w].seen
  BY <1>1, <1>4 DEF R!Run
<1>6. /\ reminder'[r] = R!AfterSend(w, r)
      /\ \A q \in Reminders \ {r} : reminder'[q] = reminder[q]
      /\ reminder' \in [Reminders -> R!Reminder]
  BY <1>1, <1>2, <1>3 DEF RemindersInv, RunTypes
<1>7. RunTypes'
  BY <1>3, <1>4, <1>6 DEF RemindersInv, RunTypes, R!Days, R!Message
<1>8. Once'
  <2>1. runs[w].todo \subseteq Reminders
    BY <1>1 DEF R!Run
  <2> QED
    BY <1>4, <1>5, <2>1 DEF RemindersInv, Once, R!RemindersAssumption
<1>9. \A q \in Reminders, v \in Workers :
        (q \in R!Touches(v))' => q \in R!Touches(v) /\ ~(v = w /\ q = r)
  <2>1. ASSUME NEW q \in Reminders, (q \in R!Touches(w))'
        PROVE  q \in R!Touches(w) /\ q # r
    BY <1>1, <1>5, <2>1 DEF R!Touches, RemindersInv, Once, R!RemindersAssumption
  <2> QED
    BY <1>4, <2>1 DEF R!Touches
<1>10. ASSUME NEW q \in Reminders \ unsure, NEW v \in Workers, (q \in R!Touches(v))'
       PROVE  Tracks(v, q)'
  <2>1. Tracks(v, q) /\ q \in R!Touches(v)
    BY <1>9, <1>10 DEF RemindersInv, Tracked
  <2>2. q # r
    <3>1. r \in R!Touches(w)
      BY <1>1, TouchesIs
    <3> QED
      BY <1>9, <1>10, <2>1, <3>1 DEF Tracks
  <2>3. runs'[v].seen = runs[v].seen
    BY <1>4, <1>5
  <2> QED
    BY <1>6, <1>9, <2>1, <2>2, <2>3 DEF Tracks
<1>11. ASSUME NEW q \in Reminders \ unsure
       PROVE  Ahead(q)' /\ Apart(q)'
  <2>1. CASE q = r
    <3>1. Tracks(w, r)
      BY <1>1, <1>11, <2>1, TouchesIs DEF RemindersInv, Tracked
    <3>2. \A i \in DOMAIN messages[r] :
            messages[r][i].due \in Nat /\ messages[r][i].due <= reminder[r].due
      BY <1>1, <1>11, <2>1, DueDates DEF RemindersInv, Ahead
    <3>3. reminder'[r].due \in Nat /\ reminder[r].due \in Nat
      BY <1>1, <1>6 DEF RemindersInv, RunTypes, R!Reminder
    <3> QED
      BY <1>2, <1>3, <1>6, <1>11, <2>1, <3>1, <3>2, <3>3 DEF RemindersInv, Tracks, Ahead, Apart
  <2>2. CASE q # r
    <3>1. Sending(q)' <=> Sending(q)
      BY <1>4, <1>5, <2>2 DEF Sending, R!RemindersAssumption
    <3> QED
      BY <1>3, <1>6, <2>2, <3>1 DEF RemindersInv, Ahead, Apart
  <2> QED
    BY <2>1, <2>2
<1> QED
  BY <1>3, <1>7, <1>8, <1>10, <1>11 DEF RemindersInv, Tracked

LEMMA SaveFailsStep ==
  ASSUME R!RemindersAssumption, RemindersInv, NEW w \in Workers, R!SaveFails(w)
  PROVE  RemindersInv'
<1>1. runs[w] \in R!Run
  BY DEF RemindersInv, RunTypes
<1>2. /\ runs'[w] = [runs[w] EXCEPT !.at = None]
      /\ \A v \in Workers \ {w} : runs'[v] = runs[v]
      /\ runs' \in [Workers -> R!Run]
  BY <1>1 DEF R!SaveFails, RemindersInv, RunTypes, R!Run
<1>3. runs'[w].todo = runs[w].todo /\ runs'[w].at = None /\ runs'[w].seen = runs[w].seen
  BY <1>1, <1>2 DEF R!Run
<1>4. RunTypes'
  BY <1>2 DEF R!SaveFails, RemindersInv, RunTypes, R!Days, R!Message
<1>5. Once'
  BY <1>1, <1>2, <1>3 DEF RemindersInv, Once, R!Run, R!RemindersAssumption
<1> QED
  BY <1>2, <1>3, <1>4, <1>5, Fewer DEF R!SaveFails

LEMMA CrashStep ==
  ASSUME R!RemindersAssumption, RemindersInv, NEW w \in Workers, R!Crash(w)
  PROVE  RemindersInv'
<1>1. R!NoRun \in R!Run /\ R!NoRun.todo = {} /\ R!NoRun.at = None
  BY DEF R!NoRun, R!Run, R!NoReminder, R!Reminder
<1>2. /\ runs'[w] = R!NoRun
      /\ \A v \in Workers \ {w} : runs'[v] = runs[v]
      /\ runs' \in [Workers -> R!Run]
  BY <1>1 DEF R!Crash, RemindersInv, RunTypes
<1>3. RunTypes'
  BY <1>2 DEF R!Crash, RemindersInv, RunTypes, R!Days, R!Message
<1>4. Once'
  BY <1>1, <1>2 DEF RemindersInv, Once
<1> QED
  BY <1>1, <1>2, <1>3, <1>4, Fewer DEF R!Crash

-----------------------------------------------------------------------------
(* Reminders: the clients.                                                 *)

\* A new version begins anew, unless a run is about to write over it.
LEMMA ClientStep ==
  ASSUME R!RemindersAssumption, RemindersInv,
         NEW r \in Reminders, NEW version \in R!Reminder, R!SaveReminder(r, version)
  PROVE  RemindersInv'
<1>1. /\ reminder'[r] = version /\ messages'[r] = <<>>
      /\ \A q \in Reminders \ {r} : reminder'[q] = reminder[q] /\ messages'[q] = messages[q]
      /\ UNCHANGED <<today, runs>>
  BY DEF R!SaveReminder, RemindersInv, RunTypes
<1>2. /\ r \in unsure' <=> \E v \in Workers : r \in R!Touches(v)
      /\ \A q \in Reminders \ {r} : q \in unsure' <=> q \in unsure
  BY TouchedIs DEF R!SaveReminder, R!RemindersAssumption
<1>3. RunTypes'
  <2>1. <<>> \in Seq(R!Message)
    OBVIOUS
  <2> QED
    BY <2>1 DEF R!SaveReminder, RemindersInv, RunTypes, R!Days, R!Message
<1>4. \A q, v : (q \in R!Touches(v))' <=> q \in R!Touches(v)
  BY <1>1 DEF R!Touches
<1>5. ASSUME NEW q \in Reminders \ unsure', NEW v \in Workers, (q \in R!Touches(v))'
      PROVE  Tracks(v, q)'
  <2>1. q # r /\ q \notin unsure /\ Tracks(v, q)
    BY <1>2, <1>4, <1>5 DEF RemindersInv, Tracked
  <2> QED
    BY <1>1, <1>4, <2>1 DEF Tracks
<1>6. ASSUME NEW q \in Reminders \ unsure'
      PROVE  Ahead(q)' /\ Apart(q)'
  <2>1. CASE q = r
    BY <1>1, <2>1 DEF Ahead, Apart
  <2>2. CASE q # r
    <3>1. Sending(q)' <=> Sending(q)
      BY <1>1 DEF Sending
    <3> QED
      BY <1>1, <1>2, <1>6, <2>2, <3>1 DEF RemindersInv, Ahead, Apart
  <2> QED
    BY <2>1, <2>2
<1> QED
  BY <1>1, <1>3, <1>5, <1>6 DEF RemindersInv, Tracked, Once

-----------------------------------------------------------------------------
(* Reminders: the theorems.                                                *)

LEMMA RemindersInit ==
  ASSUME R!RemindersAssumption, R!Init
  PROVE  RemindersInv
<1>1. RunTypes
  BY DEF R!Init, RunTypes, R!NoRun, R!Run, R!NoReminder, R!Reminder, R!Days, R!RemindersAssumption
<1>2. \A w \in Workers : R!Touches(w) = {}
  BY DEF R!Init, R!Touches, R!NoRun
<1> QED
  BY <1>1, <1>2 DEF R!Init, RemindersInv, Once, Tracked, Ahead, Apart, R!NoRun

LEMMA RemindersNext ==
  ASSUME R!RemindersAssumption, RemindersInv, [R!Next]_(R!vars)
  PROVE  RemindersInv'
<1>1. ASSUME NEW w \in Workers, R!BeginRun(w) \/ R!SaveOne(w) \/ R!SaveFails(w) \/ R!Crash(w)
      PROVE  RemindersInv'
  BY <1>1, BeginRunStep, SaveOneStep, SaveFailsStep, CrashStep
<1>2. ASSUME NEW w \in Workers, NEW r \in Reminders, R!SendOne(w, r) \/ R!SendFails(w, r)
      PROVE  RemindersInv'
  BY <1>2, SendOneStep, SendFailsStep
<1>3. ASSUME NEW r \in Reminders, NEW due \in R!Days,
             R!SaveReminder(r, [due |-> due, sent |-> FALSE, open |-> TRUE])
      PROVE  RemindersInv'
  <2>1. [due |-> due, sent |-> FALSE, open |-> TRUE] \in R!Reminder
    BY DEF R!Reminder, R!Days, R!RemindersAssumption
  <2> QED
    BY <1>3, <2>1, ClientStep
<1>4. ASSUME NEW r \in Reminders, R!SaveReminder(r, R!NoReminder)
      PROVE  RemindersInv'
  BY <1>4, ClientStep DEF R!NoReminder, R!Reminder
<1>5. ASSUME NEW r \in Dues, R!InvoiceChanges(r)
      PROVE  RemindersInv'
  BY <1>5, Undisturbed DEF R!InvoiceChanges, RemindersInv, RunTypes
<1>6. CASE R!DayPasses
  BY <1>6, Undisturbed DEF R!DayPasses, RemindersInv, RunTypes, R!Days, R!RemindersAssumption
<1>7. CASE UNCHANGED R!vars
  BY <1>7, Undisturbed DEF R!vars, RemindersInv, RunTypes
<1> QED
  BY <1>1, <1>2, <1>3, <1>4, <1>5, <1>6, <1>7 DEF R!Next

\* The strengthened invariant: one run per undisturbed reminder, and nothing
\* still to be sent that is not due later than what was (processOneOrg).
THEOREM RemindersInvariance ==
  ASSUME R!RemindersAssumption
  PROVE  R!Spec => []RemindersInv
<1>1. RemindersInv /\ [R!Next]_(R!vars) => RemindersInv'
  BY RemindersNext
<1> QED
  BY <1>1, RemindersInit, PTL DEF R!Spec

\* What is owed and set aside, and how many requests there were.
RestTyped == owed \subseteq Dues /\ unsure \subseteq Reminders /\ runRequests \in 0..MaxRuns

LEMMA RestTypedNext ==
  ASSUME R!RemindersAssumption, RunTypes, RestTyped, [R!Next]_(R!vars)
  PROVE  RestTyped'
<1>1. ASSUME R!Request
      PROVE  runRequests' \in 0..MaxRuns
  BY <1>1 DEF R!Request, RestTyped, R!RemindersAssumption
<1>2. ASSUME NEW w \in Workers, R!BeginRun(w) \/ R!SaveOne(w) \/ R!SaveFails(w) \/ R!Crash(w)
      PROVE  RestTyped'
  <2>1. runs[w].at \in Reminders \cup {None}
    BY DEF RunTypes, R!Run
  <2>2. CASE R!BeginRun(w)
    BY <1>1, <2>2 DEF R!BeginRun, R!Selected, RestTyped
  <2>3. CASE R!SaveOne(w)
    BY <2>3 DEF R!SaveOne, RestTyped
  <2>4. CASE R!SaveFails(w)
    BY <1>1, <2>1, <2>4 DEF R!SaveFails, RestTyped
  <2>5. CASE R!Crash(w)
    BY <1>1, <2>1, <2>5 DEF R!Crash, RestTyped
  <2> QED
    BY <1>2, <2>2, <2>3, <2>4, <2>5
<1>3. ASSUME NEW w \in Workers, NEW r \in Reminders, R!SendOne(w, r) \/ R!SendFails(w, r)
      PROVE  RestTyped'
  <2>1. CASE R!SendOne(w, r)
    BY <2>1 DEF R!SendOne, RestTyped
  <2>2. CASE R!SendFails(w, r)
    BY <1>1, <2>2 DEF R!SendFails, RestTyped
  <2> QED
    BY <1>3, <2>1, <2>2
<1>4. ASSUME NEW r \in Reminders, NEW version, R!SaveReminder(r, version)
      PROVE  RestTyped'
  BY <1>1, <1>4 DEF R!SaveReminder, RestTyped
<1>5. ASSUME NEW r \in Dues, R!InvoiceChanges(r)
      PROVE  RestTyped'
  BY <1>1, <1>5 DEF R!InvoiceChanges, RestTyped
<1>6. CASE R!DayPasses
  BY <1>6 DEF R!DayPasses, RestTyped
<1>7. CASE UNCHANGED R!vars
  BY <1>7 DEF R!vars, RestTyped
<1> QED
  BY <1>2, <1>3, <1>4, <1>5, <1>6, <1>7 DEF R!Next

\* Reminders, runs and messages keep their types.
THEOREM RemindersTyped ==
  ASSUME R!RemindersAssumption
  PROVE  R!Spec => []R!TypeOK
<1>1. R!Init => RestTyped
  BY DEF R!Init, RestTyped, R!RemindersAssumption
<1>2. RemindersInv /\ RestTyped /\ [R!Next]_(R!vars) => RestTyped'
  BY RestTypedNext DEF RemindersInv
<1>3. RemindersInv /\ RestTyped => R!TypeOK
  BY DEF RemindersInv, RunTypes, RestTyped, R!TypeOK
<1> QED
  BY <1>1, <1>2, <1>3, RemindersInvariance, PTL DEF R!Spec

\* A reminder is sent once for each due date, however often the job runs
\* (markReminderSentForPeriod, advancePaymentReminderAfterSend).
THEOREM OnePerDueDate ==
  /\ R!Spec => []R!RemindedOnce
  /\ OfficeSpec => []RemindedOnce
<1>1. RemindersInv => R!RemindedOnce
  BY DEF RemindersInv, Apart, R!RemindedOnce
<1>2. R!Spec => []RemindersInv
  BY OfficeAssumption, RemindersInvariance, PTL DEF OfficeAssumption
<1>3. R!RemindedOnce => RemindedOnce
  BY DEF RemindedOnce
<1> QED
  BY <1>1, <1>2, <1>3, EachPartRuns, PTL

-----------------------------------------------------------------------------
(* Documents: the inductive invariant.                                     *)

\* A request: what it is about, and what it carries.
Carried(a) ==
  /\ ticketTask[a].at # "idle" => ticketTask[a].org \in Workshops
  /\ ticketTask[a].at \in {"again", "check", "write", "look", "remove"} => ticketTask[a].document \in Documents
  /\ ticketTask[a].at \in {"again", "check", "write", "foreign", "commit"} => ticketTask[a].creator \in Users
  /\ ticketTask[a].at \in {"check", "write"} => {ticketTask[a].message} \ {None} \subseteq ticketTask[a].thread

\* A browser sends, for its workshop, what it shows.
Sends(u) ==
  /\ ticketTask[u].at # "again"
  /\ ticketTask[u].at # "idle" => ticketTask[u].org = Workshop[u]
  /\ ticketTask[u].at \in {"check", "write"} => loaded[u][ticketTask[u].document] = ticketTask[u].thread
  /\ ticketTask[u].at \in {"foreign", "commit"} => loaded[u] = ticketTask[u].items

\* Whose a document is, as it was asked, still holds, or a write came between.
Asked(a) ==
  /\ ticketTask[a].at \in {"write", "remove"} /\ a \notin ticketRaced /\ shared[ticketTask[a].document] # None =>
       /\ shared[ticketTask[a].document].org = ticketTask[a].org
       /\ a \in Users /\ ticketTask[a].at = "write" => shared[ticketTask[a].document].creator = ticketTask[a].creator
  /\ a \in ticketRaced => ticketTask[a].at \in {"write", "remove"} /\ a \in stale[ticketTask[a].document]

\* An agent's reading is the document, or a write came between.
Reads(g) ==
  /\ ticketTask[g].at \in {"idle", "again", "check", "write"}
  /\ ticketTask[g].at # "idle" /\ g \notin stale[ticketTask[g].document] /\ shared[ticketTask[g].document] # None =>
       /\ ticketTask[g].creator = shared[ticketTask[g].document].creator
       /\ said[ticketTask[g].document] \subseteq ticketTask[g].thread

\* A browser shows the messages of its workshop's documents, unless it is
\* about to delete them or a write came between.
Dropping(u, d) ==
  \/ ticketTask[u].at \in {"look", "remove"} /\ ticketTask[u].document = d
  \/ ticketTask[u].at \in {"foreign", "commit"} /\ ticketTask[u].items[d] = None
Shows(u, d) ==
  u \notin stale[d] /\ D!Own(d, Workshop[u]) => said[d] \subseteq D!Shown(u, d) \/ Dropping(u, d)

TicketsInv ==
  /\ D!SharedDocumentsAssumption /\ D!TypeOK /\ D!TicketsStand
  /\ \A a \in D!Actors : Carried(a) /\ Asked(a)
  /\ \A u \in Users : Sends(u)
  /\ \A u \in Users, d \in Documents : Shows(u, d)
  /\ \A g \in Agents : Reads(g)

-----------------------------------------------------------------------------
(* Documents: what the steps of one leave to the others.                   *)

LEMMA Goes ==
  ASSUME D!TypeOK, NEW a \in D!Actors, NEW step \in {"idle", "again", "check", "write", "look",
                                                     "remove", "foreign", "commit"}, D!Goto(a, step)
  PROVE  /\ ticketTask' \in [D!Actors -> D!Task]
         /\ ticketTask'[a] = [ticketTask[a] EXCEPT !.at = step]
         /\ \A b \in D!Actors \ {a} : ticketTask'[b] = ticketTask[b]
<1>1. ticketTask[a] \in D!Task
  BY DEF D!TypeOK
<1>2. [ticketTask[a] EXCEPT !.at = step] \in D!Task
  BY <1>1 DEF D!Task
<1> QED
  BY <1>2 DEF D!TypeOK, D!Goto

LEMMA Returns ==
  ASSUME D!TypeOK, NEW a \in D!Actors, D!Return(a)
  PROVE  /\ ticketTask' \in [D!Actors -> D!Task] /\ ticketTask'[a].at = "idle"
         /\ \A b \in D!Actors \ {a} : ticketTask'[b] = ticketTask[b]
<1>1. D!NoTask \in D!Task /\ D!NoTask.at = "idle"
  BY DEF D!NoTask, D!Task, D!Thread
<1> QED
  BY <1>1 DEF D!TypeOK, D!Return

\* A step that writes no row.
LEMMA Quiet ==
  ASSUME TicketsInv, NEW a \in D!Actors, D!TypeOK', D!UnchangedRows,
         \A b \in D!Actors \ {a} : /\ ticketTask'[b] = ticketTask[b]
                                   /\ b \in ticketRaced' <=> b \in ticketRaced
                                   /\ \A d \in Documents : b \in stale'[d] <=> b \in stale[d],
         \A u \in Users \ {a} : loaded'[u] = loaded[u],
         Carried(a)', Asked(a)',
         a \in Users => Sends(a)' /\ \A d \in Documents : Shows(a, d)',
         a \in Agents => Reads(a)'
  PROVE  TicketsInv'
<1>1. D!SharedDocumentsAssumption' /\ D!TicketsStand'
  BY DEF TicketsInv, D!UnchangedRows, D!TicketsStand, D!SharedDocumentsAssumption
<1>2. ASSUME NEW b \in D!Actors
      PROVE  Carried(b)' /\ Asked(b)'
  <2>1. CASE b = a
    BY <2>1
  <2>2. CASE b # a
    BY <1>2, <2>2 DEF TicketsInv, D!UnchangedRows, Carried, Asked
  <2> QED
    BY <2>1, <2>2
<1>3. ASSUME NEW u \in Users
      PROVE  Sends(u)' /\ \A d \in Documents : Shows(u, d)'
  <2>1. CASE u = a
    BY <2>1
  <2>2. CASE u # a
    <3>1. u \in D!Actors \ {a}
      BY <2>2 DEF D!Actors
    <3> QED
      BY <1>3, <2>2, <3>1 DEF TicketsInv, D!UnchangedRows, Sends, Shows, D!Own, D!Shown, Dropping
  <2> QED
    BY <2>1, <2>2
<1>4. ASSUME NEW g \in Agents
      PROVE  Reads(g)'
  <2>1. CASE g = a
    BY <2>1
  <2>2. CASE g # a
    <3>1. g \in D!Actors \ {a}
      BY <2>2 DEF D!Actors
    <3> QED
      BY <1>4, <2>2, <3>1 DEF TicketsInv, D!UnchangedRows, Reads, Carried
  <2> QED
    BY <2>1, <2>2
<1> QED
  BY <1>1, <1>2, <1>3, <1>4 DEF TicketsInv

\* A step that writes the rows of some documents.
LEMMA Overtaken ==
  ASSUME TicketsInv, NEW a \in D!Actors, NEW written \in SUBSET Documents,
         D!Overtakes(a, written), D!Return(a), UNCHANGED loaded,
         \A d \in Documents \ written : shared'[d] = shared[d] /\ said'[d] = said[d],
         D!TypeOK', D!TicketsStand',
         a \in Users => \A d \in Documents : Shows(a, d)'
  PROVE  TicketsInv'
<1>0. /\ ticketTask' \in [D!Actors -> D!Task] /\ ticketTask'[a].at = "idle"
      /\ \A b \in D!Actors \ {a} : ticketTask'[b] = ticketTask[b]
  BY Returns DEF TicketsInv
<1>1. a \notin ticketRaced' /\ D!SharedDocumentsAssumption'
  BY DEF D!Overtakes, TicketsInv, D!SharedDocumentsAssumption
<1>2. \A d \in Documents : stale'[d] = IF d \in written THEN D!Followers(d) \ {a} ELSE stale[d]
  BY DEF D!Overtakes
<1>3. ASSUME NEW b \in D!Actors, b # a, ticketTask[b].document \in written
      PROVE  b \in stale'[ticketTask[b].document]
  BY <1>2, <1>3 DEF D!Followers, D!Actors
<1>4. ASSUME NEW b \in D!Actors
      PROVE  Carried(b)' /\ Asked(b)'
  <2>1. CASE b = a
    BY <1>0, <1>1, <2>1 DEF Carried, Asked
  <2>2. CASE b # a
    <3>1. Carried(b)' /\ ticketTask'[b] = ticketTask[b] /\ Carried(b)
      BY <1>0, <2>2 DEF Carried, TicketsInv
    <3>2. CASE ticketTask[b].at \in {"write", "remove"} /\ ticketTask[b].document \in written
      <4>1. b \in ticketRaced' /\ b \in stale'[ticketTask[b].document]
        BY <1>3, <2>2, <3>2 DEF D!Overtakes
      <4> QED
        BY <3>1, <3>2, <4>1 DEF Asked
    <3>3. CASE ticketTask[b].at \in {"write", "remove"} /\ ticketTask[b].document \notin written
      <4>1. ticketTask[b].document \in Documents \ written
        BY <3>1, <3>3 DEF Carried
      <4>2. b \in ticketRaced' <=> b \in ticketRaced
        BY <2>2, <3>3 DEF D!Overtakes
      <4>3. Asked(b)
        BY DEF TicketsInv
      <4> QED
        BY <1>2, <3>1, <4>1, <4>2, <4>3 DEF Asked
    <3>4. CASE ticketTask[b].at \notin {"write", "remove"}
      BY <2>2, <3>1, <3>4 DEF Asked, D!Overtakes, TicketsInv
    <3> QED
      BY <3>1, <3>2, <3>3, <3>4
  <2> QED
    BY <2>1, <2>2
<1>5. ASSUME NEW u \in Users
      PROVE  Sends(u)' /\ \A d \in Documents : Shows(u, d)'
  <2>0. u \in D!Actors
    BY DEF D!Actors
  <2>1. CASE u = a
    BY <1>0, <2>1 DEF Sends
  <2>2. CASE u # a
    <3>1. ticketTask'[u] = ticketTask[u] /\ loaded' = loaded
      BY <1>0, <2>0, <2>2
    <3>2. Sends(u)'
      BY <3>1 DEF TicketsInv, Sends
    <3>3. ASSUME NEW d \in Documents
          PROVE  Shows(u, d)'
      <4>1. CASE d \in written
        BY <1>2, <2>2, <4>1 DEF Shows, D!Followers
      <4>2. CASE d \notin written
        <5>1. d \in Documents \ written /\ Shows(u, d)
          BY <4>2 DEF TicketsInv
        <5>2. shared'[d] = shared[d] /\ said'[d] = said[d] /\ stale'[d] = stale[d]
          BY <1>2, <5>1
        <5>3. D!Own(d, Workshop[u])' = D!Own(d, Workshop[u]) /\ D!Shown(u, d)' = D!Shown(u, d)
          BY <3>1, <5>2 DEF D!Own, D!Shown
        <5>4. Dropping(u, d)' = Dropping(u, d)
          BY <3>1 DEF Dropping
        <5> QED
          BY <5>1, <5>2, <5>3, <5>4 DEF Shows
      <4> QED
        BY <4>1, <4>2
    <3> QED
      BY <3>2, <3>3
  <2> QED
    BY <2>1, <2>2
<1>6. ASSUME NEW g \in Agents
      PROVE  Reads(g)'
  <2>0. g \in D!Actors
    BY DEF D!Actors
  <2>1. CASE g = a
    BY <1>0, <2>1 DEF Reads
  <2>2. CASE g # a
    <3>1. ticketTask'[g] = ticketTask[g] /\ Reads(g) /\ Carried(g)
      BY <1>0, <2>0, <2>2 DEF TicketsInv
    <3>2. CASE ticketTask[g].at = "idle"
      BY <3>1, <3>2 DEF Reads
    <3>3. CASE ticketTask[g].document \in written
      BY <1>3, <2>0, <2>2, <3>1, <3>3 DEF Reads
    <3>4. CASE ticketTask[g].at # "idle" /\ ticketTask[g].document \notin written
      <4>1. ticketTask[g].document \in Documents \ written
        BY <3>1, <3>4 DEF Reads, Carried
      <4> QED
        BY <1>2, <3>1, <4>1 DEF Reads
    <3> QED
      BY <3>2, <3>3, <3>4
  <2> QED
    BY <2>1, <2>2
<1> QED
  BY <1>1, <1>4, <1>5, <1>6 DEF TicketsInv

-----------------------------------------------------------------------------
(* Documents: steps that write no row.                                     *)

LEMMA QuietTypes ==
  ASSUME D!TypeOK, D!UnchangedRows,
         ticketTask' \in [D!Actors -> D!Task], loaded' \in [Users -> [Documents -> D!Thread \cup {None}]],
         stale' \in [Documents -> SUBSET D!Actors], ticketRaced' \subseteq D!Actors,
         ticketRequests' \in 0..MaxRequests
  PROVE  D!TypeOK'
BY DEF D!TypeOK, D!UnchangedRows

LEMMA LoadKeeps ==
  ASSUME TicketsInv, NEW u \in Users, D!Load(u)
  PROVE  TicketsInv'
<1>0. /\ D!SharedDocumentsAssumption /\ D!TypeOK /\ D!TicketsStand /\ u \in D!Actors
      /\ Carried(u) /\ Asked(u) /\ ticketTask[u].at = "idle" /\ u \notin Agents
  BY DEF TicketsInv, D!Actors, D!Load, D!At, D!SharedDocumentsAssumption
<1>1. ASSUME NEW d \in Documents, D!Own(d, Workshop[u])
      PROVE  shared[d].thread \in D!Thread /\ said[d] \subseteq shared[d].thread
  BY <1>0, <1>1 DEF D!Own, D!TypeOK, D!Row, D!TicketsStand
<1>2. \A d \in Documents :
        loaded'[u][d] = IF D!Own(d, Workshop[u]) THEN shared[d].thread ELSE None
  BY <1>0 DEF D!Load, D!TypeOK
<1>3. loaded' \in [Users -> [Documents -> D!Thread \cup {None}]]
  <2>1. [d \in Documents |-> IF D!Own(d, Workshop[u]) THEN shared[d].thread ELSE None]
          \in [Documents -> D!Thread \cup {None}]
    BY <1>1
  <2> QED
    BY <1>0, <2>1 DEF D!Load, D!TypeOK
<1>4. D!TypeOK'
  <2>1. stale' \in [Documents -> SUBSET D!Actors]
    BY <1>0 DEF D!Load, D!TypeOK
  <2> QED
    BY <1>0, <1>3, <2>1, QuietTypes DEF D!Load, D!TypeOK
<1>5. Carried(u)' /\ Asked(u)' /\ Sends(u)'
  BY <1>0 DEF D!Load, Carried, Asked, Sends
<1>6. ASSUME NEW d \in Documents
      PROVE  Shows(u, d)'
  <2>1. D!Own(d, Workshop[u])' = D!Own(d, Workshop[u]) /\ said' = said
    BY DEF D!Load, D!UnchangedRows, D!Own
  <2>2. CASE D!Own(d, Workshop[u])
    <3>1. loaded'[u][d] = shared[d].thread /\ said[d] \subseteq shared[d].thread
      BY <1>1, <1>2, <2>2
    <3> QED
      BY <2>1, <3>1, <1>0, <1>1, <2>2
      DEF Shows, D!Shown, D!Thread, D!Messages, D!SharedDocumentsAssumption
  <2> QED
    BY <2>1, <2>2 DEF Shows
<1>7. \A b \in D!Actors \ {u} : /\ ticketTask'[b] = ticketTask[b]
                                /\ b \in ticketRaced' <=> b \in ticketRaced
                                /\ \A d \in Documents : b \in stale'[d] <=> b \in stale[d]
  BY <1>0 DEF D!Load, D!TypeOK
<1>8. \A v \in Users \ {u} : loaded'[v] = loaded[v]
  BY <1>0 DEF D!Load, D!TypeOK
<1> QED
  BY <1>0, <1>4, <1>5, <1>6, <1>7, <1>8, Quiet DEF D!Load

\* A request of a browser takes what it shows along.
LEMMA SendKeeps ==
  ASSUME TicketsInv, NEW u \in Users, D!Request(u), UNCHANGED <<stale, ticketRaced>>, D!UnchangedRows,
         NEW t \in D!Task, ticketTask' = [ticketTask EXCEPT ![u] = t],
         NEW shown \in [Documents -> D!Thread \cup {None}], loaded' = [loaded EXCEPT ![u] = shown],
         t.at \in {"check", "look", "foreign"}, t.org = Workshop[u],
         t.at \in {"check", "look"} => t.document \in Documents,
         t.at \in {"check", "foreign"} => t.creator = u,
         t.at = "check" => /\ {t.message} \ {None} \subseteq t.thread
                           /\ shown[t.document] = t.thread,
         t.at = "foreign" => shown = t.items,
         \A d \in Documents : D!Shown(u, d) \subseteq D!Shown(u, d)' \/ Dropping(u, d)'
  PROVE  TicketsInv'
<1>0. /\ D!SharedDocumentsAssumption /\ D!TypeOK /\ u \in D!Actors /\ u \notin Agents
      /\ Asked(u) /\ ticketTask[u].at = "idle" /\ Workshop[u] \in Workshops
  BY DEF TicketsInv, D!Actors, D!Request, D!At, D!SharedDocumentsAssumption
<1>1. ticketTask' \in [D!Actors -> D!Task] /\ ticketTask'[u] = t /\ \A b \in D!Actors \ {u} : ticketTask'[b] = ticketTask[b]
  BY <1>0 DEF D!TypeOK
<1>2. /\ loaded' \in [Users -> [Documents -> D!Thread \cup {None}]] /\ loaded'[u] = shown
      /\ \A v \in Users \ {u} : loaded'[v] = loaded[v]
  BY <1>0 DEF D!TypeOK
<1>3. D!TypeOK'
  <2>1. ticketRequests' \in 0..MaxRequests
    BY <1>0 DEF D!Request, D!TypeOK, D!SharedDocumentsAssumption
  <2> QED
    BY <1>0, <1>1, <1>2, <2>1, QuietTypes DEF D!TypeOK
<1>4. Carried(u)'
  BY <1>0, <1>1 DEF Carried
<1>5. Asked(u)'
  BY <1>0, <1>1 DEF Asked
<1>6. Sends(u)'
  BY <1>1, <1>2 DEF Sends
<1>7. ASSUME NEW d \in Documents
      PROVE  Shows(u, d)'
  <2>1. Shows(u, d) /\ ~Dropping(u, d)
    BY <1>0 DEF TicketsInv, Dropping
  <2>2. D!Own(d, Workshop[u])' = D!Own(d, Workshop[u]) /\ said' = said /\ stale' = stale
    BY DEF D!UnchangedRows, D!Own
  <2> QED
    BY <2>1, <2>2 DEF Shows
<1> QED
  BY <1>0, <1>1, <1>2, <1>3, <1>4, <1>5, <1>6, <1>7, Quiet

LEMMA PutKeeps ==
  ASSUME TicketsInv, NEW u \in Users, NEW d \in Documents, NEW message \in {D!Fresh, None},
         D!Put(u, d, message)
  PROVE  TicketsInv'
<1> DEFINE thread == D!Shown(u, d) \cup ({message} \ {None})
           t == [D!NoTask EXCEPT !.at = "check", !.document = d, !.org = Workshop[u],
                                 !.creator = u, !.thread = thread, !.message = message]
           shown == [loaded[u] EXCEPT ![d] = thread]
<1>0. D!SharedDocumentsAssumption /\ D!TypeOK /\ Workshop[u] \in Workshops /\ D!Request(u)
  BY DEF TicketsInv, D!SharedDocumentsAssumption, D!Put
<1>1. message \in D!Messages \cup {None}
  BY <1>0 DEF D!Fresh, D!Request, D!TypeOK, D!Messages, D!SharedDocumentsAssumption
<1>2. thread \in D!Thread /\ thread # None
  BY <1>0, <1>1 DEF D!Shown, D!TypeOK, D!Thread, D!Messages, D!SharedDocumentsAssumption
<1>3. t \in D!Task /\ t.at = "check" /\ t.document = d /\ t.org = Workshop[u] /\ t.creator = u
      /\ t.thread = thread /\ t.message = message
  BY <1>0, <1>1, <1>2 DEF D!NoTask, D!Task, D!Thread
<1>4. shown \in [Documents -> D!Thread \cup {None}] /\ shown[d] = thread
  BY <1>0, <1>2 DEF D!TypeOK
<1>5. ticketTask' = [ticketTask EXCEPT ![u] = t] /\ loaded' = [loaded EXCEPT ![u] = shown]
  BY DEF D!Put
<1>6. loaded'[u] = shown
  BY <1>0, <1>5 DEF D!TypeOK
<1>7. \A e \in Documents : D!Shown(u, e) \subseteq D!Shown(u, e)'
  <2> TAKE e \in Documents
  <2>1. CASE e = d
    BY <1>2, <1>4, <1>6, <2>1 DEF D!Shown
  <2>2. CASE e # d
    <3>1. loaded'[u][e] = loaded[u][e]
      BY <1>0, <1>6, <2>2 DEF D!TypeOK
    <3> QED
      BY <3>1 DEF D!Shown
  <2> QED
    BY <2>1, <2>2
<1>8. UNCHANGED <<stale, ticketRaced>> /\ D!UnchangedRows
  BY DEF D!Put
<1>9. {t.message} \ {None} \subseteq t.thread
  BY <1>3
<1> HIDE DEF t, shown, thread
<1> QED
  BY <1>0, <1>3, <1>4, <1>5, <1>7, <1>8, <1>9, SendKeeps

LEMMA DeleteKeeps ==
  ASSUME TicketsInv, NEW u \in Users, NEW d \in Documents, D!Delete(u, d)
  PROVE  TicketsInv'
<1> DEFINE t == [D!NoTask EXCEPT !.at = "look", !.document = d, !.org = Workshop[u]]
           shown == [loaded[u] EXCEPT ![d] = None]
<1>0. D!SharedDocumentsAssumption /\ D!TypeOK /\ Workshop[u] \in Workshops /\ u \in D!Actors
  BY DEF TicketsInv, D!SharedDocumentsAssumption, D!Actors
<1>1. t \in D!Task /\ t.at = "look" /\ t.document = d /\ t.org = Workshop[u]
  BY <1>0 DEF D!NoTask, D!Task, D!Thread
<1>2. shown \in [Documents -> D!Thread \cup {None}]
  BY <1>0 DEF D!TypeOK
<1>3. ticketTask' = [ticketTask EXCEPT ![u] = t] /\ loaded' = [loaded EXCEPT ![u] = shown]
  BY DEF D!Delete
<1>4. loaded'[u] = shown /\ ticketTask'[u] = t
  BY <1>0, <1>3 DEF D!TypeOK
<1>5. \A e \in Documents : D!Shown(u, e) \subseteq D!Shown(u, e)' \/ Dropping(u, e)'
  <2> TAKE e \in Documents
  <2>1. CASE e = d
    BY <1>1, <1>4, <2>1 DEF Dropping
  <2>2. CASE e # d
    <3>1. loaded'[u][e] = loaded[u][e]
      BY <1>0, <1>4, <2>2 DEF D!TypeOK
    <3> QED
      BY <3>1 DEF D!Shown
  <2> QED
    BY <2>1, <2>2
<1> HIDE DEF t, shown
<1> QED
  BY <1>1, <1>2, <1>3, <1>5, SendKeeps DEF D!Delete

LEMMA PostSnapshotKeeps ==
  ASSUME TicketsInv, NEW u \in Users, NEW sent \in SUBSET Documents, D!PostSnapshot(u, sent)
  PROVE  TicketsInv'
<1> DEFINE items == [d \in Documents |-> IF d \in sent THEN D!Shown(u, d) ELSE None]
           t == [D!NoTask EXCEPT !.at = "foreign", !.org = Workshop[u], !.creator = u,
                               !.items = items]
<1>0. D!SharedDocumentsAssumption /\ D!TypeOK /\ Workshop[u] \in Workshops /\ u \in D!Actors
  BY DEF TicketsInv, D!SharedDocumentsAssumption, D!Actors
<1>1. items \in [Documents -> D!Thread \cup {None}]
  BY <1>0 DEF D!TypeOK, D!Shown, D!Thread
<1>2. t \in D!Task /\ t.at = "foreign" /\ t.org = Workshop[u] /\ t.creator = u /\ t.items = items
  BY <1>0, <1>1 DEF D!NoTask, D!Task, D!Thread
<1>3. ticketTask' = [ticketTask EXCEPT ![u] = t] /\ loaded' = [loaded EXCEPT ![u] = items]
  BY DEF D!PostSnapshot
<1>4. loaded'[u] = items /\ ticketTask'[u] = t
  BY <1>0, <1>3 DEF D!TypeOK
<1>5. \A d \in Documents : D!Shown(u, d) \subseteq D!Shown(u, d)' \/ Dropping(u, d)'
  <2> TAKE d \in Documents
  <2>1. CASE d \in sent
    <3>1. loaded'[u][d] = D!Shown(u, d)
      BY <1>4, <2>1
    <3>2. D!Shown(u, d) \in D!Thread
      BY <1>0 DEF D!Shown, D!TypeOK, D!Thread
    <3> QED
      BY <1>0, <3>1, <3>2 DEF D!Shown, D!Thread, D!Messages, D!SharedDocumentsAssumption
  <2>2. CASE d \notin sent
    BY <1>2, <1>4, <2>2 DEF Dropping
  <2> QED
    BY <2>1, <2>2
<1> HIDE DEF t, items
<1> QED
  BY <1>1, <1>2, <1>3, <1>5, SendKeeps DEF D!PostSnapshot

\* An agent's request reads the document it is about.
LEMMA BeginTaskKeeps ==
  ASSUME TicketsInv, NEW g \in Agents, NEW d \in Documents, NEW step \in {"again", "check"},
         NEW message \in {D!Fresh, None}, D!BeginTask(g, d, step, message),
         step = "check" => message = None
  PROVE  TicketsInv'
<1> DEFINE t == [D!NoTask EXCEPT !.at = step, !.document = d, !.org = shared[d].org,
                   !.creator = shared[d].creator, !.thread = shared[d].thread, !.message = message]
<1>0. /\ D!SharedDocumentsAssumption /\ D!TypeOK /\ D!TicketsStand /\ D!Request(g)
      /\ shared[d] \in D!Row
      /\ g \in D!Actors /\ g \notin Users /\ Asked(g) /\ ticketTask[g].at = "idle"
  BY DEF TicketsInv, D!TypeOK, D!SharedDocumentsAssumption, D!BeginTask, D!Actors, D!Request, D!At
<1>1. message \in D!Messages \cup {None}
  BY <1>0 DEF D!Fresh, D!Request, D!TypeOK, D!Messages, D!SharedDocumentsAssumption
<1>2. /\ t \in D!Task /\ t.at = step /\ t.document = d /\ t.org = shared[d].org
      /\ t.creator = shared[d].creator /\ t.thread = shared[d].thread /\ t.message = message
  BY <1>0, <1>1 DEF D!NoTask, D!Task, D!Row, D!Thread
<1>3. ticketTask' = [ticketTask EXCEPT ![g] = t] /\ UNCHANGED <<loaded, stale, ticketRaced>> /\ D!UnchangedRows
  BY DEF D!BeginTask
<1> HIDE DEF t
<1>4. ticketTask' \in [D!Actors -> D!Task] /\ ticketTask'[g] = t /\ \A b \in D!Actors \ {g} : ticketTask'[b] = ticketTask[b]
  BY <1>0, <1>2, <1>3 DEF D!TypeOK
<1>5. D!TypeOK'
  <2>1. ticketRequests' \in 0..MaxRequests
    BY <1>0 DEF D!Request, D!TypeOK, D!SharedDocumentsAssumption
  <2> QED
    BY <1>0, <1>3, <1>4, <2>1, QuietTypes DEF D!TypeOK
<1>6. Carried(g)'
  BY <1>0, <1>2, <1>4 DEF Carried, D!Row
<1>7. Asked(g)'
  BY <1>0, <1>2, <1>3, <1>4 DEF Asked
<1>8. Reads(g)'
  <2>1. said[d] \subseteq shared[d].thread
    BY <1>0 DEF D!TicketsStand, D!BeginTask
  <2> QED
    BY <1>2, <1>3, <1>4, <2>1 DEF Reads, D!UnchangedRows
<1> QED
  BY <1>0, <1>3, <1>4, <1>5, <1>6, <1>7, <1>8, Quiet

LEMMA ReadAgainKeeps ==
  ASSUME TicketsInv, NEW g \in Agents, D!ReadAgain(g)
  PROVE  TicketsInv'
<1> DEFINE d == ticketTask[g].document
           thread == D!Latest(g).thread \cup ({ticketTask[g].message} \ {None})
           t == [ticketTask[g] EXCEPT !.at = "check", !.creator = D!Latest(g).creator, !.thread = thread]
<1>0. /\ D!SharedDocumentsAssumption /\ D!TypeOK /\ D!TicketsStand /\ ticketTask[g].at = "again"
      /\ g \in D!Actors /\ g \notin Users /\ Carried(g) /\ Asked(g) /\ Reads(g)
      /\ ticketTask[g] \in D!Task
  BY DEF TicketsInv, D!TypeOK, D!SharedDocumentsAssumption, D!ReadAgain, D!Actors, D!At
<1>1. d \in Documents /\ ticketTask[g].creator \in Users /\ ticketTask[g].org \in Workshops
  BY <1>0 DEF Carried
<1>2. D!Own(d, ticketTask[g].org) =>
        /\ shared[d] \in D!Row /\ shared[d] # None /\ said[d] \subseteq shared[d].thread
        /\ D!Latest(g).thread = shared[d].thread /\ D!Latest(g).creator = shared[d].creator
  BY <1>0, <1>1 DEF D!Own, D!Latest, D!TypeOK, D!TicketsStand
<1>3. ~D!Own(d, ticketTask[g].org) =>
        D!Latest(g).thread = ticketTask[g].thread /\ D!Latest(g).creator = ticketTask[g].creator
  BY DEF D!Latest
<1>4. D!Latest(g).thread \in D!Thread /\ D!Latest(g).creator \in Users
  BY <1>0, <1>1, <1>2, <1>3 DEF D!Row, D!Task
<1>5. thread \in D!Thread
  BY <1>0, <1>4 DEF D!Task, D!Thread
<1>6. /\ t \in D!Task /\ t.at = "check" /\ t.document = d /\ t.org = ticketTask[g].org
      /\ t.creator = D!Latest(g).creator /\ t.thread = thread /\ t.message = ticketTask[g].message
  BY <1>0, <1>4, <1>5 DEF D!Task
<1>7. /\ ticketTask' = [ticketTask EXCEPT ![g] = t] /\ UNCHANGED <<loaded, ticketRaced, ticketRequests>> /\ D!UnchangedRows
      /\ stale' = IF D!Own(d, ticketTask[g].org) THEN [stale EXCEPT ![d] = @ \ {g}] ELSE stale
  BY DEF D!ReadAgain
<1> HIDE DEF t
<1>8. ticketTask' \in [D!Actors -> D!Task] /\ ticketTask'[g] = t /\ \A b \in D!Actors \ {g} : ticketTask'[b] = ticketTask[b]
  BY <1>0, <1>6, <1>7 DEF D!TypeOK
<1>9. D!TypeOK'
  <2>1. stale' \in [Documents -> SUBSET D!Actors]
    BY <1>0, <1>1, <1>7 DEF D!TypeOK
  <2> QED
    BY <1>0, <1>7, <1>8, <2>1, QuietTypes DEF D!TypeOK
<1>10. Carried(g)'
  BY <1>1, <1>4, <1>6, <1>8 DEF Carried
<1>11. Asked(g)'
  BY <1>0, <1>6, <1>7, <1>8 DEF Asked
<1>12. Reads(g)'
  <2>1. CASE D!Own(d, ticketTask[g].org)
    BY <1>2, <1>6, <1>7, <1>8, <2>1 DEF Reads, D!UnchangedRows
  <2>2. CASE ~D!Own(d, ticketTask[g].org)
    BY <1>0, <1>3, <1>6, <1>7, <1>8, <2>2 DEF Reads, D!UnchangedRows
  <2> QED
    BY <2>1, <2>2
<1>13. \A b \in D!Actors \ {g}, e \in Documents : b \in stale'[e] <=> b \in stale[e]
  BY <1>0, <1>1, <1>7 DEF D!TypeOK
<1> QED
  BY <1>0, <1>7, <1>8, <1>9, <1>10, <1>11, <1>12, <1>13, Quiet

\* A request that is refused.
LEMMA DoneKeeps ==
  ASSUME TicketsInv, NEW a \in D!Actors, D!Done(a), UNCHANGED <<loaded, ticketRequests>>, D!UnchangedRows,
         a \in Users => \A d \in Documents : Dropping(a, d) => ~D!Own(d, Workshop[a])
  PROVE  TicketsInv'
<1>0. D!SharedDocumentsAssumption /\ D!TypeOK /\ D!Return(a)
  BY DEF TicketsInv, D!Done
<1>1. /\ ticketTask' \in [D!Actors -> D!Task] /\ ticketTask'[a].at = "idle"
      /\ \A b \in D!Actors \ {a} : ticketTask'[b] = ticketTask[b]
  BY <1>0, Returns
<1>2. /\ stale' = [d \in Documents |-> stale[d] \ ({a} \cap Agents)]
      /\ ticketRaced' = ticketRaced \ {a}
  BY DEF D!Done
<1>3. D!TypeOK'
  <2>1. stale' \in [Documents -> SUBSET D!Actors] /\ ticketRaced' \subseteq D!Actors
    BY <1>0, <1>2 DEF D!TypeOK
  <2> QED
    BY <1>0, <1>1, <2>1, QuietTypes DEF D!TypeOK
<1>4. Carried(a)' /\ Asked(a)' /\ Sends(a)' /\ Reads(a)'
  BY <1>1, <1>2 DEF Carried, Asked, Sends, Reads
<1>5. ASSUME a \in Users, NEW d \in Documents
      PROVE  Shows(a, d)'
  <2>1. Shows(a, d) /\ (Dropping(a, d) => ~D!Own(d, Workshop[a]))
    BY <1>5 DEF TicketsInv
  <2>2. /\ D!Own(d, Workshop[a])' = D!Own(d, Workshop[a]) /\ D!Shown(a, d)' = D!Shown(a, d)
        /\ said' = said /\ (a \in stale'[d] <=> a \in stale[d])
    BY <1>0, <1>2, <1>5 DEF D!UnchangedRows, D!Own, D!Shown, D!SharedDocumentsAssumption
  <2> QED
    BY <2>1, <2>2 DEF Shows
<1>6. \A b \in D!Actors \ {a} : /\ b \in ticketRaced' <=> b \in ticketRaced
                                /\ \A d \in Documents : b \in stale'[d] <=> b \in stale[d]
  BY <1>2
<1> QED
  BY <1>1, <1>3, <1>4, <1>5, <1>6, Quiet

\* A question whose answer lets the request go on.
LEMMA PassedKeeps ==
  ASSUME TicketsInv, NEW a \in D!Actors, NEW t \in D!Task, ticketTask' = [ticketTask EXCEPT ![a] = t],
         UNCHANGED <<loaded, stale, ticketRaced, ticketRequests>>, D!UnchangedRows,
         ticketTask[a].at \in {"check", "look", "foreign"},
         t.at = CASE ticketTask[a].at = "check" -> "write"
                  [] ticketTask[a].at = "look" -> "remove"
                  [] ticketTask[a].at = "foreign" -> "commit",
         t.document = ticketTask[a].document, t.org = ticketTask[a].org, t.thread = ticketTask[a].thread,
         t.message = ticketTask[a].message, t.items = ticketTask[a].items, t.creator \in Users \cup {None},
         a \in Agents => t.creator = ticketTask[a].creator,
         t.at \in {"write", "commit"} => t.creator \in Users,
         t.at \in {"write", "remove"} /\ shared[t.document] # None =>
            /\ shared[t.document].org = t.org
            /\ a \in Users /\ t.at = "write" => shared[t.document].creator = t.creator
  PROVE  TicketsInv'
<1>0. /\ D!SharedDocumentsAssumption /\ D!TypeOK /\ Carried(a) /\ Asked(a)
      /\ a \in Users => Sends(a)
      /\ a \in Agents => Reads(a)
  BY DEF TicketsInv
<1>1. ticketTask' \in [D!Actors -> D!Task] /\ ticketTask'[a] = t /\ \A b \in D!Actors \ {a} : ticketTask'[b] = ticketTask[b]
  BY <1>0 DEF D!TypeOK
<1>2. D!TypeOK'
  BY <1>0, <1>1, QuietTypes DEF D!TypeOK
<1>3. Carried(a)'
  BY <1>0, <1>1 DEF Carried
<1>4. Asked(a)'
  BY <1>0, <1>1 DEF Asked, D!UnchangedRows
<1>5. ASSUME a \in Users
      PROVE  Sends(a)'
  BY <1>0, <1>1, <1>5 DEF Sends
<1>6. ASSUME a \in Users, NEW d \in Documents
      PROVE  Shows(a, d)'
  <2>1. Shows(a, d)
    BY <1>6 DEF TicketsInv
  <2>2. Dropping(a, d) => Dropping(a, d)'
    BY <1>1 DEF Dropping
  <2>3. /\ D!Own(d, Workshop[a])' = D!Own(d, Workshop[a]) /\ D!Shown(a, d)' = D!Shown(a, d)
        /\ said' = said /\ stale' = stale
    BY DEF D!UnchangedRows, D!Own, D!Shown
  <2> QED
    BY <2>1, <2>2, <2>3 DEF Shows
<1>7. ASSUME a \in Agents
      PROVE  Reads(a)'
  BY <1>0, <1>1, <1>7 DEF Reads, D!UnchangedRows
<1> QED
  BY <1>1, <1>2, <1>3, <1>4, <1>5, <1>6, <1>7, Quiet

\* Whose a document is.
LEMMA CheckOwnerKeeps ==
  ASSUME TicketsInv, NEW a \in D!Actors, D!CheckOwner(a)
  PROVE  TicketsInv'
<1> DEFINE d == ticketTask[a].document
           creator == IF a \in Users /\ shared[d] # None THEN shared[d].creator ELSE ticketTask[a].creator
           t == [ticketTask[a] EXCEPT !.at = "write", !.creator = creator]
<1>0. /\ D!SharedDocumentsAssumption /\ D!TypeOK /\ ticketTask[a].at = "check" /\ ticketTask[a] \in D!Task
      /\ Carried(a) /\ UNCHANGED <<loaded, ticketRequests>> /\ D!UnchangedRows
  BY DEF TicketsInv, D!TypeOK, D!CheckOwner, D!At
<1>1. CASE D!Foreign(d, ticketTask[a].org)
  <2>1. \A e \in Documents : ~Dropping(a, e)
    BY <1>0 DEF Dropping
  <2> QED
    BY <1>0, <1>1, <2>1, DoneKeeps DEF D!CheckOwner
<1>2. CASE ~D!Foreign(d, ticketTask[a].org)
  <2>1. d \in Documents /\ ticketTask[a].creator \in Users /\ (shared[d] # None => shared[d] \in D!Row)
    BY <1>0 DEF Carried, D!TypeOK
  <2>2. creator \in Users
    BY <2>1 DEF D!Row
  <2>3. /\ t \in D!Task /\ t.at = "write" /\ t.creator = creator /\ t.document = d
        /\ t.org = ticketTask[a].org /\ t.thread = ticketTask[a].thread /\ t.message = ticketTask[a].message
        /\ t.items = ticketTask[a].items
    BY <1>0, <2>2 DEF D!Task
  <2>4. ticketTask' = [ticketTask EXCEPT ![a] = t] /\ UNCHANGED <<stale, ticketRaced>>
    BY <1>0, <1>2 DEF D!CheckOwner, D!TypeOK
  <2>5. a \in Agents => creator = ticketTask[a].creator
    BY <1>0 DEF D!SharedDocumentsAssumption
  <2>6. shared[d] # None => shared[d].org = ticketTask[a].org /\ (a \in Users => creator = shared[d].creator)
    BY <1>2 DEF D!Foreign
  <2> HIDE DEF t, creator
  <2> QED
    BY <1>0, <2>2, <2>3, <2>4, <2>5, <2>6, PassedKeeps
<1> QED
  BY <1>1, <1>2

LEMMA LookKeeps ==
  ASSUME TicketsInv, NEW u \in Users, D!Look(u)
  PROVE  TicketsInv'
<1> DEFINE d == ticketTask[u].document
           t == [ticketTask[u] EXCEPT !.at = "remove"]
<1>0. /\ D!SharedDocumentsAssumption /\ D!TypeOK /\ u \in D!Actors /\ ticketTask[u].at = "look"
      /\ ticketTask[u] \in D!Task /\ Carried(u) /\ Sends(u)
      /\ UNCHANGED <<loaded, ticketRequests>> /\ D!UnchangedRows
  BY DEF TicketsInv, D!TypeOK, D!Look, D!At, D!Actors
<1>1. CASE D!Own(d, ticketTask[u].org)
  <2>1. /\ t \in D!Task /\ t.at = "remove" /\ t.document = d /\ t.creator = ticketTask[u].creator
        /\ t.org = ticketTask[u].org /\ t.thread = ticketTask[u].thread /\ t.message = ticketTask[u].message
        /\ t.items = ticketTask[u].items /\ t.creator \in Users \cup {None}
    BY <1>0 DEF D!Task
  <2>2. ticketTask' = [ticketTask EXCEPT ![u] = t] /\ UNCHANGED <<stale, ticketRaced>>
    BY <1>0, <1>1 DEF D!Look, D!Goto
  <2>3. shared[d].org = ticketTask[u].org
    BY <1>1 DEF D!Own
  <2> HIDE DEF t
  <2> QED
    BY <1>0, <2>1, <2>2, <2>3, PassedKeeps
<1>2. CASE ~D!Own(d, ticketTask[u].org)
  <2>1. \A e \in Documents : Dropping(u, e) => ~D!Own(e, Workshop[u])
    BY <1>0, <1>2 DEF Dropping, Sends
  <2>2. D!Done(u)
    BY <1>2 DEF D!Look
  <2> QED
    BY <1>0, <2>1, <2>2, DoneKeeps
<1> QED
  BY <1>1, <1>2

LEMMA CheckForeignKeeps ==
  ASSUME TicketsInv, NEW u \in Users, D!CheckForeign(u)
  PROVE  TicketsInv'
<1> DEFINE refused == \E d \in Documents : ticketTask[u].items[d] # None /\ D!Foreign(d, ticketTask[u].org)
           t == [ticketTask[u] EXCEPT !.at = "commit"]
<1>0. /\ D!SharedDocumentsAssumption /\ D!TypeOK /\ u \in D!Actors /\ u \notin Agents
      /\ ticketTask[u].at = "foreign" /\ ticketTask[u] \in D!Task /\ Carried(u) /\ Asked(u)
      /\ UNCHANGED <<loaded, ticketRequests>> /\ D!UnchangedRows
  BY DEF TicketsInv, D!TypeOK, D!CheckForeign, D!At, D!Actors, D!SharedDocumentsAssumption
<1>1. CASE ~refused
  <2>1. /\ t \in D!Task /\ t.at = "commit" /\ t.document = ticketTask[u].document
        /\ t.creator = ticketTask[u].creator
        /\ t.org = ticketTask[u].org /\ t.thread = ticketTask[u].thread /\ t.message = ticketTask[u].message
        /\ t.items = ticketTask[u].items /\ t.creator \in Users
    BY <1>0 DEF D!Task, Carried
  <2>2. ticketTask' = [ticketTask EXCEPT ![u] = t] /\ UNCHANGED <<stale, ticketRaced>>
    BY <1>0, <1>1 DEF D!CheckForeign, D!Goto
  <2> HIDE DEF t
  <2> QED
    BY <1>0, <2>1, <2>2, PassedKeeps
<1>2. CASE refused
  <2>1. /\ D!Return(u) /\ ticketRaced' = ticketRaced
        /\ stale' = [d \in Documents |->
             IF ticketTask[u].items[d] = None THEN stale[d] \cup {u} ELSE stale[d]]
    BY <1>2 DEF D!CheckForeign
  <2>2. /\ ticketTask' \in [D!Actors -> D!Task] /\ ticketTask'[u].at = "idle"
        /\ \A b \in D!Actors \ {u} : ticketTask'[b] = ticketTask[b]
    BY <1>0, <2>1, Returns
  <2>3. D!TypeOK'
    <3>1. stale' \in [Documents -> SUBSET D!Actors]
      BY <1>0, <2>1 DEF D!TypeOK
    <3> QED
      BY <1>0, <2>1, <2>2, <3>1, QuietTypes DEF D!TypeOK
  <2>4. Carried(u)' /\ Asked(u)' /\ Sends(u)'
    BY <1>0, <2>1, <2>2 DEF Carried, Asked, Sends
  <2>5. ASSUME NEW d \in Documents
        PROVE  Shows(u, d)'
    <3>1. Shows(u, d)
      BY DEF TicketsInv
    <3>2. /\ D!Own(d, Workshop[u])' = D!Own(d, Workshop[u]) /\ D!Shown(u, d)' = D!Shown(u, d)
          /\ said' = said
      BY <1>0 DEF D!UnchangedRows, D!Own, D!Shown
    <3>3. CASE ticketTask[u].items[d] = None
      BY <2>1, <3>3 DEF Shows
    <3>4. CASE ticketTask[u].items[d] # None
      <4>1. ~Dropping(u, d) /\ stale'[d] = stale[d]
        BY <1>0, <2>1, <3>4 DEF Dropping
      <4> QED
        BY <3>1, <3>2, <4>1 DEF Shows
    <3> QED
      BY <3>3, <3>4
  <2>6. \A b \in D!Actors \ {u}, d \in Documents : b \in stale'[d] <=> b \in stale[d]
    BY <2>1
  <2> QED
    BY <1>0, <2>1, <2>2, <2>3, <2>4, <2>5, <2>6, Quiet
<1> QED
  BY <1>1, <1>2

-----------------------------------------------------------------------------
(* Documents: steps that write rows.                                       *)

LEMMA OvertakenTypes ==
  ASSUME D!TypeOK, NEW a \in D!Actors, NEW written \in SUBSET Documents, D!Overtakes(a, written)
  PROVE  stale' \in [Documents -> SUBSET D!Actors] /\ ticketRaced' \subseteq D!Actors
BY DEF D!TypeOK, D!Overtakes, D!Followers, D!Actors

LEMMA WriteKeeps ==
  ASSUME TicketsInv, NEW a \in D!Actors, D!Write(a)
  PROVE  TicketsInv'
<1> DEFINE d == ticketTask[a].document
           new == shared[d] = None \/ a \in ticketRaced
           r == [org |-> ticketTask[a].org, creator |-> ticketTask[a].creator, thread |-> ticketTask[a].thread]
<1>0. /\ D!SharedDocumentsAssumption /\ D!TypeOK /\ D!TicketsStand /\ ticketTask[a].at = "write"
      /\ ticketTask[a] \in D!Task /\ Carried(a) /\ Asked(a)
      /\ D!Overtakes(a, {d}) /\ D!Return(a) /\ UNCHANGED <<loaded, ticketRequests>>
      /\ a \in Users => Sends(a)
      /\ a \in Agents => Reads(a)
  BY DEF TicketsInv, D!TypeOK, D!Write, D!At
<1>1. /\ d \in Documents /\ ticketTask[a].creator \in Users /\ ticketTask[a].org \in Workshops
      /\ {ticketTask[a].message} \ {None} \subseteq ticketTask[a].thread /\ ticketTask[a].thread \in D!Thread
  BY <1>0 DEF Carried, D!Task
<1>2. r \in D!Row /\ r # None
  BY <1>0, <1>1 DEF D!Row, D!SharedDocumentsAssumption
<1>3. /\ shared' = [shared EXCEPT ![d] = r]
      /\ said' = [said EXCEPT ![d] = D!StillOwed(a, d, ticketTask[a].thread)
                                     \cup ({ticketTask[a].message} \ {None})]
      /\ owner' = [owner EXCEPT ![d] = IF new THEN ticketTask[a].org ELSE @]
      /\ author' = [author EXCEPT ![d] = IF new \/ a \in stale[d] \cap Agents
                                           THEN ticketTask[a].creator ELSE @]
  BY DEF D!Write
<1>4. said[d] \in D!Thread /\ (shared[d] # None => shared[d] \in D!Row)
  BY <1>0, <1>1 DEF D!TypeOK
<1>5. D!StillOwed(a, d, ticketTask[a].thread) \subseteq ticketTask[a].thread
  <2>1. CASE a \in stale[d] \/ shared[d] = None
    BY <1>0, <1>1, <2>1 DEF D!StillOwed, D!TicketsStand
  <2>2. CASE a \notin stale[d] /\ shared[d] # None /\ a \in Agents
    BY <1>0, <2>2 DEF D!StillOwed, Reads
  <2>3. CASE a \notin stale[d] /\ shared[d] # None /\ a \in Users
    <3>1. D!Own(d, Workshop[a])
      BY <1>0, <2>3 DEF Asked, Sends, D!Own
    <3>2. Shows(a, d) /\ ~Dropping(a, d)
      BY <1>0, <1>1, <2>3 DEF TicketsInv, Dropping
    <3>3. loaded[a][d] = ticketTask[a].thread
      BY <1>0, <2>3 DEF Sends
    <3> QED
      BY <1>1, <2>3, <3>1, <3>2, <3>3 DEF Shows, D!Shown, D!StillOwed
  <2> QED
    BY <2>1, <2>2, <2>3 DEF D!Actors
<1>6. said'[d] \subseteq ticketTask[a].thread /\ said'[d] \in D!Thread
  BY <1>0, <1>1, <1>3, <1>5 DEF D!TypeOK, D!Thread
<1>7. D!TypeOK'
  <2>1. ticketTask' \in [D!Actors -> D!Task]
    BY <1>0, Returns
  <2>2. stale' \in [Documents -> SUBSET D!Actors] /\ ticketRaced' \subseteq D!Actors
    BY <1>0, <1>1, OvertakenTypes
  <2>3. shared' \in [Documents -> D!Row \cup {None}]
    BY <1>0, <1>2, <1>3 DEF D!TypeOK
  <2>4. said' \in [Documents -> D!Thread]
    BY <1>0, <1>3, <1>6 DEF D!TypeOK
  <2>5. /\ owner' \in [Documents -> Workshops \cup {None}]
       /\ author' \in [Documents -> Users \cup {None}]
    BY <1>0, <1>1, <1>3 DEF D!TypeOK
  <2> QED
    BY <1>0, <2>1, <2>2, <2>3, <2>4, <2>5 DEF D!TypeOK
<1>8. \A e \in Documents \ {d} :
        shared'[e] = shared[e] /\ said'[e] = said[e] /\ owner'[e] = owner[e] /\ author'[e] = author[e]
  BY <1>0, <1>3 DEF D!TypeOK
<1>9. shared'[d] = r /\ owner'[d] = ticketTask[a].org /\ author'[d] = ticketTask[a].creator
  <2>1. shared'[d] = r
    BY <1>0, <1>1, <1>3 DEF D!TypeOK
  <2>2. owner'[d] = ticketTask[a].org
    <3>1. ~new => owner[d] = ticketTask[a].org
      BY <1>0, <1>1 DEF Asked, D!TicketsStand
    <3> QED
      BY <1>0, <1>1, <1>3, <3>1 DEF D!TypeOK
  <2>3. author'[d] = ticketTask[a].creator
    <3>1. ~new => author[d] = shared[d].creator
      BY <1>0, <1>1 DEF D!TicketsStand
    <3>2. ~new /\ a \in Users => shared[d].creator = ticketTask[a].creator
      BY <1>0 DEF Asked
    <3>3. ~new /\ a \in Agents /\ a \notin stale[d] => shared[d].creator = ticketTask[a].creator
      BY <1>0 DEF Reads
    <3> QED
      BY <1>0, <1>1, <1>3, <3>1, <3>2, <3>3 DEF D!TypeOK, D!Actors
  <2> QED
    BY <2>1, <2>2, <2>3
<1>10. r.org = ticketTask[a].org /\ r.creator = ticketTask[a].creator /\ r.thread = ticketTask[a].thread
  OBVIOUS
<1> HIDE DEF r
<1>11. D!TicketsStand'
  <2> SUFFICES ASSUME NEW e \in Documents
               PROVE  IF shared'[e] = None THEN said'[e] = {} /\ owner'[e] = None
                      ELSE /\ said'[e] \subseteq shared'[e].thread /\ shared'[e].org = owner'[e]
                           /\ shared'[e].creator = author'[e]
    BY DEF D!TicketsStand
  <2>1. CASE e = d
    BY <1>2, <1>6, <1>9, <1>10, <2>1
  <2>2. CASE e # d
    BY <1>0, <1>8, <2>2 DEF D!TicketsStand
  <2> QED
    BY <2>1, <2>2
<1>12. ASSUME a \in Users, NEW e \in Documents
       PROVE  Shows(a, e)'
  <2>1. CASE e = d
    <3>1. loaded'[a][d] = ticketTask[a].thread
      BY <1>0, <1>12 DEF Sends
    <3> QED
      BY <1>0, <1>1, <1>6, <2>1, <3>1 DEF Shows, D!Shown, D!SharedDocumentsAssumption
  <2>2. CASE e # d
    <3>1. Shows(a, e) /\ ~Dropping(a, e)
      BY <1>0, <1>12 DEF TicketsInv, Dropping
    <3>2. /\ D!Own(e, Workshop[a])' = D!Own(e, Workshop[a]) /\ D!Shown(a, e)' = D!Shown(a, e)
          /\ said'[e] = said[e] /\ stale'[e] = stale[e]
      BY <1>0, <1>8, <2>2 DEF D!Own, D!Shown, D!Overtakes
    <3> QED
      BY <3>1, <3>2 DEF Shows
  <2> QED
    BY <2>1, <2>2
<1> QED
  BY <1>0, <1>1, <1>7, <1>8, <1>11, <1>12, Overtaken

LEMMA RemoveKeeps ==
  ASSUME TicketsInv, NEW u \in Users, D!Remove(u)
  PROVE  TicketsInv'
<1> DEFINE d == ticketTask[u].document
           mine == u \in ticketRaced \/ owner[d] = ticketTask[u].org
<1>0. /\ D!SharedDocumentsAssumption /\ D!TypeOK /\ D!TicketsStand /\ u \in D!Actors
      /\ ticketTask[u].at = "remove" /\ Carried(u) /\ Sends(u) /\ Asked(u) /\ d \in Documents
      /\ UNCHANGED <<loaded, ticketRequests>>
  BY DEF TicketsInv, D!TypeOK, D!Remove, D!At, D!Actors, Carried
<1>1. CASE shared[d] = None
  <2>1. \A e \in Documents : Dropping(u, e) => ~D!Own(e, Workshop[u])
    BY <1>0, <1>1 DEF Dropping, D!Own
  <2>2. D!Done(u) /\ D!UnchangedRows
    BY <1>1 DEF D!Remove
  <2> QED
    BY <1>0, <2>1, <2>2, DoneKeeps
<1>2. CASE shared[d] # None
  <2>1. /\ shared' = [shared EXCEPT ![d] = None]
        /\ said' = [said EXCEPT ![d] = {}]
        /\ owner' = [owner EXCEPT ![d] = IF mine THEN None ELSE @]
        /\ author' = [author EXCEPT ![d] = IF mine THEN None ELSE @]
        /\ D!Overtakes(u, {d}) /\ D!Return(u)
    BY <1>2 DEF D!Remove
  <2>2. mine
    BY <1>0, <1>2 DEF Asked, D!TicketsStand
  <2>3. shared'[d] = None /\ said'[d] = {} /\ owner'[d] = None
    BY <1>0, <2>1, <2>2 DEF D!TypeOK
  <2>4. \A e \in Documents \ {d} :
          shared'[e] = shared[e] /\ said'[e] = said[e] /\ owner'[e] = owner[e] /\ author'[e] = author[e]
    BY <1>0, <2>1 DEF D!TypeOK
  <2>5. D!TypeOK'
    <3>1. ticketTask' \in [D!Actors -> D!Task]
      BY <1>0, <2>1, Returns
    <3>2. stale' \in [Documents -> SUBSET D!Actors] /\ ticketRaced' \subseteq D!Actors
      BY <1>0, <2>1, OvertakenTypes
    <3>3. said' \in [Documents -> D!Thread]
      BY <1>0, <2>1 DEF D!TypeOK, D!Thread
    <3>4. shared' \in [Documents -> D!Row \cup {None}]
      BY <1>0, <2>1 DEF D!TypeOK
    <3>5. /\ owner' \in [Documents -> Workshops \cup {None}]
         /\ author' \in [Documents -> Users \cup {None}]
      BY <1>0, <2>1 DEF D!TypeOK
    <3> QED
      BY <1>0, <3>1, <3>2, <3>3, <3>4, <3>5 DEF D!TypeOK
  <2>6. D!TicketsStand'
    <3> SUFFICES ASSUME NEW e \in Documents
                 PROVE  IF shared'[e] = None THEN said'[e] = {} /\ owner'[e] = None
                        ELSE /\ said'[e] \subseteq shared'[e].thread /\ shared'[e].org = owner'[e]
                             /\ shared'[e].creator = author'[e]
      BY DEF D!TicketsStand
    <3>1. CASE e = d
      BY <2>3, <3>1
    <3>2. CASE e # d
      BY <1>0, <2>4, <3>2 DEF D!TicketsStand
    <3> QED
      BY <3>1, <3>2
  <2>7. ASSUME NEW e \in Documents
        PROVE  Shows(u, e)'
    <3>1. CASE e = d
      BY <2>3, <3>1 DEF Shows, D!Own
    <3>2. CASE e # d
      <4>1. Shows(u, e) /\ ~Dropping(u, e)
        BY <1>0, <3>2 DEF TicketsInv, Dropping
      <4>2. /\ D!Own(e, Workshop[u])' = D!Own(e, Workshop[u]) /\ D!Shown(u, e)' = D!Shown(u, e)
            /\ said'[e] = said[e] /\ stale'[e] = stale[e]
        BY <1>0, <2>1, <2>4, <3>2 DEF D!Own, D!Shown, D!Overtakes
      <4> QED
        BY <4>1, <4>2 DEF Shows
    <3> QED
      BY <3>1, <3>2
  <2> QED
    BY <1>0, <2>1, <2>4, <2>5, <2>6, <2>7, Overtaken
<1> QED
  BY <1>1, <1>2

LEMMA CommitKeeps ==
  ASSUME TicketsInv, NEW u \in Users, D!Commit(u)
  PROVE  TicketsInv'
<1> DEFINE org == ticketTask[u].org
           items == ticketTask[u].items
           sent == {d \in Documents : items[d] # None}
           still == {d \in Documents : D!Foreign(d, org)}
           written == {d \in Documents : ~D!Foreign(d, org) /\ (d \in sent \/ shared[d] # None)}
           creator(d) == IF shared[d] = None THEN ticketTask[u].creator ELSE shared[d].creator
           new(d) == [org |-> org, thread |-> items[d], creator |-> creator(d)]
<1>0. /\ D!SharedDocumentsAssumption /\ D!TypeOK /\ D!TicketsStand /\ u \in D!Actors
      /\ ticketTask[u].at = "commit" /\ ticketTask[u] \in D!Task /\ Carried(u) /\ Sends(u)
      /\ UNCHANGED <<loaded, ticketRequests>> /\ D!Return(u) /\ D!Overtakes(u, written)
  BY DEF TicketsInv, D!TypeOK, D!Commit, D!At, D!Actors
<1>1. /\ org \in Workshops /\ org = Workshop[u] /\ ticketTask[u].creator \in Users
      /\ items = loaded[u] /\ items \in [Documents -> D!Thread \cup {None}]
  BY <1>0 DEF Carried, Sends, D!Task
<1>2. \A d \in Documents : shared[d] # None => shared[d] \in D!Row
  BY <1>0 DEF D!TypeOK
<1>3. \A d \in Documents :
        shared'[d] = IF D!Foreign(d, org) THEN shared[d] ELSE IF d \in sent THEN new(d) ELSE None
  BY DEF D!Commit
<1>4. \A d \in Documents :
        said'[d] = IF D!Foreign(d, org) THEN said[d]
                   ELSE IF d \in sent THEN D!StillOwed(u, d, items[d]) ELSE {}
  BY DEF D!Commit
<1>5. \A d \in Documents :
        owner'[d] = IF D!Foreign(d, org) THEN owner[d] ELSE IF d \in sent THEN org ELSE None
  BY DEF D!Commit
<1>6. \A d \in Documents :
        author'[d] = IF D!Foreign(d, org) THEN author[d]
                     ELSE IF d \in sent
                       THEN IF shared[d] = None THEN ticketTask[u].creator ELSE author[d]
                       ELSE None
  BY DEF D!Commit
<1>7. \A d \in sent : new(d) \in D!Row /\ new(d) # None
  BY <1>0, <1>1, <1>2 DEF D!Row, D!SharedDocumentsAssumption
<1>8. \A d \in sent : ~D!Foreign(d, org) => D!StillOwed(u, d, items[d]) \subseteq items[d]
  <2> SUFFICES ASSUME NEW d \in sent, ~D!Foreign(d, org)
               PROVE  D!StillOwed(u, d, items[d]) \subseteq items[d]
    OBVIOUS
  <2>1. CASE u \in stale[d] \/ shared[d] = None
    BY <1>0, <2>1 DEF D!StillOwed, D!TicketsStand
  <2>2. CASE u \notin stale[d] /\ shared[d] # None
    <3>1. D!Own(d, Workshop[u])
      BY <1>1, <2>2 DEF D!Foreign, D!Own
    <3>2. Shows(u, d) /\ ~Dropping(u, d)
      BY <1>0 DEF TicketsInv, Dropping
    <3> QED
      BY <1>1, <2>2, <3>1, <3>2 DEF Shows, D!Shown, D!StillOwed
  <2> QED
    BY <2>1, <2>2
<1>9. \A d \in Documents \ written : shared'[d] = shared[d] /\ said'[d] = said[d]
  BY <1>0, <1>3, <1>4 DEF D!TicketsStand, D!Foreign
<1>10. D!TypeOK'
  <2>1. ticketTask' \in [D!Actors -> D!Task]
    BY <1>0, Returns
  <2>2. stale' \in [Documents -> SUBSET D!Actors] /\ ticketRaced' \subseteq D!Actors
    BY <1>0, OvertakenTypes
  <2>3. shared' \in [Documents -> D!Row \cup {None}]
    <3>1. \A d \in Documents : shared'[d] \in D!Row \cup {None}
      BY <1>2, <1>3, <1>7
    <3>2. shared' = [d \in Documents |-> shared'[d]]
      BY DEF D!Commit
    <3> QED
      BY <3>1, <3>2
  <2>4. said' \in [Documents -> D!Thread]
    <3>1. \A d \in Documents : said'[d] \in D!Thread
      <4>1. \A d \in Documents : said[d] \in D!Thread /\ (d \in sent => items[d] \in D!Thread)
        BY <1>0, <1>1 DEF D!TypeOK
      <4> QED
        BY <1>4, <4>1 DEF D!StillOwed, D!Thread
    <3>2. said' = [d \in Documents |-> said'[d]]
      BY DEF D!Commit
    <3> QED
      BY <3>1, <3>2
  <2>5. owner' \in [Documents -> Workshops \cup {None}]
    <3>1. \A d \in Documents : owner'[d] \in Workshops \cup {None}
      BY <1>0, <1>1, <1>5 DEF D!TypeOK
    <3>2. owner' = [d \in Documents |-> owner'[d]]
      BY DEF D!Commit
    <3> QED
      BY <3>1, <3>2
  <2>6. author' \in [Documents -> Users \cup {None}]
    <3>1. \A d \in Documents : author'[d] \in Users \cup {None}
      BY <1>0, <1>1, <1>6 DEF D!TypeOK
    <3>2. author' = [d \in Documents |-> author'[d]]
      BY DEF D!Commit
    <3> QED
      BY <3>1, <3>2
  <2> QED
    BY <1>0, <2>1, <2>2, <2>3, <2>4, <2>5, <2>6 DEF D!TypeOK
<1>11. D!TicketsStand'
  <2> SUFFICES ASSUME NEW d \in Documents
               PROVE  IF shared'[d] = None THEN said'[d] = {} /\ owner'[d] = None
                      ELSE /\ said'[d] \subseteq shared'[d].thread /\ shared'[d].org = owner'[d]
                           /\ shared'[d].creator = author'[d]
    BY DEF D!TicketsStand
  <2>1. CASE D!Foreign(d, org)
    BY <1>0, <1>3, <1>4, <1>5, <1>6, <2>1 DEF D!TicketsStand
  <2>2. CASE ~D!Foreign(d, org) /\ d \in sent
    <3>1. shared'[d] = new(d) /\ shared'[d] # None
      BY <1>3, <1>7, <2>2
    <3>2. said'[d] \subseteq items[d]
      BY <1>4, <1>8, <2>2
    <3>3. owner'[d] = org
      BY <1>5, <2>2
    <3>4. author'[d] = creator(d)
      BY <1>0, <1>6, <2>2 DEF D!TicketsStand
    <3> QED
      BY <3>1, <3>2, <3>3, <3>4
  <2>3. CASE ~D!Foreign(d, org) /\ d \notin sent
    BY <1>3, <1>4, <1>5, <2>3
  <2> QED
    BY <2>1, <2>2, <2>3
<1>12. ASSUME NEW d \in Documents
       PROVE  Shows(u, d)'
  <2>1. CASE D!Foreign(d, org)
    BY <1>1, <1>3, <2>1 DEF Shows, D!Own, D!Foreign
  <2>2. CASE ~D!Foreign(d, org) /\ d \in sent
    <3>1. said'[d] \subseteq items[d] /\ D!Shown(u, d)' = items[d]
      BY <1>0, <1>1, <1>4, <1>8, <2>2 DEF D!Shown
    <3> QED
      BY <3>1 DEF Shows
  <2>3. CASE ~D!Foreign(d, org) /\ d \notin sent
    BY <1>3, <2>3 DEF Shows, D!Own
  <2> QED
    BY <2>1, <2>2, <2>3
<1> HIDE DEF written
<1>13. written \in SUBSET Documents
  BY DEF written
<1> QED
  BY <1>0, <1>9, <1>10, <1>11, <1>12, <1>13, Overtaken

-----------------------------------------------------------------------------
(* Documents: the theorems.                                                *)

LEMMA TicketsInit == D!SharedDocumentsAssumption /\ D!Init => TicketsInv
<1> SUFFICES ASSUME D!SharedDocumentsAssumption, D!Init
             PROVE  TicketsInv
  OBVIOUS
<1>1. D!NoTask \in D!Task /\ D!NoTask.at = "idle"
  BY DEF D!NoTask, D!Task, D!Thread
<1>2. D!TypeOK
  BY <1>1 DEF D!Init, D!TypeOK, D!Thread, D!SharedDocumentsAssumption
<1>3. D!TicketsStand
  BY DEF D!Init, D!TicketsStand
<1>4. \A a \in D!Actors : ticketTask[a].at = "idle" /\ a \notin ticketRaced
  BY <1>1 DEF D!Init
<1>5. \A a \in D!Actors : Carried(a) /\ Asked(a)
  BY <1>4 DEF Carried, Asked
<1>6. \A u \in Users : Sends(u)
  BY <1>4 DEF Sends, D!Actors
<1>7. \A u \in Users, d \in Documents : Shows(u, d)
  BY DEF D!Init, Shows, D!Own
<1>8. \A g \in Agents : Reads(g)
  BY <1>4 DEF Reads, D!Actors
<1> QED
  BY <1>2, <1>3, <1>5, <1>6, <1>7, <1>8 DEF TicketsInv

LEMMA TicketsStutter ==
  ASSUME TicketsInv, UNCHANGED D!vars
  PROVE  TicketsInv'
<1>1. D!SharedDocumentsAssumption' /\ D!TypeOK' /\ D!TicketsStand'
  BY DEF TicketsInv, D!vars, D!TypeOK, D!TicketsStand, D!SharedDocumentsAssumption
<1>2. \A a \in D!Actors : Carried(a)' /\ Asked(a)'
  BY DEF TicketsInv, D!vars, Carried, Asked
<1>3. \A u \in Users : Sends(u)'
  BY DEF TicketsInv, D!vars, Sends
<1>4. \A u \in Users, d \in Documents : Shows(u, d)'
  BY DEF TicketsInv, D!vars, Shows, D!Own, D!Shown, Dropping
<1>5. \A g \in Agents : Reads(g)'
  BY DEF TicketsInv, D!vars, Reads
<1> QED
  BY <1>1, <1>2, <1>3, <1>4, <1>5 DEF TicketsInv

LEMMA TicketsNext ==
  ASSUME TicketsInv, [D!Next]_(D!vars)
  PROVE  TicketsInv'
<1>1. ASSUME NEW u \in Users,
             D!Load(u) \/ D!Look(u) \/ D!Remove(u) \/ D!CheckForeign(u) \/ D!Commit(u)
      PROVE  TicketsInv'
  BY <1>1, LoadKeeps, LookKeeps, RemoveKeeps, CheckForeignKeeps, CommitKeeps
<1>2. ASSUME NEW u \in Users, NEW sent \in SUBSET Documents, D!PostSnapshot(u, sent)
      PROVE  TicketsInv'
  BY <1>2, PostSnapshotKeeps
<1>3. ASSUME NEW u \in Users, NEW d \in Documents,
             D!Delete(u, d) \/ D!Put(u, d, D!Fresh) \/ D!Put(u, d, None)
      PROVE  TicketsInv'
  BY <1>3, DeleteKeeps, PutKeeps
<1>4. ASSUME NEW g \in Agents, D!ReadAgain(g)
      PROVE  TicketsInv'
  BY <1>4, ReadAgainKeeps
<1>5. ASSUME NEW g \in Agents, NEW d \in Documents,
             D!PatchSupportTicket(g, d) \/ D!ReplySupportTicket(g, d) \/ D!PatchDemoRequest(g, d)
      PROVE  TicketsInv'
  BY <1>5, BeginTaskKeeps DEF D!PatchSupportTicket, D!ReplySupportTicket, D!PatchDemoRequest
<1>6. ASSUME NEW a \in D!Actors, D!CheckOwner(a) \/ D!Write(a)
      PROVE  TicketsInv'
  BY <1>6, CheckOwnerKeeps, WriteKeeps
<1> QED
  BY <1>1, <1>2, <1>3, <1>4, <1>5, <1>6, TicketsStutter DEF D!Next

\* Whatever browsers and agents do, the parts of the invariant hold together.
THEOREM TicketsInvariance == ASSUME D!SharedDocumentsAssumption PROVE D!Spec => []TicketsInv
  BY TicketsInit, TicketsNext, PTL DEF D!Spec

\* The rows, pages and requests keep their types.
THEOREM TicketsTyped == ASSUME D!SharedDocumentsAssumption PROVE D!Spec => []D!TypeOK
<1>1. TicketsInv => D!TypeOK
  BY DEF TicketsInv
<1> QED
  BY <1>1, TicketsInvariance, PTL

\* "Re-read via collection helper so we merge against latest payload": a stored
\* message stays, and a document with its workshop and its creator, but where a
\* request went by an old page.
THEOREM StoredTicketsStand ==
  /\ D!Spec => []D!TicketsStand
  /\ OfficeSpec => []TicketsStand
<1>1. TicketsInv => D!TicketsStand
  BY DEF TicketsInv
<1>2. D!Spec => []TicketsInv
  BY OfficeAssumption, TicketsInvariance, PTL DEF OfficeAssumption
<1>3. D!TicketsStand => TicketsStand
  BY DEF TicketsStand
<1> QED
  BY <1>1, <1>2, <1>3, EachPartRuns, PTL

-----------------------------------------------------------------------------
(* Books: the inductive invariant.                                         *)

\* A move deletes the shared row before it stores the other one, and nothing
\* brings the shared row back.
Moved ==
  /\ scoped # None \/ savesOvertaken # {} => legacy = None
  /\ \A w \in Workers : B!At(w, "store") => legacy = None
  /\ \A w \in Workers : saves[w].dropped => B!At(w, "store")

\* What a save that nothing has overtaken will store: the last items of each
\* list, with those of its form.
Fresh(w) ==
  /\ \A v \in Workers \ {w} : ~saves[v].dropped
  /\ B!At(w, "look") => scoped = None
  /\ ~B!At(w, "look") => saves[w].kept = B!Merge(saves[w].form, last)

\* The vendors without a row are still to be mirrored, or were missed.
Mirrored ==
  \A e \in B!Payload(scoped) \cap Vendors :
    (e \in mirrored \cup missed) \/ \E w \in Workers : B!At(w, "mirror") /\ e \in saves[w].todo

BooksInv ==
  /\ B!BooksAssumption /\ B!TypeOK
  /\ Moved
  /\ \A w \in Workers : B!Writing(w) /\ w \notin savesOvertaken => Fresh(w)
  /\ (\E w \in Workers : saves[w].dropped) \/ B!Visible = last
  /\ Mirrored

-----------------------------------------------------------------------------
(* Books: merging, types, and what a step leaves.                          *)

LEMMA MergeTyped ==
  ASSUME B!BooksAssumption, NEW form \in B!Document, NEW items \in B!Document
  PROVE  B!Merge(form, items) \in B!Document
BY DEF B!Document, B!Merge

\* The lists are apart, so an entry of the one says nothing of the other.
LEMMA MergedIsLast ==
  ASSUME B!BooksAssumption, NEW form \in B!Document, last \in B!Document
  PROVE  B!Merge(form, last) = B!LastSaved(form)
<1>1. ASSUME NEW e \in B!Merge(form, last)
      PROVE  e \in B!LastSaved(form)
  <2>1. PICK L \in Lists : e \in IF form \cap L # {} THEN form \cap L ELSE last \cap L
    BY DEF B!Merge
  <2>2. \A M \in Lists : e \in M => M = L
    BY <2>1 DEF B!BooksAssumption
  <2> QED
    BY <2>1, <2>2 DEF B!LastSaved
<1>2. ASSUME NEW e \in B!LastSaved(form)
      PROVE  e \in B!Merge(form, last)
  <2>1. PICK L \in Lists : e \in L
    BY DEF B!LastSaved, B!Document, B!BooksAssumption
  <2>2. e \in IF form \cap L # {} THEN form \cap L ELSE last \cap L
    BY <2>1 DEF B!LastSaved
  <2> QED
    BY <2>1, <2>2 DEF B!Merge
<1> QED
  BY <1>1, <1>2

LEMMA NoSaveTyped == B!NoSave \in B!Save /\ ~B!NoSave.dropped /\ B!NoSave.at = "idle"
BY DEF B!NoSave, B!Save, B!Document

\* A step that writes no row leaves the saves of the others as they were.
LEMMA OtherSaves ==
  ASSUME BooksInv, NEW w \in Workers, \A v \in Workers \ {w} : saves'[v] = saves[v],
         UNCHANGED <<scoped, last>>, saves'[w].dropped => saves[w].dropped,
         \A v \in Workers \ {w} : v \in savesOvertaken => v \in savesOvertaken'
  PROVE  \A v \in Workers \ {w} : B!Writing(v)' /\ v \notin savesOvertaken' => Fresh(v)'
<1>1. ASSUME NEW v \in Workers \ {w}, B!Writing(v)', v \notin savesOvertaken'
      PROVE  Fresh(v)'
  <2>1. B!Writing(v) /\ v \notin savesOvertaken /\ Fresh(v)
    BY <1>1 DEF BooksInv, B!Writing, B!At
  <2> QED
    BY <2>1 DEF Fresh, B!At
<1> QED
  BY <1>1

\* A step that writes one overtakes them.
LEMMA OthersOvertaken ==
  ASSUME BooksInv, NEW w \in Workers, \A v \in Workers \ {w} : saves'[v] = saves[v], B!Overtakes(w)
  PROVE  \A v \in Workers \ {w} : B!Writing(v)' => v \in savesOvertaken'
BY DEF B!Overtakes, B!Writing, B!At

\* A mirror under way covers the vendors it did, but for those that are done.
LEMMA MirrorsStay ==
  ASSUME BooksInv, NEW w \in Workers, \A v \in Workers \ {w} : saves'[v] = saves[v],
         UNCHANGED scoped, mirrored \subseteq mirrored',
         missed \subseteq missed' \cup mirrored',
         B!At(w, "mirror") => \A e \in saves[w].todo :
             e \in mirrored' \cup missed' \/ (B!At(w, "mirror")' /\ e \in saves'[w].todo)
  PROVE  Mirrored'
BY DEF BooksInv, Mirrored, B!At

LEMMA OneMore ==
  ASSUME BooksInv, B!Request
  PROVE  saveRequests' \in 0..MaxRequests
BY DEF BooksInv, B!BooksAssumption, B!TypeOK, B!Request

-----------------------------------------------------------------------------
(* Books: the steps of a save.                                             *)

LEMMA LoadStep ==
  ASSUME BooksInv, NEW w \in Workers, B!Load(w)
  PROVE  BooksInv'
<1>1. /\ seen' \in [Workers -> SUBSET Entries] /\ saveRequests' \in 0..MaxRequests
      /\ UNCHANGED <<scoped, legacy, mirrored, missed, saves, savesOvertaken, last>>
  <2>1. B!Visible \in SUBSET Entries
    BY DEF BooksInv, B!TypeOK, B!Document, B!Visible, B!Payload
  <2> QED
    BY <2>1, OneMore DEF BooksInv, B!TypeOK, B!Load
<1> QED
  BY <1>1 DEF BooksInv, B!BooksAssumption, B!TypeOK, Moved, B!Writing, Fresh, B!Visible,
             Mirrored, B!At

LEMMA PutDocumentStep ==
  ASSUME BooksInv, NEW w \in Workers, NEW form \in B!Document, B!PutDocument(w, form)
  PROVE  BooksInv'
<1> DEFINE still == B!Merge(form, B!Payload(scoped))
           at == IF scoped # None THEN "find" ELSE "look"
<1>0. B!TypeOK /\ B!BooksAssumption /\ Moved /\ B!At(w, "idle")
  BY DEF BooksInv, B!PutDocument
<1>1. still \in B!Document /\ at \in {"find", "look"}
  BY <1>0, MergeTyped DEF B!TypeOK, B!Payload, B!Document
<1>2. /\ saves' = [saves EXCEPT ![w] = [B!NoSave EXCEPT !.at = at, !.form = form, !.kept = still]]
      /\ seen' = [seen EXCEPT ![w] = @ \cup form]
      /\ savesOvertaken' = IF \E v \in Workers : saves[v].dropped THEN savesOvertaken \cup {w} ELSE savesOvertaken
      /\ UNCHANGED <<scoped, legacy, mirrored, missed, last>>
  BY DEF B!PutDocument
<1>3. saveRequests' \in 0..MaxRequests
  BY OneMore DEF B!PutDocument
<1> HIDE DEF still, at
<1>4. [B!NoSave EXCEPT !.at = at, !.form = form, !.kept = still] \in B!Save
  BY <1>1, NoSaveTyped DEF B!Save
<1>5. /\ saves'[w].at = at /\ saves'[w].form = form /\ saves'[w].kept = still
      /\ ~saves'[w].dropped /\ \A v \in Workers \ {w} : saves'[v] = saves[v]
  BY <1>0, <1>2 DEF B!TypeOK, B!NoSave
<1>6. B!TypeOK'
  <2>1. seen' \in [Workers -> SUBSET Entries]
    BY <1>0, <1>2 DEF B!TypeOK, B!Document
  <2>2. saves' \in [Workers -> B!Save]
    BY <1>0, <1>2, <1>4 DEF B!TypeOK
  <2>3. savesOvertaken' \subseteq {v \in Workers : B!Writing(v)'}
    BY <1>0, <1>1, <1>2, <1>5 DEF B!TypeOK, B!Writing, B!At
  <2> QED
    BY <1>0, <1>2, <1>3, <2>1, <2>2, <2>3 DEF B!TypeOK
<1>7. Moved'
  BY <1>0, <1>1, <1>2, <1>5 DEF Moved, B!At
<1>8. \A v \in Workers : B!Writing(v)' /\ v \notin savesOvertaken' => Fresh(v)'
  <2>1. ASSUME w \notin savesOvertaken'
        PROVE  Fresh(w)'
    <3>1. \A v \in Workers : ~saves[v].dropped
      BY <1>2, <2>1
    <3>2. B!Visible = last
      BY <3>1 DEF BooksInv
    <3>3. scoped # None => still = B!Merge(form, last)
      BY <3>2 DEF still, B!Visible, B!Payload
    <3> QED
      BY <1>2, <1>5, <3>1, <3>3 DEF Fresh, B!At, at
  <2> QED
    BY <1>2, <1>5, <2>1, OtherSaves
<1>9. (\E v \in Workers : saves[v].dropped)' \/ B!Visible' = last'
  BY <1>0, <1>2, <1>5 DEF BooksInv, B!Visible, Moved, B!At
<1>10. Mirrored'
  BY <1>0, <1>2, <1>5, MirrorsStay DEF B!At
<1> QED
  BY <1>0, <1>6, <1>7, <1>8, <1>9, <1>10 DEF BooksInv, B!BooksAssumption

LEMMA LookAtLegacyStep ==
  ASSUME BooksInv, NEW w \in Workers, B!LookAtLegacy(w)
  PROVE  BooksInv'
<1> DEFINE still == B!Merge(saves[w].form, B!Payload(legacy))
<1>0. B!TypeOK /\ B!BooksAssumption /\ Moved /\ B!At(w, "look") /\ saves[w] \in B!Save
  BY DEF BooksInv, B!LookAtLegacy, B!TypeOK
<1>1. still \in B!Document
  BY <1>0, MergeTyped DEF B!TypeOK, B!Payload, B!Document, B!Save
<1>2. /\ saves' = [saves EXCEPT ![w].at = "find", ![w].kept = still]
      /\ UNCHANGED <<scoped, legacy, mirrored, missed, seen, savesOvertaken, last, saveRequests>>
  BY DEF B!LookAtLegacy
<1> HIDE DEF still
<1>3. [saves[w] EXCEPT !.at = "find", !.kept = still] \in B!Save
  BY <1>0, <1>1 DEF B!Save
<1>4. /\ saves'[w].at = "find" /\ saves'[w].form = saves[w].form /\ saves'[w].kept = still
      /\ saves'[w].dropped = saves[w].dropped /\ \A v \in Workers \ {w} : saves'[v] = saves[v]
  BY <1>0, <1>2 DEF B!TypeOK, B!Save
<1>5. B!TypeOK'
  <2>1. saves' \in [Workers -> B!Save]
    BY <1>0, <1>2, <1>3 DEF B!TypeOK
  <2>2. savesOvertaken' \subseteq {v \in Workers : B!Writing(v)'}
    BY <1>0, <1>2, <1>4 DEF B!TypeOK, B!Writing, B!At
  <2> QED
    BY <1>0, <1>2, <2>1, <2>2 DEF B!TypeOK
<1>6. Moved'
  BY <1>0, <1>2, <1>4 DEF Moved, B!At
<1>7. \A v \in Workers : B!Writing(v)' /\ v \notin savesOvertaken' => Fresh(v)'
  <2>1. ASSUME w \notin savesOvertaken'
        PROVE  Fresh(w)'
    <3>1. Fresh(w) /\ ~saves[w].dropped
      BY <1>0, <1>2, <2>1 DEF BooksInv, B!Writing, Moved, B!At
    <3>2. B!Visible = last /\ scoped = None
      BY <1>0, <3>1 DEF BooksInv, Fresh
    <3>3. still = B!Merge(saves[w].form, last)
      BY <3>2 DEF still, B!Visible
    <3> QED
      BY <1>2, <1>4, <3>1, <3>3 DEF Fresh, B!At
  <2> QED
    BY <1>2, <1>4, <2>1, OtherSaves
<1>8. (\E v \in Workers : saves[v].dropped)' \/ B!Visible' = last'
  BY <1>0, <1>2, <1>4 DEF BooksInv, B!Visible, B!Payload, Moved, B!At
<1>9. Mirrored'
  BY <1>0, <1>2, <1>4, MirrorsStay DEF B!At
<1> QED
  BY <1>0, <1>5, <1>6, <1>7, <1>8, <1>9 DEF BooksInv, B!BooksAssumption

LEMMA FindRowStep ==
  ASSUME BooksInv, NEW w \in Workers, B!FindRow(w)
  PROVE  BooksInv'
<1> DEFINE at == IF scoped = None /\ legacy # None THEN "drop" ELSE "store"
<1>0. B!TypeOK /\ B!BooksAssumption /\ Moved /\ B!At(w, "find") /\ saves[w] \in B!Save
  BY DEF BooksInv, B!FindRow, B!TypeOK
<1>1. at \in {"drop", "store"} /\ (at = "store" => legacy = None)
  BY <1>0 DEF Moved
<1>2. /\ saves' = [saves EXCEPT ![w].at = at]
      /\ UNCHANGED <<scoped, legacy, mirrored, missed, seen, savesOvertaken, last, saveRequests>>
  BY DEF B!FindRow
<1> HIDE DEF at
<1>3. [saves[w] EXCEPT !.at = at] \in B!Save
  BY <1>0, <1>1 DEF B!Save
<1>4. /\ saves'[w].at = at /\ saves'[w].form = saves[w].form /\ saves'[w].kept = saves[w].kept
      /\ saves'[w].dropped = saves[w].dropped /\ \A v \in Workers \ {w} : saves'[v] = saves[v]
  BY <1>0, <1>2 DEF B!TypeOK, B!Save
<1>5. B!TypeOK'
  <2>1. saves' \in [Workers -> B!Save]
    BY <1>0, <1>2, <1>3 DEF B!TypeOK
  <2>2. savesOvertaken' \subseteq {v \in Workers : B!Writing(v)'}
    BY <1>0, <1>1, <1>2, <1>4 DEF B!TypeOK, B!Writing, B!At
  <2> QED
    BY <1>0, <1>2, <2>1, <2>2 DEF B!TypeOK
<1>6. Moved'
  BY <1>0, <1>1, <1>2, <1>4 DEF Moved, B!At
<1>7. \A v \in Workers : B!Writing(v)' /\ v \notin savesOvertaken' => Fresh(v)'
  <2>1. ASSUME w \notin savesOvertaken'
        PROVE  Fresh(w)'
    BY <1>0, <1>1, <1>2, <1>4, <2>1 DEF BooksInv, B!Writing, Fresh, B!At
  <2> QED
    BY <1>2, <1>4, <2>1, OtherSaves
<1>8. (\E v \in Workers : saves[v].dropped)' \/ B!Visible' = last'
  BY <1>0, <1>2, <1>4 DEF BooksInv, B!Visible, B!Payload, Moved, B!At
<1>9. Mirrored'
  BY <1>0, <1>2, <1>4, MirrorsStay DEF B!At
<1> QED
  BY <1>0, <1>5, <1>6, <1>7, <1>8, <1>9 DEF BooksInv, B!BooksAssumption

LEMMA DropLegacyStep ==
  ASSUME BooksInv, NEW w \in Workers, B!DropLegacy(w)
  PROVE  BooksInv'
<1>0. B!TypeOK /\ B!BooksAssumption /\ Moved
      /\ B!At(w, "drop") /\ legacy # None /\ saves[w] \in B!Save
  BY DEF BooksInv, B!DropLegacy, B!TypeOK
<1>1. /\ saves' = [saves EXCEPT ![w].at = "store", ![w].dropped = TRUE] /\ legacy' = None
      /\ B!Overtakes(w) /\ UNCHANGED <<scoped, mirrored, missed, seen, last, saveRequests>>
  BY DEF B!DropLegacy
<1>2. [saves[w] EXCEPT !.at = "store", !.dropped = TRUE] \in B!Save
  BY <1>0 DEF B!Save
<1>3. /\ saves'[w].at = "store" /\ saves'[w].form = saves[w].form /\ saves'[w].kept = saves[w].kept
      /\ saves'[w].dropped /\ \A v \in Workers \ {w} : saves'[v] = saves[v]
  BY <1>0, <1>1 DEF B!TypeOK, B!Save
<1>4. B!TypeOK'
  <2>1. saves' \in [Workers -> B!Save]
    BY <1>0, <1>1, <1>2 DEF B!TypeOK
  <2>2. savesOvertaken' \subseteq {v \in Workers : B!Writing(v)'}
    BY <1>0, <1>1, <1>3 DEF B!TypeOK, B!Writing, B!At, B!Overtakes
  <2> QED
    BY <1>0, <1>1, <2>1, <2>2 DEF B!TypeOK
<1>5. Moved'
  BY <1>0, <1>1, <1>3 DEF Moved, B!At
<1>6. \A v \in Workers : B!Writing(v)' /\ v \notin savesOvertaken' => Fresh(v)'
  <2>1. savesOvertaken = {} /\ Fresh(w)
    BY <1>0 DEF BooksInv, Moved, B!Writing, B!At
  <2>2. Fresh(w)'
    BY <1>0, <1>1, <1>3, <2>1 DEF Fresh, B!At
  <2> QED
    BY <1>1, <1>3, <2>2, OthersOvertaken
<1>7. (\E v \in Workers : saves[v].dropped)'
  BY <1>3
<1>8. Mirrored'
  BY <1>0, <1>1, <1>3, MirrorsStay DEF B!At
<1> QED
  BY <1>0, <1>4, <1>5, <1>6, <1>7, <1>8 DEF BooksInv, B!BooksAssumption

\* A save that ends without a word leaves what was stored.
LEMMA SaveEnds ==
  ASSUME BooksInv, NEW w \in Workers, B!Return(w), savesOvertaken' = savesOvertaken \ {w},
         UNCHANGED <<scoped, legacy, seen>>, saveRequests' \in 0..MaxRequests,
         last' = IF saves[w].dropped THEN B!Visible ELSE last,
         mirrored \subseteq mirrored', mirrored' \subseteq Vendors,
         missed \subseteq missed' \cup mirrored', missed' \subseteq Vendors,
         B!At(w, "mirror") => saves[w].todo \subseteq mirrored' \cup missed'
  PROVE  BooksInv'
<1>0. B!TypeOK /\ B!BooksAssumption /\ Moved
  BY DEF BooksInv
<1>1. saves' = [saves EXCEPT ![w] = B!NoSave]
  BY DEF B!Return
<1>2. saves'[w] = B!NoSave /\ \A v \in Workers \ {w} : saves'[v] = saves[v]
  BY <1>0, <1>1 DEF B!TypeOK
<1>3. B!TypeOK'
  <2>1. saves' \in [Workers -> B!Save]
    BY <1>0, <1>1, NoSaveTyped DEF B!TypeOK
  <2>2. savesOvertaken' \subseteq {v \in Workers : B!Writing(v)'}
    BY <1>0, <1>2 DEF B!TypeOK, B!Writing, B!At
  <2>3. last' \in B!Document
    BY <1>0 DEF B!TypeOK, B!Visible, B!Payload, B!Document
  <2> QED
    BY <1>0, <2>1, <2>2, <2>3 DEF B!TypeOK
<1>4. Moved'
  BY <1>0, <1>2, NoSaveTyped DEF Moved, B!At
<1>5. ~B!Writing(w)'
  BY <1>2, NoSaveTyped DEF B!Writing, B!At
<1>6. \A v \in Workers : B!Writing(v)' /\ v \notin savesOvertaken' => Fresh(v)'
  <2>1. CASE saves[w].dropped
    <3>1. ASSUME NEW v \in Workers \ {w}, B!Writing(v)', v \notin savesOvertaken'
          PROVE  FALSE
      <4>1. B!Writing(v) /\ v \notin savesOvertaken
        BY <1>2, <3>1 DEF B!Writing, B!At
      <4> QED
        BY <2>1, <4>1 DEF BooksInv, Fresh
    <3> QED
      BY <1>5, <3>1
  <2>2. CASE ~saves[w].dropped
    BY <1>2, <1>5, <2>2, OtherSaves, NoSaveTyped
  <2> QED
    BY <2>1, <2>2
<1>7. (\E v \in Workers : saves[v].dropped)' \/ B!Visible' = last'
  <2>1. CASE saves[w].dropped
    BY <2>1 DEF B!Visible, B!Payload
  <2>2. CASE ~saves[w].dropped
    BY <1>2, <2>2 DEF BooksInv, B!Visible, B!Payload
  <2> QED
    BY <2>1, <2>2
<1>8. Mirrored'
  <2>1. B!At(w, "mirror") => \A e \in saves[w].todo : e \in mirrored' \cup missed'
    OBVIOUS
  <2> QED
    BY <1>2, <2>1, MirrorsStay
<1> QED
  BY <1>0, <1>3, <1>4, <1>6, <1>7, <1>8 DEF BooksInv, B!BooksAssumption

LEMMA StoreBooksStep ==
  ASSUME BooksInv, NEW w \in Workers, B!StoreDocument(w)
  PROVE  BooksInv'
<1> DEFINE still == saves[w].kept
           next == [B!NoSave EXCEPT !.todo = still \cap Vendors,
                                    !.at = IF still \cap Vendors = {} THEN "idle" ELSE "mirror"]
<1>0. B!TypeOK /\ B!BooksAssumption /\ Moved /\ B!At(w, "store") /\ saves[w] \in B!Save
  BY DEF BooksInv, B!StoreDocument, B!TypeOK
<1>1. /\ scoped' = still /\ saves' = [saves EXCEPT ![w] = next] /\ B!Overtakes(w)
      /\ last' = IF w \in savesOvertaken THEN still ELSE B!LastSaved(saves[w].form)
      /\ UNCHANGED <<legacy, mirrored, missed, seen, saveRequests>>
  BY DEF B!StoreDocument
<1>2. next \in B!Save /\ still \in B!Document /\ still # None /\ saves[w].form \in B!Document
  BY <1>0 DEF B!NoSave, B!Save, B!Document, B!BooksAssumption
<1>3. last' = still
  <2>1. CASE w \in savesOvertaken
    BY <1>1, <2>1
  <2>2. CASE w \notin savesOvertaken
    <3>1. still = B!Merge(saves[w].form, last)
      BY <1>0, <2>2 DEF BooksInv, Fresh, B!Writing, B!At
    <3> QED
      BY <1>0, <1>1, <1>2, <2>2, <3>1, MergedIsLast DEF B!TypeOK
  <2> QED
    BY <2>1, <2>2
<1>4. /\ saves'[w] = next /\ next.at \in {"idle", "mirror"} /\ ~next.dropped
      /\ next.todo = still \cap Vendors
      /\ still \cap Vendors # {} => next.at = "mirror"
      /\ \A v \in Workers \ {w} : saves'[v] = saves[v]
  BY <1>0, <1>1 DEF B!TypeOK, B!NoSave
<1> HIDE DEF next
<1>5. B!TypeOK'
  <2>1. saves' \in [Workers -> B!Save]
    BY <1>0, <1>1, <1>2 DEF B!TypeOK
  <2>2. savesOvertaken' \subseteq {v \in Workers : B!Writing(v)'}
    BY <1>0, <1>1, <1>4 DEF B!TypeOK, B!Writing, B!At, B!Overtakes
  <2> QED
    BY <1>0, <1>1, <1>2, <1>3, <2>1, <2>2 DEF B!TypeOK
<1>6. Moved'
  BY <1>0, <1>1, <1>4 DEF Moved, B!At
<1>7. \A v \in Workers : B!Writing(v)' /\ v \notin savesOvertaken' => Fresh(v)'
  BY <1>1, <1>4, OthersOvertaken DEF B!Writing, B!At
<1>8. B!Visible' = last'
  BY <1>1, <1>2, <1>3 DEF B!Visible
<1>9. Mirrored'
  BY <1>1, <1>2, <1>4 DEF Mirrored, B!Payload, B!At
<1> QED
  BY <1>0, <1>5, <1>6, <1>7, <1>8, <1>9 DEF BooksInv, B!BooksAssumption

-----------------------------------------------------------------------------
(* Books: the mirror.                                                      *)

LEMMA MirrorOneStep ==
  ASSUME BooksInv, NEW w \in Workers, NEW e \in Vendors, B!MirrorOne(w, e)
  PROVE  BooksInv'
<1>0. B!TypeOK /\ B!BooksAssumption /\ Moved
      /\ B!At(w, "mirror") /\ saves[w] \in B!Save /\ ~saves[w].dropped
  BY DEF BooksInv, B!MirrorOne, B!TypeOK, Moved, B!At
<1>1. /\ mirrored' = mirrored \cup {e} /\ missed' = missed \ {e}
      /\ UNCHANGED <<scoped, legacy, seen, savesOvertaken, last, saveRequests>>
  BY DEF B!MirrorOne
<1>2. CASE saves[w].todo = {e} /\ B!Return(w)
  <2>1. savesOvertaken' = savesOvertaken \ {w}
    BY <1>0, <1>1 DEF B!TypeOK, B!Writing, B!At
  <2> QED
    BY <1>0, <1>1, <1>2, <2>1, SaveEnds DEF B!TypeOK
<1>3. CASE saves[w].todo # {e} /\ saves' = [saves EXCEPT ![w].todo = @ \ {e}]
  <2>1. [saves[w] EXCEPT !.todo = @ \ {e}] \in B!Save
    BY <1>0 DEF B!Save
  <2>2. /\ saves'[w].at = "mirror" /\ saves'[w].todo = saves[w].todo \ {e}
        /\ ~saves'[w].dropped /\ \A v \in Workers \ {w} : saves'[v] = saves[v]
    BY <1>0, <1>3 DEF B!TypeOK, B!At, B!Save
  <2>3. B!TypeOK'
    <3>1. saves' \in [Workers -> B!Save]
      BY <1>0, <1>3, <2>1 DEF B!TypeOK
    <3>2. savesOvertaken' \subseteq {v \in Workers : B!Writing(v)'}
      BY <1>0, <1>1, <2>2 DEF B!TypeOK, B!Writing, B!At
    <3> QED
      BY <1>0, <1>1, <3>1, <3>2 DEF B!TypeOK
  <2>4. Moved'
    BY <1>0, <1>1, <2>2 DEF Moved, B!At
  <2>5. \A v \in Workers : B!Writing(v)' /\ v \notin savesOvertaken' => Fresh(v)'
    BY <1>1, <2>2, OtherSaves DEF B!Writing, B!At
  <2>6. (\E v \in Workers : saves[v].dropped)' \/ B!Visible' = last'
    BY <1>0, <1>1, <2>2 DEF BooksInv, B!Visible, B!Payload
  <2>7. Mirrored'
    <3>1. \A d \in saves[w].todo : d \in mirrored' \/ (B!At(w, "mirror")' /\ d \in saves'[w].todo)
      BY <1>1, <2>2 DEF B!At
    <3> QED
      BY <1>1, <2>2, <3>1, MirrorsStay
  <2> QED
    BY <1>0, <2>3, <2>4, <2>5, <2>6, <2>7 DEF BooksInv, B!BooksAssumption
<1> QED
  BY <1>2, <1>3 DEF B!MirrorOne

-----------------------------------------------------------------------------
(* Books: every step, and the theorems.                                    *)

LEMMA BooksInit ==
  ASSUME B!BooksAssumption, B!Init
  PROVE  BooksInv
<1>1. B!TypeOK
  BY NoSaveTyped DEF B!BooksAssumption, B!Init, B!TypeOK, B!Payload, B!Document
<1>2. \A w \in Workers : ~saves[w].dropped /\ B!At(w, "idle")
  BY NoSaveTyped DEF B!Init, B!At
<1> QED
  BY <1>1, <1>2 DEF BooksInv, B!Init, Moved, B!Writing, B!Visible, B!Payload, Mirrored, B!At

LEMMA BooksNext ==
  ASSUME BooksInv, [B!Next]_(B!vars)
  PROVE  BooksInv'
<1>1. ASSUME NEW w \in Workers, B!DropTwice(w) PROVE BooksInv'
  <2>1. ~saves[w].dropped /\ saveRequests' \in 0..MaxRequests
    BY <1>1 DEF BooksInv, Moved, B!At, B!DropTwice, B!TypeOK
  <2> QED
    BY <1>1, <2>1, SaveEnds DEF BooksInv, B!TypeOK, B!DropTwice, B!At
<1>2. ASSUME NEW w \in Workers, B!Fail(w) PROVE BooksInv'
  <2>1. saveRequests' \in 0..MaxRequests
    BY <1>2, OneMore DEF B!Fail
  <2> QED
    BY <1>2, <2>1, SaveEnds DEF BooksInv, B!TypeOK, B!Fail, B!Writing, B!At
<1>3. ASSUME NEW w \in Workers, B!MirrorFails(w) PROVE BooksInv'
  <2>1. saves[w] \in B!Save /\ ~saves[w].dropped /\ savesOvertaken' = savesOvertaken \ {w}
    BY <1>3 DEF BooksInv, B!TypeOK, Moved, B!MirrorFails, B!Writing, B!At
  <2>2. saveRequests' \in 0..MaxRequests
    BY <1>3, OneMore DEF B!MirrorFails
  <2> QED
    BY <1>3, <2>1, <2>2, SaveEnds DEF BooksInv, B!TypeOK, B!MirrorFails, B!Save
<1>4. ASSUME UNCHANGED B!vars PROVE BooksInv'
  BY <1>4 DEF B!vars, BooksInv, B!BooksAssumption, B!TypeOK, Moved, B!Writing, Fresh, B!Visible,
             B!Payload,
     Mirrored, B!At
<1> QED
  BY <1>1, <1>2, <1>3, <1>4, LoadStep, PutDocumentStep, LookAtLegacyStep, FindRowStep,
     DropLegacyStep, StoreBooksStep, MirrorOneStep DEF B!Next

\* What is stored, and what the saves under way will store, are the last items.
THEOREM BooksInvariance ==
  ASSUME B!BooksAssumption
  PROVE  B!Spec => []BooksInv
BY BooksInit, BooksNext, PTL DEF B!Spec

\* The documents, saves and mirrors keep their types.
THEOREM BooksTyped ==
  ASSUME B!BooksAssumption
  PROVE  B!Spec => []B!TypeOK
<1>1. BooksInv => B!TypeOK
  BY DEF BooksInv
<1> QED
  BY <1>1, BooksInvariance, PTL

\* The book shows the last items that were saved of each list, and its vendors
\* are mirrored or missed (upsertCashBank, upsertExpenseMeta).
THEOREM BooksAreKept ==
  /\ B!Spec => []B!BooksKept
  /\ OfficeSpec => []BooksKept
<1>1. BooksInv => B!BooksKept
  BY DEF BooksInv, B!BooksKept, Mirrored
<1>2. B!Spec => []BooksInv
  BY OfficeAssumption, BooksInvariance, PTL DEF OfficeAssumption
<1>3. B!BooksKept => BooksKept
  BY DEF BooksKept
<1> QED
  BY <1>1, <1>2, <1>3, EachPartRuns, PTL

-----------------------------------------------------------------------------
(* Plans: the inductive invariant.                                         *)

\* What a request carries and has read.
Carries(t) ==
  /\ P!At(t, "count") => planTask[t].call = "delete"
  /\ P!At(t, "read") => planTask[t].call # "resave"
  /\ ~P!At(t, "idle") /\ planTask[t].call # "put" => planTask[t].code \in Codes
  /\ ~P!At(t, "idle") /\ planTask[t].call = "put" /\ planTask[t].code = None => planTask[t].multiplier = None
  /\ ~P!At(t, "idle") /\ planTask[t].call = "create" => planTask[t].plan # None
  /\ ~P!At(t, "idle") /\ planTask[t].call \in {"sell", "resave"} =>
       planTask[t].organization \in Organizations
  /\ planTask[t].at \in {"count", "write"} /\ planTask[t].call # "resave" => planTask[t].seen \in P!Payload
  /\ planTask[t].at \in {"count", "write"} /\ planTask[t].call \in {"update", "delete", "sell"} =>
       planTask[t].code \in P!Offered(planTask[t].seen)
  /\ P!At(t, "write") /\ planTask[t].call = "delete" => P!Offered(planTask[t].seen) # {planTask[t].code}

\* A request that nothing has overtaken goes by what is stored.
Current(t) ==
  /\ planTask[t].call # "resave" => planTask[t].seen = payload
  /\ P!At(t, "write") /\ planTask[t].call = "delete" => ~P!InUse(planTask[t].code)
  /\ planTask[t].call = "resave" => sold[planTask[t].organization] = planTask[t].code

PlansInv ==
  /\ P!PlanCatalogAssumption /\ P!TypeOK
  /\ \A t \in Workers : Carries(t)
  /\ \A t \in Workers \ planOvertaken : planTask[t].at \in {"count", "write"} => Current(t)
  /\ P!Missing \subseteq waived

-----------------------------------------------------------------------------
(* Plans: payloads.                                                        *)

\* The plans and overrides of the model are ones.
LEMMA PlanTyped ==
  ASSUME NEW limit \in 1..2, NEW visible \in BOOLEAN
  PROVE  [limit |-> limit, visible |-> visible] \in P!Plan
BY Zenon DEF P!Plan

LEMMA NewPlansTyped ==
  /\ P!NewPlan \in P!Plan /\ P!DefaultPlan \in P!Plan
  /\ [P!NewPlan EXCEPT !.visible = FALSE] \in P!Plan
<1>1. 1 \in 1..2 /\ 2 \in 1..2
  OBVIOUS
<1>2. P!NewPlan \in P!Plan /\ P!DefaultPlan \in P!Plan
  BY <1>1, PlanTyped, Zenon DEF P!NewPlan, P!DefaultPlan
<1> QED
  BY <1>2 DEF P!Plan

LEMMA OverridesTyped ==
  /\ P!NoOverride \in P!Override
  /\ [P!NoOverride EXCEPT !.limit = 1] \in P!Override
  /\ [P!NoOverride EXCEPT !.visible = FALSE] \in P!Override
<1>1. P!NoOverride \in P!Override
  BY Zenon DEF P!NoOverride, P!Override
<1> QED
  BY <1>1 DEF P!Override

LEMMA OverriddenTyped ==
  ASSUME NEW plan \in P!Plan, NEW o \in P!Override
  PROVE  P!Overridden(plan, o) \in P!Plan
<1>1. /\ plan.limit \in 1..2 /\ plan.visible \in BOOLEAN
      /\ o.limit \in {None, 1, 2} /\ o.visible \in {None, TRUE, FALSE}
  BY DEF P!Plan, P!Override
<1>2. (IF o.limit = None THEN plan.limit ELSE o.limit) \in 1..2
  BY <1>1
<1>3. (IF o.visible = None THEN plan.visible ELSE o.visible) \in BOOLEAN
  BY <1>1, Zenon
<1> QED
  BY <1>2, <1>3 DEF P!Overridden, P!Plan

\* There is a plan always: an empty list reads as the built-in plans.
LEMMA ParsedTyped ==
  ASSUME P!PlanCatalogAssumption, NEW p \in P!Payload
  PROVE  /\ P!parsePlanCatalog(p) \in P!Catalog
         /\ \E c \in Codes : P!parsePlanCatalog(p)[c] # None
<1>1. P!DEFAULT_PLAN_CATALOG \in P!Catalog /\ \E c \in Codes : P!DEFAULT_PLAN_CATALOG[c] # None
  <2>1. P!DefaultPlan \in P!Plan
    BY DEF P!DefaultPlan, P!Plan
  <2>2. P!DefaultPlan # None
    BY <2>1 DEF P!PlanCatalogAssumption
  <2> QED
    BY <2>1, <2>2 DEF P!PlanCatalogAssumption, P!DEFAULT_PLAN_CATALOG, P!Catalog
<1>2. CASE p.catalog = None \/ p.catalog = [c \in Codes |-> None]
  BY <1>1, <1>2 DEF P!parsePlanCatalog
<1>3. CASE p.catalog # None /\ p.catalog # [c \in Codes |-> None]
  <2>1. p.catalog \in P!Catalog
    BY <1>3 DEF P!Payload
  <2>2. \E c \in Codes : p.catalog[c] # None
    BY <1>3, <2>1 DEF P!Catalog
  <2> QED
    BY <1>3, <2>1, <2>2 DEF P!parsePlanCatalog
<1> QED
  BY <1>2, <1>3

LEMMA ResolvedTyped ==
  ASSUME P!PlanCatalogAssumption, NEW catalog \in P!Catalog, NEW overrides \in [Codes -> P!Override]
  PROVE  /\ P!Resolved(catalog, overrides) \in P!Catalog
         /\ \A c \in Codes : catalog[c] # None => P!Resolved(catalog, overrides)[c] # None
<1>1. P!NewPlan \in P!Plan
  BY DEF P!NewPlan, P!Plan
<1>2. ASSUME NEW c \in Codes
      PROVE  /\ P!Resolved(catalog, overrides)[c] \in P!Plan \cup {None}
             /\ catalog[c] # None => P!Resolved(catalog, overrides)[c] # None
  <2>1. CASE overrides[c] = P!NoOverride
    BY <2>1 DEF P!Resolved, P!Catalog
  <2>2. CASE overrides[c] # P!NoOverride
    <3>1. PICK plan \in P!Plan :
            P!Resolved(catalog, overrides)[c] = P!Overridden(plan, overrides[c])
      BY <1>1, <2>2 DEF P!Resolved, P!Catalog
    <3>2. P!Overridden(plan, overrides[c]) \in P!Plan
      BY OverriddenTyped
    <3> QED
      BY <3>1, <3>2 DEF P!PlanCatalogAssumption
  <2> QED
    BY <2>1, <2>2
<1> QED
  BY <1>2 DEF P!Resolved, P!Catalog

LEMMA PlansTyped ==
  ASSUME P!PlanCatalogAssumption, NEW p \in P!Payload
  PROVE  /\ P!resolvePlanCatalog(p) \in P!Catalog
         /\ \E c \in Codes : P!resolvePlanCatalog(p)[c] # None
<1>1. p.overrides \in [Codes -> P!Override]
  BY DEF P!Payload
<1> QED
  BY <1>1, ParsedTyped, ResolvedTyped DEF P!resolvePlanCatalog

\* A catalog that was written in full is read back as it is.
LEMMA ReadsBack ==
  ASSUME P!PlanCatalogAssumption, NEW p, NEW multipliers, NEW catalog \in P!Catalog,
         \E c \in Codes : catalog[c] # None
  PROVE  P!resolvePlanCatalog(P!Written(p, catalog, multipliers)) = catalog
<1> DEFINE q == P!Written(p, catalog, multipliers)
<1>1. q.catalog = catalog /\ q.overrides = P!NoOverrides
  BY DEF P!Written
<1>2. catalog # None /\ catalog # [c \in Codes |-> None]
  BY DEF P!PlanCatalogAssumption
<1>3. P!parsePlanCatalog(q) = catalog
  BY <1>1, <1>2 DEF P!parsePlanCatalog
<1>4. P!Resolved(catalog, P!NoOverrides) = catalog
  BY DEF P!Resolved, P!NoOverrides, P!Catalog
<1> QED
  BY <1>1, <1>3, <1>4 DEF P!resolvePlanCatalog

LEMMA WrittenTyped ==
  ASSUME P!PlanCatalogAssumption, NEW p,
         NEW catalog \in P!Catalog, NEW multipliers \in P!Multipliers
  PROVE  P!Written(p, catalog, multipliers) \in P!Payload
BY DEF P!Written, P!Payload, P!NoOverrides, P!NoOverride, P!Override

LEMMA UnchangedByNothing ==
  ASSUME NEW catalog \in P!Catalog
  PROVE  P!Resolved(catalog, P!NoOverrides) = catalog
BY DEF P!Resolved, P!NoOverrides, P!Catalog

-----------------------------------------------------------------------------
(* Plans: what each request makes of a payload.                            *)

LEMMA Created ==
  ASSUME P!PlanCatalogAssumption, NEW p \in P!Payload, NEW c \in Codes, NEW plan \in P!Plan,
         NEW m \in {None, 1, 2}
  PROVE  /\ P!createPlatformPlan(p, c, plan, m) \in P!Payload
         /\ P!resolvePlanCatalog(P!createPlatformPlan(p, c, plan, m)) =
              [P!resolvePlanCatalog(p) EXCEPT ![c] = plan]
<1> DEFINE after == [P!resolvePlanCatalog(p) EXCEPT ![c] = plan]
<1>1. after \in P!Catalog /\ after[c] # None
  BY PlansTyped DEF P!Catalog, P!PlanCatalogAssumption
<1>2. [p.multipliers EXCEPT ![c] = IF m = None THEN 1 ELSE m] \in P!Multipliers
  BY DEF P!Payload, P!Multipliers
<1> DEFINE multipliers == [p.multipliers EXCEPT ![c] = IF m = None THEN 1 ELSE m]
<1>3. P!createPlatformPlan(p, c, plan, m) = P!Written(p, after, multipliers)
  BY DEF P!createPlatformPlan
<1>4. \E d \in Codes : after[d] # None
  BY <1>1, <1>2
<1> HIDE DEF after, multipliers
<1>5. /\ P!Written(p, after, multipliers) \in P!Payload
       /\ P!resolvePlanCatalog(P!Written(p, after, multipliers)) = after
  BY <1>1, <1>2, <1>4, ReadsBack, WrittenTyped DEF multipliers
<1> QED
  BY <1>3, <1>5 DEF after

LEMMA Updated ==
  ASSUME P!PlanCatalogAssumption, NEW p \in P!Payload, NEW c \in P!Offered(p), NEW o \in P!Override,
         NEW m \in {None, 1, 2}
  PROVE  /\ P!updatePlatformPlan(p, c, o, m) \in P!Payload
         /\ P!resolvePlanCatalog(P!updatePlatformPlan(p, c, o, m)) =
              [P!resolvePlanCatalog(p) EXCEPT ![c] = P!Overridden(@, o)]
<1> DEFINE after == [P!resolvePlanCatalog(p) EXCEPT ![c] = P!Overridden(@, o)]
<1>0. c \in Codes /\ P!resolvePlanCatalog(p)[c] \in P!Plan /\ p.multipliers \in P!Multipliers
  BY PlansTyped DEF P!Offered, P!Catalog, P!Payload
<1>1. after \in P!Catalog /\ after[c] # None
  BY <1>0, PlansTyped, OverriddenTyped DEF P!Catalog, P!PlanCatalogAssumption
<1>2. P!Set(p.multipliers, c, m) \in P!Multipliers
  BY <1>0 DEF P!Set, P!Multipliers
<1> DEFINE multipliers == P!Set(p.multipliers, c, m)
<1>3. P!updatePlatformPlan(p, c, o, m) = P!Written(p, after, multipliers)
  BY DEF P!updatePlatformPlan
<1>4. \E d \in Codes : after[d] # None
  BY <1>0, <1>1, <1>2
<1> HIDE DEF after, multipliers
<1>5. /\ P!Written(p, after, multipliers) \in P!Payload
       /\ P!resolvePlanCatalog(P!Written(p, after, multipliers)) = after
  BY <1>0, <1>1, <1>2, <1>4, ReadsBack, WrittenTyped DEF multipliers
<1> QED
  BY <1>3, <1>5 DEF after

LEMMA Deleted ==
  ASSUME P!PlanCatalogAssumption, NEW p \in P!Payload, NEW c \in P!Offered(p), P!Offered(p) # {c}
  PROVE  /\ P!deletePlatformPlan(p, c) \in P!Payload
         /\ P!resolvePlanCatalog(P!deletePlatformPlan(p, c)) =
              [P!resolvePlanCatalog(p) EXCEPT ![c] = None]
<1> DEFINE after == [P!resolvePlanCatalog(p) EXCEPT ![c] = None]
<1>0. c \in Codes /\ p.multipliers \in P!Multipliers
  BY DEF P!Offered, P!Payload
<1>1. PICK d \in P!Offered(p) : d # c
  OBVIOUS
<1>2. after \in P!Catalog /\ d \in Codes /\ after[d] # None
  BY <1>0, <1>1, PlansTyped DEF P!Catalog, P!Offered
<1>3. [p.multipliers EXCEPT ![c] = None] \in P!Multipliers
  BY <1>0 DEF P!Multipliers
<1> DEFINE multipliers == [p.multipliers EXCEPT ![c] = None]
<1>4. P!deletePlatformPlan(p, c) = P!Written(p, after, multipliers)
  BY DEF P!deletePlatformPlan
<1>5. \E e \in Codes : after[e] # None
  BY <1>0, <1>2, <1>3
<1> HIDE DEF after, multipliers
<1>6. /\ P!Written(p, after, multipliers) \in P!Payload
       /\ P!resolvePlanCatalog(P!Written(p, after, multipliers)) = after
  BY <1>0, <1>2, <1>3, <1>5, ReadsBack, WrittenTyped DEF multipliers
<1> QED
  BY <1>4, <1>6 DEF after

LEMMA Resaved ==
  ASSUME P!PlanCatalogAssumption, NEW p \in P!Payload, NEW overrides \in [Codes -> P!Override],
         NEW c, NEW m \in {None, 1, 2}, c \in Codes \/ m = None
  PROVE  /\ P!updatePlatformSettings(p, overrides, c, m) \in P!Payload
         /\ P!resolvePlanCatalog(P!updatePlatformSettings(p, overrides, c, m)) =
              P!Resolved(P!resolvePlanCatalog(p), overrides)
<1> DEFINE after == P!Resolved(P!resolvePlanCatalog(p), overrides)
<1>1. after \in P!Catalog /\ \E d \in Codes : after[d] # None
  BY PlansTyped, ResolvedTyped
<1>2. P!Set(p.multipliers, c, m) \in P!Multipliers
  BY DEF P!Set, P!Multipliers, P!Payload
<1> HIDE DEF after
<1> QED
  BY <1>1, <1>2, ReadsBack, WrittenTyped DEF P!updatePlatformSettings, after

\* What a request writes: nothing is taken off but the plan it deletes.
LEMMA Writes ==
  ASSUME PlansInv, NEW t \in Workers, P!At(t, "write"),
         planTask[t].call \in {"create", "update", "delete", "put"}
  PROVE  /\ P!NewPayload(t) \in P!Payload
         /\ \A c \in P!Offered(planTask[t].seen) :
              c \in P!Offered(P!NewPayload(t)) \/ (planTask[t].call = "delete" /\ c = planTask[t].code)
<1> DEFINE p == planTask[t].seen
           plans == P!resolvePlanCatalog(p)
<1>0. /\ P!PlanCatalogAssumption /\ planTask[t] \in P!Task /\ Carries(t) /\ p \in P!Payload
      /\ plans \in P!Catalog
  BY PlansTyped DEF PlansInv, P!TypeOK, Carries, P!At
<1>1. CASE planTask[t].call = "create"
  <2>1. /\ planTask[t].code \in Codes /\ planTask[t].plan \in P!Plan /\ planTask[t].multiplier \in {None, 1, 2}
        /\ P!NewPayload(t) = P!createPlatformPlan(p, planTask[t].code, planTask[t].plan, planTask[t].multiplier)
    BY <1>0, <1>1 DEF Carries, P!At, P!Task, P!NewPayload
  <2>2. /\ P!NewPayload(t) \in P!Payload
        /\ P!resolvePlanCatalog(P!NewPayload(t)) = [plans EXCEPT ![planTask[t].code] = planTask[t].plan]
    BY <1>0, <2>1, Created
  <2>3. planTask[t].plan # None
    BY <1>0, <2>1 DEF P!PlanCatalogAssumption
  <2> QED
    BY <1>0, <2>1, <2>2, <2>3 DEF P!Offered, P!Catalog
<1>2. CASE planTask[t].call = "update"
  <2>1. /\ planTask[t].code \in P!Offered(p) /\ planTask[t].override \in P!Override
        /\ planTask[t].multiplier \in {None, 1, 2}
        /\ P!NewPayload(t) =
             P!updatePlatformPlan(p, planTask[t].code, planTask[t].override, planTask[t].multiplier)
    BY <1>0, <1>2 DEF Carries, P!At, P!Task, P!NewPayload
  <2>2. /\ P!NewPayload(t) \in P!Payload
        /\ P!resolvePlanCatalog(P!NewPayload(t)) =
             [plans EXCEPT ![planTask[t].code] = P!Overridden(@, planTask[t].override)]
    BY <1>0, <2>1, Updated
  <2>3. P!Overridden(plans[planTask[t].code], planTask[t].override) # None
    BY <1>0, <2>1, OverriddenTyped DEF P!PlanCatalogAssumption, P!Offered, P!Catalog
  <2> QED
    BY <1>0, <2>1, <2>2, <2>3 DEF P!Offered, P!Catalog
<1>3. CASE planTask[t].call = "delete"
  <2>1. /\ planTask[t].code \in P!Offered(p) /\ P!Offered(p) # {planTask[t].code}
        /\ P!NewPayload(t) = P!deletePlatformPlan(p, planTask[t].code)
    BY <1>0, <1>3 DEF Carries, P!At, P!NewPayload
  <2>2. /\ P!NewPayload(t) \in P!Payload
        /\ P!resolvePlanCatalog(P!NewPayload(t)) = [plans EXCEPT ![planTask[t].code] = None]
    BY <1>0, <2>1, Deleted
  <2> QED
    BY <1>0, <1>3, <2>1, <2>2 DEF P!Offered, P!Catalog
<1>4. CASE planTask[t].call = "put"
  <2> DEFINE overrides ==
             [c \in Codes |-> IF c = planTask[t].code THEN planTask[t].override ELSE P!NoOverride]
  <2>1. /\ overrides \in [Codes -> P!Override] /\ planTask[t].multiplier \in {None, 1, 2}
        /\ planTask[t].code \in Codes \/ planTask[t].multiplier = None
        /\ P!NewPayload(t) =
             P!updatePlatformSettings(p, overrides, planTask[t].code, planTask[t].multiplier)
    BY <1>0, <1>4 DEF Carries, P!At, P!Task, P!NewPayload, P!NoOverride, P!Override
  <2> HIDE DEF overrides
  <2>2. /\ P!NewPayload(t) \in P!Payload
        /\ P!resolvePlanCatalog(P!NewPayload(t)) = P!Resolved(plans, overrides)
    BY <1>0, <2>1, Resaved
  <2>3. \A c \in Codes : plans[c] # None => P!Resolved(plans, overrides)[c] # None
    BY <1>0, <2>1, ResolvedTyped
  <2> QED
    BY <1>0, <2>2, <2>3 DEF P!Offered
<1> QED
  BY <1>1, <1>2, <1>3, <1>4

\* The algebra of ChangesStand: of every payload, whatever its format.
LEMMA EveryChangeStands ==
  ASSUME P!PlanCatalogAssumption, payload \in P!Payload, P!Missing \subseteq waived
  PROVE  P!ChangesStand
<1> DEFINE plans == P!resolvePlanCatalog(payload)
<1>0. plans \in P!Catalog /\ P!Offered(payload) \subseteq Codes
      /\ payload.multipliers \in P!Multipliers
  BY PlansTyped DEF P!Offered, P!Payload
<1>1. P!resolvePlanCatalog(P!updatePlatformSettings(payload, P!NoOverrides, None, None)) = plans
  <2>1. P!NoOverrides \in [Codes -> P!Override] /\ None \in {None, 1, 2}
    BY DEF P!NoOverrides, P!NoOverride, P!Override
  <2>2. P!Resolved(plans, P!NoOverrides) = plans
    BY <1>0, UnchangedByNothing
  <2> QED
    BY <2>1, <2>2, Resaved
<1>2. ASSUME NEW c \in P!Offered(payload), P!Offered(payload) # {c}
      PROVE  P!resolvePlanCatalog(P!deletePlatformPlan(payload, c)) = [plans EXCEPT ![c] = None]
  BY <1>2, Deleted
<1>3. ASSUME NEW c \in P!Offered(payload), NEW o \in P!Override
      PROVE  /\ P!resolvePlanCatalog(P!updatePlatformPlan(payload, c, o, 2)) =
                  [plans EXCEPT ![c] = P!Overridden(@, o)]
             /\ \A d \in Codes : P!Multiplier(P!updatePlatformPlan(payload, c, o, 2), d) =
                  IF d = c THEN 2 ELSE P!Multiplier(payload, d)
  <2>1. P!updatePlatformPlan(payload, c, o, 2).multipliers = [payload.multipliers EXCEPT ![c] = 2]
    BY DEF P!updatePlatformPlan, P!Written, P!Set, P!PlanCatalogAssumption
  <2>2. \A d \in Codes : P!Multiplier(P!updatePlatformPlan(payload, c, o, 2), d) =
          IF d = c THEN 2 ELSE P!Multiplier(payload, d)
    BY <1>0, <2>1 DEF P!Multiplier, P!Multipliers, P!PlanCatalogAssumption
  <2> QED
    BY <2>2, Updated
<1>4. ASSUME NEW c \in Codes \ P!Offered(payload), NEW plan \in P!Plan
      PROVE  /\ P!resolvePlanCatalog(P!createPlatformPlan(payload, c, plan, None)) =
                  [plans EXCEPT ![c] = plan]
             /\ \A d \in Codes : P!Multiplier(P!createPlatformPlan(payload, c, plan, None), d) =
                  IF d = c THEN 1 ELSE P!Multiplier(payload, d)
  <2>1. P!createPlatformPlan(payload, c, plan, None).multipliers =
          [payload.multipliers EXCEPT ![c] = 1]
    BY DEF P!createPlatformPlan, P!Written
  <2>2. \A d \in Codes : P!Multiplier(P!createPlatformPlan(payload, c, plan, None), d) =
          IF d = c THEN 1 ELSE P!Multiplier(payload, d)
    BY <1>0, <2>1 DEF P!Multiplier, P!Multipliers
  <2> QED
    BY <2>2, Created
<1> HIDE DEF plans
<1> QED
  BY <1>1, <1>2, <1>3, <1>4 DEF P!ChangesStand, plans

-----------------------------------------------------------------------------
(* Plans: the steps.                                                       *)

\* A step of t that writes neither table leaves the others as they were.
LEMMA OtherRequests ==
  ASSUME PlansInv, NEW t \in Workers, \A u \in Workers \ {t} : planTask'[u] = planTask[u],
         UNCHANGED <<payload, sold, waived>>, P!TypeOK',
         \A u \in Workers \ {t} : u \in planOvertaken => u \in planOvertaken',
         Carries(t)',
         t \notin planOvertaken' /\ planTask'[t].at \in {"count", "write"} => Current(t)'
  PROVE  PlansInv'
<1>1. \A u \in Workers : Carries(u)'
  BY DEF PlansInv, Carries, P!At
<1>2. \A u \in Workers \ planOvertaken' : planTask'[u].at \in {"count", "write"} => Current(u)'
  BY DEF PlansInv, Current, P!At, P!InUse
<1> QED
  BY <1>1, <1>2 DEF PlansInv, P!Missing, P!Offered

LEMMA NoTaskTyped == P!NoTask \in P!Task /\ P!NoTask.at = "idle"
BY DEF P!NoTask, P!Task, P!NoOverride, P!Override

LEMMA CountedRequest ==
  ASSUME PlansInv, NEW t \in Workers, P!Request(t)
  PROVE  planRequests' \in 0..MaxRequests /\ t \notin planOvertaken
BY DEF PlansInv, P!PlanCatalogAssumption, P!TypeOK, P!Request, P!At

\* A request that arrives.
LEMMA Arrives ==
  ASSUME PlansInv, NEW t \in Workers, P!Request(t), NEW request \in P!Task, P!Begin(t, request),
         P!UnchangedTables, UNCHANGED planOvertaken,
         Carries(t)',
         \/ request.at = "read"
         \/ /\ request.at = "write" /\ request.call = "resave"
            /\ sold[request.organization] = request.code
  PROVE  PlansInv'
<1>1. /\ P!TypeOK /\ planTask' = [planTask EXCEPT ![t] = request]
      /\ UNCHANGED <<payload, sold, waived, planOvertaken>>
  BY DEF PlansInv, P!Begin, P!UnchangedTables
<1>2. planTask'[t] = request /\ \A u \in Workers \ {t} : planTask'[u] = planTask[u]
  BY <1>1 DEF P!TypeOK
<1>3. P!TypeOK'
  <2>1. planOvertaken' \subseteq {u \in Workers : planTask'[u].at \in {"count", "write"}}
    BY <1>1, <1>2, CountedRequest DEF P!TypeOK
  <2> QED
    BY <1>1, <2>1, CountedRequest DEF P!TypeOK
<1>4. planTask'[t].at \in {"count", "write"} => Current(t)'
  BY <1>1, <1>2 DEF Current, P!At
<1> QED
  BY <1>1, <1>2, <1>3, <1>4, OtherRequests

LEMMA PutPlansStep ==
  ASSUME PlansInv, NEW t \in Workers, NEW c \in Codes, NEW o \in P!Override, NEW m \in {None, 1, 2},
         P!PutPlans(t, c, o, m)
  PROVE  PlansInv'
<1> DEFINE asked == IF c \in P!Offered(payload) THEN o ELSE P!NoOverride
           request == [P!Called("put", c) EXCEPT !.override = asked, !.multiplier = m]
<1>1. asked \in P!Override
  BY DEF P!NoOverride, P!Override
<1> HIDE DEF asked
<1>2. /\ request \in P!Task /\ request.at = "read" /\ request.call = "put" /\ request.code = c
  BY <1>1 DEF P!Called, P!NoTask, P!Task, P!NoOverride, P!Override
<1>3. P!Request(t) /\ P!Begin(t, request) /\ P!UnchangedTables /\ UNCHANGED planOvertaken
  BY DEF P!PutPlans, asked
<1> HIDE DEF request
<1>4. planTask'[t] = request
  BY <1>3 DEF PlansInv, P!TypeOK, P!Begin
<1>5. Carries(t)'
  BY <1>2, <1>4 DEF Carries, P!At, PlansInv, P!PlanCatalogAssumption
<1> QED
  BY <1>2, <1>3, <1>5, Arrives

LEMMA ArrivalSteps ==
  ASSUME PlansInv, NEW t \in Workers
  PROVE  /\ \A c \in Codes, m \in {None, 1, 2} : P!PostPlan(t, c, m) => PlansInv'
         /\ \A c \in Codes, o \in P!Override : P!PatchPlan(t, c, o) => PlansInv'
         /\ \A c \in Codes : P!DeletePlan(t, c) => PlansInv'
         /\ P!PutSettings(t) => PlansInv'
         /\ \A n \in Organizations, c \in Codes : P!Sell(t, n, c) => PlansInv'
         /\ \A n \in Organizations : P!Resave(t, n) => PlansInv'
<1>0. P!TypeOK /\ P!PlanCatalogAssumption
  BY DEF PlansInv
<1>1. ASSUME NEW c \in Codes, NEW m \in {None, 1, 2}, P!PostPlan(t, c, m) PROVE PlansInv'
  <2>1. PICK plan \in {P!NewPlan, [P!NewPlan EXCEPT !.visible = FALSE]} :
          P!Begin(t, [P!Called("create", c) EXCEPT !.plan = plan, !.multiplier = m])
    BY <1>1 DEF P!PostPlan
  <2> DEFINE request == [P!Called("create", c) EXCEPT !.plan = plan, !.multiplier = m]
  <2>2. plan \in P!Plan
    BY <2>1, NewPlansTyped
  <2>3. /\ request \in P!Task /\ request.at = "read" /\ request.call = "create"
        /\ request.code = c /\ request.plan = plan
    BY <2>2 DEF P!Called, P!NoTask, P!Task, P!NoOverride, P!Override
  <2>4. P!Request(t) /\ P!Begin(t, request) /\ P!UnchangedTables /\ UNCHANGED planOvertaken
    BY <1>1, <2>1 DEF P!PostPlan
  <2> HIDE DEF request
  <2>5. planTask'[t] = request /\ plan # None
    BY <1>0, <2>2, <2>4 DEF P!TypeOK, P!Begin, P!PlanCatalogAssumption
  <2>6. Carries(t)'
    BY <2>3, <2>5 DEF Carries, P!At
  <2> QED
    BY <2>3, <2>4, <2>6, Arrives
<1>2. ASSUME NEW c \in Codes, NEW o \in P!Override, P!PatchPlan(t, c, o) PROVE PlansInv'
  <2> DEFINE request == [P!Called("update", c) EXCEPT !.override = o]
  <2>1. request \in P!Task /\ request.at = "read" /\ request.call = "update" /\ request.code = c
    BY DEF P!Called, P!NoTask, P!Task, P!NoOverride, P!Override
  <2>2. P!Request(t) /\ P!Begin(t, request) /\ P!UnchangedTables /\ UNCHANGED planOvertaken
    BY <1>2 DEF P!PatchPlan
  <2> HIDE DEF request
  <2>3. planTask'[t] = request
    BY <1>0, <2>2 DEF P!TypeOK, P!Begin
  <2>4. Carries(t)'
    BY <2>1, <2>3 DEF Carries, P!At
  <2> QED
    BY <2>1, <2>2, <2>4, Arrives
<1>3. ASSUME NEW c \in Codes, P!DeletePlan(t, c) PROVE PlansInv'
  <2> DEFINE request == P!Called("delete", c)
  <2>1. request \in P!Task /\ request.at = "read" /\ request.call = "delete" /\ request.code = c
    BY DEF P!Called, P!NoTask, P!Task, P!NoOverride, P!Override
  <2>2. P!Request(t) /\ P!Begin(t, request) /\ P!UnchangedTables /\ UNCHANGED planOvertaken
    BY <1>3 DEF P!DeletePlan
  <2> HIDE DEF request
  <2>3. planTask'[t] = request
    BY <1>0, <2>2 DEF P!TypeOK, P!Begin
  <2>4. Carries(t)'
    BY <2>1, <2>3 DEF Carries, P!At
  <2> QED
    BY <2>1, <2>2, <2>4, Arrives
<1>4. ASSUME P!PutSettings(t) PROVE PlansInv'
  <2> DEFINE request == P!Called("put", None)
  <2>1. /\ request \in P!Task /\ request.at = "read" /\ request.call = "put"
        /\ request.multiplier = None
    BY DEF P!Called, P!NoTask, P!Task, P!NoOverride, P!Override
  <2>2. P!Request(t) /\ P!Begin(t, request) /\ P!UnchangedTables /\ UNCHANGED planOvertaken
    BY <1>4 DEF P!PutSettings
  <2> HIDE DEF request
  <2>3. planTask'[t] = request
    BY <1>0, <2>2 DEF P!TypeOK, P!Begin
  <2>4. Carries(t)'
    BY <2>1, <2>3 DEF Carries, P!At
  <2> QED
    BY <2>1, <2>2, <2>4, Arrives
<1>5. ASSUME NEW n \in Organizations, NEW c \in Codes, P!Sell(t, n, c) PROVE PlansInv'
  <2> DEFINE request == [P!Called("sell", c) EXCEPT !.organization = n]
  <2>1. /\ request \in P!Task /\ request.at = "read" /\ request.call = "sell"
        /\ request.code = c /\ request.organization = n
    BY DEF P!Called, P!NoTask, P!Task, P!NoOverride, P!Override
  <2>2. P!Request(t) /\ P!Begin(t, request) /\ P!UnchangedTables /\ UNCHANGED planOvertaken
    BY <1>5 DEF P!Sell
  <2> HIDE DEF request
  <2>3. planTask'[t] = request
    BY <1>0, <2>2 DEF P!TypeOK, P!Begin
  <2>4. Carries(t)'
    BY <2>1, <2>3 DEF Carries, P!At
  <2> QED
    BY <2>1, <2>2, <2>4, Arrives
<1>6. ASSUME NEW n \in Organizations, P!Resave(t, n) PROVE PlansInv'
  <2> DEFINE request == [P!Called("resave", sold[n]) EXCEPT !.at = "write", !.organization = n]
  <2>1. /\ request \in P!Task /\ request.at = "write" /\ request.call = "resave"
        /\ request.code = sold[n] /\ request.organization = n /\ sold[n] \in Codes
    BY <1>0 DEF P!Called, P!NoTask, P!Task, P!NoOverride, P!Override, P!TypeOK
  <2>2. P!Request(t) /\ P!Begin(t, request) /\ P!UnchangedTables /\ UNCHANGED planOvertaken
    BY <1>6 DEF P!Resave
  <2> HIDE DEF request
  <2>3. planTask'[t] = request
    BY <1>0, <2>2 DEF P!TypeOK, P!Begin
  <2>4. Carries(t)'
    BY <2>1, <2>3 DEF Carries, P!At
  <2> QED
    BY <2>1, <2>2, <2>4, Arrives
<1> QED
  BY <1>1, <1>2, <1>3, <1>4, <1>5, <1>6

LEMMA ReadStep ==
  ASSUME PlansInv, NEW t \in Workers, P!Read(t)
  PROVE  PlansInv'
<1>0. /\ P!TypeOK /\ Carries(t) /\ P!At(t, "read") /\ planTask[t] \in P!Task /\ t \notin planOvertaken
      /\ UNCHANGED <<payload, sold, waived, planOvertaken, planRequests>>
  BY DEF PlansInv, P!TypeOK, P!Read, P!At, P!UnchangedTables
<1>1. CASE ~P!Accepted(t)
  <2>1. planTask' = [planTask EXCEPT ![t] = P!NoTask]
    BY <1>1 DEF P!Read, P!Return
  <2>2. planTask'[t] = P!NoTask /\ \A u \in Workers \ {t} : planTask'[u] = planTask[u]
    BY <1>0, <2>1 DEF P!TypeOK
  <2>3. P!TypeOK'
    BY <1>0, <2>1, <2>2, NoTaskTyped DEF P!TypeOK
  <2>4. Carries(t)'
    BY <2>2, NoTaskTyped DEF Carries, P!At
  <2> QED
    BY <1>0, <2>2, <2>3, <2>4, OtherRequests, NoTaskTyped
<1>2. CASE P!Accepted(t)
  <2> DEFINE at == IF planTask[t].call = "delete" THEN "count" ELSE "write"
  <2>1. planTask' = [planTask EXCEPT ![t].seen = payload, ![t].at = at]
    BY <1>2 DEF P!Read
  <2>2. at \in {"count", "write"} /\ (at = "count" <=> planTask[t].call = "delete")
    OBVIOUS
  <2> HIDE DEF at
  <2>3. [planTask[t] EXCEPT !.seen = payload, !.at = at] \in P!Task
    <3>1. planTask[t] \in P!Task /\ payload \in P!Payload
      BY <1>0 DEF P!TypeOK
    <3>2. at \in {"idle", "read", "count", "write"}
      BY <2>2
    <3> QED
      BY <3>1, <3>2, Zenon DEF P!Task
  <2>4. /\ planTask'[t].at = at /\ planTask'[t].seen = payload /\ planTask'[t].call = planTask[t].call
        /\ planTask'[t].code = planTask[t].code /\ planTask'[t].plan = planTask[t].plan
        /\ planTask'[t].multiplier = planTask[t].multiplier
        /\ planTask'[t].organization = planTask[t].organization
        /\ \A u \in Workers \ {t} : planTask'[u] = planTask[u]
    BY <1>0, <2>1 DEF P!TypeOK, P!Task
  <2>5. P!TypeOK'
    <3>1. planTask' \in [Workers -> P!Task]
      BY <1>0, <2>1, <2>3 DEF P!TypeOK
    <3>2. planOvertaken' \subseteq {u \in Workers : planTask'[u].at \in {"count", "write"}}
      BY <1>0, <2>4 DEF P!TypeOK
    <3> QED
      BY <1>0, <3>1, <3>2 DEF P!TypeOK
  <2>6. planTask[t].call \in {"update", "delete", "sell"} => planTask[t].code \in P!Offered(payload)
    BY <1>2 DEF P!Accepted
  <2>7. Carries(t)'
    BY <1>0, <2>2, <2>4, <2>6 DEF Carries, P!At, P!TypeOK, P!Offered
  <2>8. Current(t)'
    BY <1>0, <2>2, <2>4 DEF Current, Carries, P!At
  <2> QED
    BY <1>0, <2>4, <2>5, <2>7, <2>8, OtherRequests
<1> QED
  BY <1>1, <1>2

LEMMA CountStep ==
  ASSUME PlansInv, NEW t \in Workers, P!Count(t)
  PROVE  PlansInv'
<1> DEFINE c == planTask[t].code
<1>0. /\ P!TypeOK /\ Carries(t) /\ P!At(t, "count") /\ planTask[t] \in P!Task /\ planTask[t].call = "delete"
      /\ UNCHANGED <<payload, sold, waived, planRequests>>
  BY DEF PlansInv, P!TypeOK, P!Count, Carries, P!UnchangedTables
<1>1. CASE P!InUse(c) \/ P!Offered(planTask[t].seen) = {c}
  <2>1. planTask' = [planTask EXCEPT ![t] = P!NoTask] /\ planOvertaken' = planOvertaken \ {t}
    BY <1>1 DEF P!Count, P!Return
  <2>2. planTask'[t] = P!NoTask /\ \A u \in Workers \ {t} : planTask'[u] = planTask[u]
    BY <1>0, <2>1 DEF P!TypeOK
  <2>3. P!TypeOK'
    <3>1. planOvertaken' \subseteq {u \in Workers : planTask'[u].at \in {"count", "write"}}
      BY <1>0, <2>1, <2>2 DEF P!TypeOK
    <3> QED
      BY <1>0, <2>1, <3>1, NoTaskTyped DEF P!TypeOK
  <2>4. Carries(t)'
    BY <2>2, NoTaskTyped DEF Carries, P!At
  <2> QED
    BY <1>0, <2>1, <2>2, <2>3, <2>4, OtherRequests, NoTaskTyped
<1>2. CASE ~(P!InUse(c) \/ P!Offered(planTask[t].seen) = {c})
  <2>1. planTask' = [planTask EXCEPT ![t].at = "write"] /\ UNCHANGED planOvertaken
    BY <1>2 DEF P!Count
  <2>2. [planTask[t] EXCEPT !.at = "write"] \in P!Task
    BY <1>0 DEF P!Task
  <2>3. /\ planTask'[t] = [planTask[t] EXCEPT !.at = "write"]
        /\ \A u \in Workers \ {t} : planTask'[u] = planTask[u]
    BY <1>0, <2>1 DEF P!TypeOK
  <2>4. /\ planTask'[t].at = "write" /\ planTask'[t].seen = planTask[t].seen /\ planTask'[t].call = "delete"
        /\ planTask'[t].code = planTask[t].code
    BY <1>0, <2>3 DEF P!Task
  <2>5. P!TypeOK'
    <3>1. planTask' \in [Workers -> P!Task]
      BY <1>0, <2>1, <2>2 DEF P!TypeOK
    <3>2. planOvertaken' \subseteq {u \in Workers : planTask'[u].at \in {"count", "write"}}
      BY <1>0, <2>1, <2>3, <2>4 DEF P!TypeOK
    <3> QED
      BY <1>0, <2>1, <3>1, <3>2 DEF P!TypeOK
  <2>6. Carries(t)'
    BY <1>0, <1>2, <2>4 DEF Carries, P!At
  <2>7. t \notin planOvertaken => Current(t)'
    BY <1>0, <1>2, <2>4 DEF PlansInv, Current, P!At, P!InUse
  <2> QED
    BY <1>0, <2>1, <2>3, <2>5, <2>6, <2>7, OtherRequests
<1> QED
  BY <1>1, <1>2

LEMMA WritePayloadStep ==
  ASSUME PlansInv, NEW t \in Workers, P!WritePayload(t)
  PROVE  PlansInv'
<1>0. /\ P!PlanCatalogAssumption /\ P!TypeOK /\ P!Missing \subseteq waived /\ P!At(t, "write")
      /\ planTask[t].call \in {"create", "update", "delete", "put"}
      /\ payload' = P!NewPayload(t) /\ planOvertaken' = (planOvertaken \cup P!SeenPayload) \ {t}
      /\ waived' = P!Missing' \cap (waived \cup (IF t \in planOvertaken THEN Codes ELSE {}))
      /\ planTask' = [planTask EXCEPT ![t] = P!NoTask] /\ UNCHANGED <<sold, planRequests>>
  BY DEF PlansInv, P!WritePayload, P!WaiveOf, P!Waive, P!Return
<1>1. planTask'[t] = P!NoTask /\ \A u \in Workers \ {t} : planTask'[u] = planTask[u]
  BY <1>0 DEF P!TypeOK
<1>2. P!Missing' \subseteq Codes
  BY <1>0 DEF P!Missing, P!TypeOK
<1>3. P!TypeOK'
  <2>1. planOvertaken' \subseteq {u \in Workers : planTask'[u].at \in {"count", "write"}}
    BY <1>0, <1>1 DEF P!TypeOK, P!SeenPayload
  <2>2. payload' \in P!Payload
    BY <1>0, Writes
  <2> QED
    BY <1>0, <1>2, <2>1, <2>2, NoTaskTyped DEF P!TypeOK
<1>4. \A u \in Workers : Carries(u)'
  BY <1>1, NoTaskTyped DEF PlansInv, Carries, P!At
<1>5. ASSUME NEW u \in Workers \ planOvertaken', planTask'[u].at \in {"count", "write"}
      PROVE  Current(u)'
  <2>1. u # t /\ planTask'[u] = planTask[u]
    BY <1>1, <1>5, NoTaskTyped
  <2>2. u \notin planOvertaken /\ planTask[u].call = "resave"
    BY <1>0, <1>5, <2>1 DEF P!SeenPayload
  <2> QED
    BY <1>0, <1>5, <2>1, <2>2 DEF PlansInv, Current, P!At
<1>6. P!Missing' \subseteq waived'
  <2>1. CASE t \in planOvertaken
    BY <1>0, <1>2, <2>1
  <2>2. CASE t \notin planOvertaken
    <3>1. planTask[t].seen = payload /\ (planTask[t].call = "delete" => ~P!InUse(planTask[t].code))
      BY <1>0, <2>2 DEF PlansInv, Current, P!At
    <3>2. \A c \in P!Offered(payload) :
            c \in P!Offered(payload') \/ (planTask[t].call = "delete" /\ c = planTask[t].code)
      BY <1>0, <3>1, Writes
    <3>3. P!Missing' \subseteq P!Missing
      BY <1>0, <3>1, <3>2 DEF P!Missing, P!InUse, P!Offered
    <3> QED
      BY <1>0, <3>3
  <2> QED
    BY <2>1, <2>2
<1> QED
  BY <1>0, <1>3, <1>4, <1>5, <1>6 DEF PlansInv

\* A subscription of n is written with the plan c.
LEMMA SubscriptionWritten ==
  ASSUME PlansInv, NEW n \in Organizations, NEW c \in Codes, sold' = [sold EXCEPT ![n] = c],
         UNCHANGED payload, planRequests' \in 0..MaxRequests, planTask' \in [Workers -> P!Task],
         \A u \in Workers : planTask'[u] = planTask[u] \/ planTask'[u] = P!NoTask,
         planOvertaken' \subseteq Workers,
         \A u \in planOvertaken' : planTask'[u].at \in {"count", "write"},
         \A u \in Workers : (u \in planOvertaken \/ u \in P!SeenSubscription(n)) /\ planTask'[u] = planTask[u] =>
           u \in planOvertaken' \/ planTask[u].at \notin {"count", "write"},
         waived' \subseteq Codes,
         P!Missing' \subseteq waived'
  PROVE  PlansInv'
<1>0. P!PlanCatalogAssumption /\ P!TypeOK
  BY DEF PlansInv
<1>1. P!TypeOK'
  BY <1>0 DEF P!TypeOK
<1>2. \A u \in Workers : Carries(u)'
  BY NoTaskTyped DEF PlansInv, Carries, P!At
<1>3. ASSUME NEW u \in Workers \ planOvertaken', planTask'[u].at \in {"count", "write"}
      PROVE  Current(u)'
  <2>1. planTask'[u] = planTask[u] /\ u \notin planOvertaken /\ u \notin P!SeenSubscription(n)
    BY <1>3, NoTaskTyped
  <2>2. Current(u) /\ Carries(u)
    BY <1>3, <2>1 DEF PlansInv
  <2>3. /\ ~(P!At(u, "write") /\ planTask[u].call = "delete")
        /\ planTask[u].call = "resave" => P!At(u, "write") /\ planTask[u].organization # n
    BY <1>3, <2>1, <2>2 DEF P!SeenSubscription, Carries, P!At
  <2>4. planTask[u].call = "resave" => planTask[u].organization \in Organizations
    BY <2>2, <2>3 DEF Carries, P!At
  <2> QED
    BY <1>0, <2>1, <2>2, <2>3, <2>4 DEF Current, P!At, P!TypeOK
<1> QED
  BY <1>0, <1>1, <1>2, <1>3 DEF PlansInv

LEMMA WriteSubscriptionStep ==
  ASSUME PlansInv, NEW t \in Workers, P!WriteSubscription(t)
  PROVE  PlansInv'
<1> DEFINE n == planTask[t].organization
           c == planTask[t].code
<1>0. /\ P!TypeOK /\ P!Missing \subseteq waived /\ P!At(t, "write") /\ Carries(t)
      /\ planTask[t].call \in {"sell", "resave"}
      /\ sold' = [sold EXCEPT ![n] = c]
      /\ planOvertaken' = (planOvertaken \cup P!SeenSubscription(n)) \ {t}
      /\ waived' = P!Missing' \cap (waived \cup (IF t \in planOvertaken THEN Codes ELSE {}))
      /\ planTask' = [planTask EXCEPT ![t] = P!NoTask] /\ UNCHANGED <<payload, planRequests>>
  BY DEF PlansInv, P!WriteSubscription, P!WaiveOf, P!Waive, P!Return
<1>1. n \in Organizations /\ c \in Codes
  BY <1>0 DEF Carries, P!At
<1>2. planTask'[t] = P!NoTask /\ \A u \in Workers \ {t} : planTask'[u] = planTask[u]
  BY <1>0 DEF P!TypeOK
<1>3. planTask' \in [Workers -> P!Task] /\ planRequests' \in 0..MaxRequests
  BY <1>0, NoTaskTyped DEF P!TypeOK
<1>4. /\ planOvertaken' \subseteq Workers
      /\ \A u \in planOvertaken' : planTask'[u].at \in {"count", "write"}
  BY <1>0, <1>2 DEF P!TypeOK, P!SeenSubscription, P!At
<1>5. \A u \in Workers : (u \in planOvertaken \/ u \in P!SeenSubscription(n)) /\ planTask'[u] = planTask[u] =>
        u \in planOvertaken' \/ planTask[u].at \notin {"count", "write"}
  BY <1>0, <1>2, NoTaskTyped
<1>6. waived' \subseteq Codes
  BY <1>0 DEF P!TypeOK
<1>7. P!Missing' \subseteq waived'
  <2>1. sold' \in [Organizations -> Codes]
    BY <1>0, <1>1 DEF P!TypeOK
  <2>2. CASE t \in planOvertaken
    BY <1>0, <2>1, <2>2 DEF P!Missing
  <2>3. CASE t \notin planOvertaken
    <3>1. Current(t)
      BY <1>0, <2>3 DEF PlansInv, P!At
    <3>2. c \in P!Offered(payload) \/ sold' = sold
      BY <1>0, <1>1, <3>1 DEF Carries, Current, P!At, P!TypeOK
    <3>3. P!Missing' \subseteq P!Missing
      BY <1>0, <1>1, <3>2 DEF P!Missing, P!TypeOK, P!Offered
    <3> QED
      BY <1>0, <3>3
  <2> QED
    BY <2>2, <2>3
<1> HIDE DEF n, c
<1> QED
  BY <1>0, <1>1, <1>2, <1>3, <1>4, <1>5, <1>6, <1>7, SubscriptionWritten

LEMMA AssignStep ==
  ASSUME PlansInv, NEW n \in Organizations, NEW c \in Codes, P!Assign(n, c)
  PROVE  PlansInv'
<1>0. /\ P!TypeOK /\ P!PlanCatalogAssumption /\ P!Missing \subseteq waived
      /\ sold' = [sold EXCEPT ![n] = c]
      /\ planOvertaken' = planOvertaken \cup P!SeenSubscription(n)
      /\ waived' = P!Missing' \cap (waived \cup {c})
      /\ planRequests < MaxRequests /\ planRequests' = planRequests + 1 /\ UNCHANGED <<payload, planTask>>
  BY DEF PlansInv, P!Assign, P!Waive
<1>1. planRequests' \in 0..MaxRequests
  BY <1>0 DEF P!TypeOK, P!PlanCatalogAssumption
<1>2. /\ planOvertaken' \subseteq Workers
      /\ \A u \in planOvertaken' : planTask'[u].at \in {"count", "write"}
  BY <1>0 DEF P!TypeOK, P!SeenSubscription, P!At
<1>3. P!Missing' \subseteq P!Missing \cup {c}
  BY <1>0 DEF P!Missing, P!TypeOK, P!Offered
<1>4. P!Missing' \subseteq waived' /\ waived' \subseteq Codes
  BY <1>0, <1>3 DEF P!TypeOK
<1> QED
  BY <1>0, <1>1, <1>2, <1>4, SubscriptionWritten DEF P!TypeOK

-----------------------------------------------------------------------------
(* Plans: every step, and the theorems.                                    *)

LEMMA PlansInit ==
  ASSUME P!PlanCatalogAssumption, P!Init
  PROVE  PlansInv
<1>1. PICK overrides \in [Codes -> {P!NoOverride, [P!NoOverride EXCEPT !.limit = 1],
                                    [P!NoOverride EXCEPT !.visible = FALSE]}] :
        payload = [catalog |-> None, overrides |-> overrides,
                   multipliers |-> [c \in Codes |-> None]]
  BY DEF P!Init
<1>2. payload \in P!Payload
  <2>1. {P!NoOverride, [P!NoOverride EXCEPT !.limit = 1], [P!NoOverride EXCEPT !.visible = FALSE]}
          \subseteq P!Override
    BY OverridesTyped
  <2> QED
    BY <1>1, <2>1 DEF P!Payload, P!Multipliers
<1>3. P!TypeOK
  BY <1>2, NoTaskTyped DEF P!PlanCatalogAssumption, P!Init, P!TypeOK
<1>4. \A t \in Workers : Carries(t) /\ planTask[t].at = "idle"
  BY NoTaskTyped DEF P!Init, Carries, P!At
<1>5. BuiltIn \subseteq P!Offered(payload)
  <2>1. P!parsePlanCatalog(payload) = P!DEFAULT_PLAN_CATALOG
    BY <1>1 DEF P!parsePlanCatalog
  <2>2. P!DefaultPlan \in P!Plan
    BY NewPlansTyped
  <2>3. \A c \in BuiltIn : c \in Codes /\ P!DEFAULT_PLAN_CATALOG[c] # None
    BY <2>2 DEF P!PlanCatalogAssumption, P!DEFAULT_PLAN_CATALOG
  <2>4. /\ P!DEFAULT_PLAN_CATALOG \in P!Catalog /\ payload.overrides \in [Codes -> P!Override]
    BY <1>2, <2>1, ParsedTyped DEF P!Payload
  <2> QED
    BY <2>1, <2>3, <2>4, ResolvedTyped DEF P!Offered, P!resolvePlanCatalog
<1>6. P!Missing = {}
  BY <1>5 DEF P!Init, P!Missing
<1> QED
  BY <1>3, <1>4, <1>6 DEF PlansInv

LEMMA PlansNext ==
  ASSUME PlansInv, [P!Next]_(P!vars)
  PROVE  PlansInv'
<1>0. /\ [P!NoOverride EXCEPT !.limit = 2] \in P!Override
      /\ [P!NoOverride EXCEPT !.visible = TRUE] \in P!Override
      /\ [P!NoOverride EXCEPT !.visible = FALSE] \in P!Override
  BY DEF P!NoOverride, P!Override
<1>1. ASSUME NEW t \in Workers, NEW c \in Codes,
             \/ P!PostPlan(t, c, 2) \/ P!DeletePlan(t, c)
             \/ \E o \in {[P!NoOverride EXCEPT !.limit = 2],
                           [P!NoOverride EXCEPT !.visible = TRUE]} :
                  P!PatchPlan(t, c, o)
             \/ P!PutPlans(t, c, [P!NoOverride EXCEPT !.visible = FALSE], 2)
      PROVE  PlansInv'
  BY <1>0, <1>1, ArrivalSteps, PutPlansStep
<1>2. ASSUME NEW t \in Workers,
             \/ P!PutSettings(t)
             \/ \E n \in Organizations : P!Resave(t, n) \/ \E c \in Codes : P!Sell(t, n, c)
      PROVE  PlansInv'
  BY <1>2, ArrivalSteps
<1>3. ASSUME UNCHANGED P!vars PROVE PlansInv'
  BY <1>3 DEF P!vars, PlansInv, P!PlanCatalogAssumption, P!TypeOK, Carries, Current, P!At,
             P!InUse, P!Missing, P!Offered
<1> QED
  BY <1>1, <1>2, <1>3, ReadStep, CountStep, WritePayloadStep, WriteSubscriptionStep, AssignStep
     DEF P!Next

\* What requests carry, what they have read, and the plans that workshops have.
THEOREM PlansInvariance ==
  ASSUME P!PlanCatalogAssumption
  PROVE  P!Spec => []PlansInv
BY PlansInit, PlansNext, PTL DEF P!Spec

\* The payload, the subscriptions and the requests keep their types.
THEOREM CatalogTyped ==
  ASSUME P!PlanCatalogAssumption
  PROVE  P!Spec => []P!TypeOK
<1>1. PlansInv => P!TypeOK
  BY DEF PlansInv
<1> QED
  BY <1>1, PlansInvariance, PTL

\* A change of one plan is read back as that change, from either format
\* (platform-settings.ts), and a plan that a workshop has stays.
THEOREM PlanChangesStand ==
  /\ P!Spec => []P!ChangesStand
  /\ OfficeSpec => []ChangesStand
<1>1. PlansInv => P!ChangesStand
  BY EveryChangeStands DEF PlansInv, P!TypeOK
<1>2. P!Spec => []PlansInv
  BY OfficeAssumption, PlansInvariance, PTL DEF OfficeAssumption
<1>3. P!ChangesStand => ChangesStand
  BY DEF ChangesStand
<1> QED
  BY <1>1, <1>2, <1>3, EachPartRuns, PTL

-----------------------------------------------------------------------------
(* Clients: the inductive invariant.                                       *)

\* What each step of a request has.
Employed(w) ==
  /\ clientTask[w].at \in {"update", "send", "own", "drop"} => C!Who(w) \in Customers
  /\ clientTask[w].at \in {"idle", "create", "customers", "vehicles", "replace"} => C!Who(w) = None
  /\ clientTask[w].at \in {"create", "send"} => clientTask[w].phone \in Phones \cup Loose
  /\ clientTask[w].at \in {"create", "send", "own"} => clientTask[w].password \in C!Numbers
  /\ C!At(w, "customers") => clientTask[w].rows \in C!Kept(Phones)
  /\ C!At(w, "vehicles") => clientTask[w].rows \in C!Kept(C!Vehicle)
  /\ clientTask[w].at \notin {"customers", "vehicles"} => DOMAIN clientTask[w].rows = {}

\* One request at a time writes the row of a customer that is not set aside.
OneJob(c) ==
  C!There(c) /\ c \notin raced =>
    \A v, w \in Workers : C!Who(v) = c /\ C!Who(w) = c /\ ~C!At(v, "drop") /\ ~C!At(w, "drop") =>
      v = w

\* What a customer was told is the stored password, and so is what is on its way.
Told(c) ==
  told[c] # None => C!There(c) /\ (c \notin raced => told[c].password = customer[c].password)
WillSend(w) ==
  C!At(w, "send") /\ C!There(C!Who(w)) /\ C!Who(w) \notin raced =>
      customer[C!Who(w)].password = clientTask[w].password

\* What was looked for before a write has not come since, or the request was
\* overtaken; the rows of an import are apart from each other as well.
Sought(w) ==
  LET t == clientTask[w]
  IN  w \notin clientOvertaken =>
        /\ t.at \in {"create", "update"} /\ t.phone \in Phones =>
             \A c \in Customers \ {t.who} : customer[c].phone # t.phone
        /\ t.at = "customers" =>
             /\ \A i, j \in DOMAIN t.rows : i # j => t.rows[i] # t.rows[j]
             /\ \A i \in DOMAIN t.rows : \A c \in Customers : customer[c].phone # t.rows[i]
        /\ t.at = "vehicles" =>
             /\ \A i, j \in DOMAIN t.rows : i # j => t.rows[i].plate # t.rows[j].plate
             /\ \A i \in DOMAIN t.rows : \A v \in Vehicles : vehicle[v].plate # t.rows[i].plate

PhonesApart ==
  \A c, d \in Customers \ raced :
    c # d /\ customer[c].phone \in Phones => customer[c].phone # customer[d].phone
ImportedApart ==
  /\ \A v \in imported : C!Parked(v)
  /\ \A u, v \in imported : u # v => vehicle[u].plate # vehicle[v].plate

ClientsInv ==
  /\ C!TypeOK
  /\ \A w \in Workers : Employed(w) /\ WillSend(w) /\ Sought(w)
  /\ \A c \in Customers : OneJob(c) /\ Told(c)
  /\ PhonesApart /\ ImportedApart

LEMMA NoClientTask == C!NoTask \in C!Task /\ DOMAIN C!NoTask.rows = {}
<1>1. {} \in SUBSET (1..MaxBatch) /\ <<>> \in [{} -> Phones \cup C!Vehicle] OBVIOUS
<1>2. <<>> \in C!Kept(Phones \cup C!Vehicle) BY <1>1 DEF C!Kept
<1> QED BY <1>2 DEF C!Task, C!NoTask

LEMMA ClientsInit == ASSUME C!ClientsAssumption PROVE C!Init => ClientsInv
<1> SUFFICES ASSUME C!Init PROVE ClientsInv OBVIOUS
<1>1. C!TypeOK
  BY NoClientTask DEF C!TypeOK, C!ClientsAssumption, C!Init
<1>2. ASSUME NEW w \in Workers PROVE Employed(w) /\ WillSend(w) /\ Sought(w)
  <2>1. clientTask[w] = C!NoTask /\ DOMAIN C!NoTask.rows = {} BY NoClientTask DEF C!Init
  <2> QED BY <2>1 DEF Employed, WillSend, Sought, C!At, C!Who, C!NoTask
<1>3. ASSUME NEW c \in Customers PROVE OneJob(c) /\ Told(c)
  BY DEF OneJob, Told, C!There, C!Init
<1>4. PhonesApart /\ ImportedApart
  BY DEF PhonesApart, ImportedApart, C!ClientsAssumption, C!Init, C!NoCustomer
<1> QED BY <1>1, <1>2, <1>3, <1>4 DEF ClientsInv

-----------------------------------------------------------------------------
(* Clients: what a step of one worker leaves of the others.                *)

Others(w) == \A v \in Workers \ {w} : clientTask'[v] = clientTask[v]

\* All phones and plates that are new in the tables have been written.
WritesWithin(w, written) ==
  /\ \A c \in Customers : customer'[c].phone \in {customer[c].phone, None} \cup written
  /\ \A v \in Vehicles : vehicle'[v].plate \in {vehicle[v].plate, None} \cup written
  /\ \A v \in Workers \ {w} : v \notin clientOvertaken' => v \notin clientOvertaken \cup C!Awaiting(written)

\* No other worker tells c of a password that is not the stored one.
SendsStay(w, c) ==
  C!There(c)' /\ c \notin raced' =>
    \/ C!There(c) /\ c \notin raced /\ customer'[c].password = customer[c].password
    \/ \A v \in Workers \ {w} : ~(C!At(v, "send") /\ C!Who(v) = c)

LEMMA SoughtStays ==
  ASSUME C!ClientsAssumption, ClientsInv, NEW w \in Workers, Others(w), NEW written,
         WritesWithin(w, written),
         NEW v \in Workers \ {w}
  PROVE  Sought(v)'
<1>1. clientTask'[v] = clientTask[v] /\ Employed(v) /\ Sought(v) BY DEF Others, ClientsInv
<1> SUFFICES ASSUME v \notin clientOvertaken' PROVE Sought(v)'
  BY DEF Sought
<1>2. v \notin clientOvertaken /\ v \notin C!Awaiting(written) BY DEF WritesWithin
<1>3. CASE clientTask[v].at \in {"create", "update"}
  <2>1. clientTask[v].phone \notin written BY <1>2, <1>3 DEF C!Awaiting
  <2> QED BY <1>1, <1>2, <1>3, <2>1 DEF Sought, WritesWithin, C!ClientsAssumption
<1>4. CASE clientTask[v].at = "customers"
  <2>1. \A i \in DOMAIN clientTask[v].rows : clientTask[v].rows[i] \notin written
    BY <1>2, <1>4 DEF C!Awaiting, C!At
  <2>2. \A i \in DOMAIN clientTask[v].rows : clientTask[v].rows[i] \in Phones
    BY <1>1, <1>4 DEF Employed, C!At, C!Kept
  <2> QED BY <1>1, <1>2, <1>4, <2>1, <2>2 DEF Sought, WritesWithin, C!ClientsAssumption
<1>5. CASE clientTask[v].at = "vehicles"
  <2>1. \A i \in DOMAIN clientTask[v].rows : clientTask[v].rows[i].plate \notin written
    BY <1>2, <1>5 DEF C!Awaiting, C!At
  <2>2. \A i \in DOMAIN clientTask[v].rows : clientTask[v].rows[i].plate \in Plates
    BY <1>1, <1>5 DEF Employed, C!At, C!Kept, C!Vehicle
  <2> QED BY <1>1, <1>2, <1>5, <2>1, <2>2 DEF Sought, WritesWithin, C!ClientsAssumption
<1> QED BY <1>1, <1>3, <1>4, <1>5 DEF Sought

LEMMA OneJobStays ==
  ASSUME ClientsInv, NEW w \in Workers, Others(w), NEW c \in Customers,
         \/ c \in raced' \/ ~C!There(c)' \/ ~C!Busy(c)
         \/ /\ C!There(c) /\ c \notin raced
            /\ C!Who(w)' # c \/ C!At(w, "drop")' \/ (C!Who(w) = c /\ ~C!At(w, "drop"))
  PROVE  OneJob(c)'
<1> SUFFICES ASSUME C!There(c)', c \notin raced',
                    NEW u \in Workers, NEW v \in Workers, C!Who(u)' = c, C!Who(v)' = c,
                    ~C!At(u, "drop")', ~C!At(v, "drop")', u # v
             PROVE FALSE
  BY DEF OneJob
<1>1. OneJob(c) BY DEF ClientsInv
<1> QED BY <1>1 DEF OneJob, Others, C!Who, C!At, C!Busy

LEMMA ClientsStep ==
  ASSUME C!ClientsAssumption, ClientsInv, C!TypeOK', NEW w \in Workers, Others(w), NEW written,
         WritesWithin(w, written), Employed(w)', WillSend(w)', Sought(w)',
         \A c \in Customers : SendsStay(w, c) /\ OneJob(c)' /\ Told(c)',
         PhonesApart', ImportedApart'
  PROVE  ClientsInv'
<1>1. ASSUME NEW v \in Workers PROVE Employed(v)' /\ WillSend(v)' /\ Sought(v)'
  <2>1. CASE v = w BY <2>1
  <2>2. CASE v # w
    <3>1. clientTask'[v] = clientTask[v] /\ Employed(v) /\ WillSend(v) BY <2>2 DEF Others, ClientsInv
    <3>2. Employed(v)' BY <3>1 DEF Employed, C!Who, C!At
    <3>3. ASSUME C!At(v, "send"), C!There(C!Who(v))', C!Who(v) \notin raced'
          PROVE  customer'[C!Who(v)].password = clientTask[v].password
      <4>1. C!Who(v) \in Customers BY <3>1, <3>3 DEF Employed, C!At
      <4>4. /\ C!There(C!Who(v)) /\ C!Who(v) \notin raced
            /\ customer'[C!Who(v)].password = customer[C!Who(v)].password
        <5>1. PICK c \in Customers : c = C!Who(v) BY <4>1
        <5>3. SendsStay(w, c) OBVIOUS
        <5>2. C!There(c)' /\ c \notin raced' BY <3>1, <3>3, <5>1 DEF C!Who, C!There
        <5> QED BY <2>2, <3>3, <5>1, <5>2, <5>3 DEF SendsStay
      <4> QED BY <3>1, <3>3, <4>4 DEF WillSend
    <3>4. WillSend(v)' BY <3>1, <3>3 DEF WillSend, C!At, C!Who, C!There
    <3>5. Sought(v)' BY <2>2, SoughtStays
    <3> QED BY <3>2, <3>4, <3>5
  <2> QED BY <2>1, <2>2
<1> QED BY <1>1 DEF ClientsInv

\* A step that writes no row and tells nobody anything.
LEMMA LooksOnly ==
  ASSUME C!ClientsAssumption, ClientsInv, C!TypeOK', NEW w \in Workers, Others(w),
         UNCHANGED <<customer, vehicle, told, imported>>, raced \subseteq raced',
         clientOvertaken \ {w} \subseteq clientOvertaken', Employed(w)', WillSend(w)', Sought(w)',
         \A c \in Customers : OneJob(c)'
  PROVE  ClientsInv'
<1>1. WritesWithin(w, {})
  BY DEF WritesWithin, C!Awaiting
<1>2. ASSUME NEW c \in Customers PROVE SendsStay(w, c) /\ Told(c)'
  <2>1. Told(c) BY DEF ClientsInv
  <2> QED BY <2>1 DEF SendsStay, Told, C!There
<1>3. PhonesApart' /\ ImportedApart'
  BY DEF ClientsInv, PhonesApart, ImportedApart, C!Parked
<1> QED BY <1>1, <1>2, <1>3, ClientsStep

\* The end of a request, and of its job.
LEMMA RequestEnds ==
  ASSUME ClientsInv, NEW w \in Workers, C!Return(w)
  PROVE  /\ Others(w) /\ clientTask'[w] = C!NoTask /\ clientTask' \in [Workers -> C!Task]
         /\ Employed(w)' /\ WillSend(w)' /\ Sought(w)' /\ C!Who(w)' = None /\ ~C!At(w, "send")'
<1>1. clientTask'[w] = C!NoTask /\ Others(w) /\ clientTask' \in [Workers -> C!Task]
  BY NoClientTask DEF C!Return, ClientsInv, C!TypeOK, Others
<1> QED BY <1>1, NoClientTask DEF Employed, WillSend, Sought, C!At, C!Who, C!NoTask

\* The end of one that wrote nothing.
LEMMA EndsUnwritten ==
  ASSUME C!ClientsAssumption, ClientsInv, NEW w \in Workers, C!Return(w),
         UNCHANGED <<customer, vehicle, told, imported, raced, session, clientRequests>>,
         clientOvertaken' \in {clientOvertaken, clientOvertaken \ {w}}
  PROVE  ClientsInv'
<1>1. C!TypeOK' BY RequestEnds DEF ClientsInv, C!TypeOK
<1>2. ASSUME NEW c \in Customers PROVE OneJob(c)'
  <2>1. C!Who(w)' # c BY RequestEnds DEF C!ClientsAssumption
  <2>2. C!There(c)' => C!There(c) BY DEF C!There
  <2> QED BY <2>1, <2>2, RequestEnds, OneJobStays
<1> QED BY <1>1, <1>2, RequestEnds, LooksOnly

LEMMA PostCustomerStep ==
  ASSUME C!ClientsAssumption, ClientsInv, NEW w \in Workers, NEW phone \in Phones \cup Loose,
         C!PostCustomer(w, phone)
  PROVE  ClientsInv'
<1> DEFINE t == [C!NoTask EXCEPT !.at = "create", !.phone = phone, !.password = C!Fresh]
<1>0. C!Fresh \in C!Numbers /\ clientRequests' \in 0..MaxRequests /\ clientTask[w].at = "idle"
  BY DEF C!PostCustomer, C!Request, C!Fresh, C!Numbers, ClientsInv, C!TypeOK,
         C!ClientsAssumption, C!At
<1>1. t \in C!Task BY <1>0, NoClientTask DEF C!Task
<1>2. Others(w) /\ clientTask'[w] = t /\ clientTask' \in [Workers -> C!Task]
  BY <1>1 DEF C!PostCustomer, Others, ClientsInv, C!TypeOK
<1>3. C!TypeOK' BY <1>0, <1>2 DEF C!PostCustomer, ClientsInv, C!TypeOK
<1>4. Employed(w)' /\ WillSend(w)'
  BY <1>0, <1>2, NoClientTask DEF Employed, WillSend, C!At, C!Who, C!NoTask
<1>5. Sought(w)'
  BY <1>2 DEF C!PostCustomer, Sought, C!Clash, C!NoTask
<1>6. ASSUME NEW c \in Customers PROVE OneJob(c)'
  <2>1. C!Who(w)' # c BY <1>2 DEF C!Who, C!NoTask, C!ClientsAssumption
  <2>2. C!There(c)' => C!There(c) BY DEF C!There, C!PostCustomer
  <2> QED BY <1>2, <2>1, <2>2, OneJobStays DEF C!PostCustomer
<1> QED BY <1>2, <1>3, <1>4, <1>5, <1>6, LooksOnly DEF C!PostCustomer

LEMMA PutCustomerStep ==
  ASSUME C!ClientsAssumption, ClientsInv, NEW w \in Workers, NEW c \in Customers,
         NEW phone \in Phones \cup Loose \cup {None}, NEW reset \in BOOLEAN, NEW active \in BOOLEAN,
         C!PutCustomer(w, c, phone, reset, active)
  PROVE  ClientsInv'
<1> DEFINE t == [C!NoTask EXCEPT !.at = "update", !.who = c, !.phone = phone,
                   !.password = IF reset THEN C!Fresh ELSE None, !.active = active]
<1>0. C!Fresh \in C!Numbers /\ clientRequests' \in 0..MaxRequests
  BY DEF C!PutCustomer, C!Request, C!Fresh, C!Numbers, ClientsInv, C!TypeOK, C!ClientsAssumption
<1>1. t \in C!Task BY <1>0, NoClientTask DEF C!Task
<1>2. Others(w) /\ clientTask'[w] = t /\ clientTask' \in [Workers -> C!Task]
  BY <1>1 DEF C!PutCustomer, Others, ClientsInv, C!TypeOK
<1>3. C!TypeOK' BY <1>0, <1>2 DEF C!PutCustomer, ClientsInv, C!TypeOK
<1>4. Employed(w)' /\ WillSend(w)'
  BY <1>0, <1>2, NoClientTask DEF Employed, WillSend, C!At, C!Who, C!NoTask
<1>5. Sought(w)'
  BY <1>2 DEF C!PutCustomer, Sought, C!Clash, C!NoTask, C!ClientsAssumption
<1>6. ASSUME NEW d \in Customers PROVE OneJob(d)'
  <2>1. C!Who(w)' = c BY <1>2 DEF C!Who, C!NoTask
  <2>2. C!There(d)' => C!There(d) BY DEF C!There, C!PutCustomer
  <2> QED BY <1>2, <2>1, <2>2, OneJobStays DEF C!PutCustomer
<1> QED BY <1>2, <1>3, <1>4, <1>5, <1>6, LooksOnly DEF C!PutCustomer

LEMMA SetPasswordStep ==
  ASSUME C!ClientsAssumption, ClientsInv, NEW w \in Workers, NEW c \in Customers,
         C!SetPassword(w, c)
  PROVE  ClientsInv'
<1> DEFINE t == [C!NoTask EXCEPT !.at = "own", !.who = c, !.password = C!Fresh]
<1>0. C!Fresh \in C!Numbers /\ clientRequests' \in 0..MaxRequests
  BY DEF C!SetPassword, C!Request, C!Fresh, C!Numbers, ClientsInv, C!TypeOK, C!ClientsAssumption
<1>1. t \in C!Task BY <1>0, NoClientTask DEF C!Task
<1>2. Others(w) /\ clientTask'[w] = t /\ clientTask' \in [Workers -> C!Task]
  BY <1>1 DEF C!SetPassword, Others, ClientsInv, C!TypeOK
<1>3. C!TypeOK' BY <1>0, <1>2 DEF C!SetPassword, ClientsInv, C!TypeOK
<1>4. Employed(w)' /\ WillSend(w)' /\ Sought(w)'
  BY <1>0, <1>2, NoClientTask DEF Employed, WillSend, Sought, C!At, C!Who, C!NoTask
<1>6. ASSUME NEW d \in Customers PROVE OneJob(d)'
  <2>1. C!Who(w)' = c BY <1>2 DEF C!Who, C!NoTask
  <2>2. C!There(d)' => C!There(d) BY DEF C!There, C!SetPassword
  <2> QED BY <1>2, <2>1, <2>2, OneJobStays DEF C!SetPassword
<1> QED BY <1>2, <1>3, <1>4, <1>6, LooksOnly DEF C!SetPassword

\* The requests that read for an import or a snapshot, and concern no customer.
LEMMA BulkStep ==
  ASSUME C!ClientsAssumption, ClientsInv, NEW w \in Workers, C!Request(w), NEW t \in C!Task,
         clientTask' = [clientTask EXCEPT ![w] = t], t.at \in {"customers", "vehicles", "replace"},
         t.who = None, Sought(w)',
         t.at = "customers" => t.rows \in C!Kept(Phones),
         t.at = "vehicles" => t.rows \in C!Kept(C!Vehicle),
         t.at = "replace" => DOMAIN t.rows = {},
         UNCHANGED <<customer, vehicle, session, told, clientOvertaken, raced, imported>>
  PROVE  ClientsInv'
<1>1. clientRequests' \in 0..MaxRequests
  BY DEF C!Request, ClientsInv, C!TypeOK, C!ClientsAssumption
<1>2. Others(w) /\ clientTask'[w] = t /\ clientTask' \in [Workers -> C!Task]
  BY DEF Others, ClientsInv, C!TypeOK
<1>3. C!TypeOK' BY <1>1, <1>2 DEF ClientsInv, C!TypeOK
<1>4. Employed(w)' /\ WillSend(w)'
  BY <1>2 DEF Employed, WillSend, C!At, C!Who
<1>5. ASSUME NEW c \in Customers PROVE OneJob(c)'
  <2>1. C!Who(w)' # c BY <1>2 DEF C!Who, C!ClientsAssumption
  <2>2. C!There(c)' => C!There(c) BY DEF C!There
  <2> QED BY <1>2, <2>1, <2>2, OneJobStays
<1> QED BY <1>2, <1>3, <1>4, <1>5, LooksOnly

LEMMA KeptIs ==
  ASSUME NEW S, NEW n \in 0..MaxBatch, NEW f, NEW picks \in SUBSET (1..n), C!ClientsAssumption,
         \A i \in picks : f[i] \in S
  PROVE  C!Restrict(f, picks) \in C!Kept(S) /\ DOMAIN C!Restrict(f, picks) = picks
<1>1. picks \in SUBSET (1..MaxBatch) BY DEF C!ClientsAssumption
<1>2. C!Restrict(f, picks) \in [picks -> S] BY DEF C!Restrict
<1> QED BY <1>1, <1>2 DEF C!Kept

LEMMA BulkCustomersStep ==
  ASSUME C!ClientsAssumption, ClientsInv, NEW w \in Workers,
         NEW phones \in C!Batches(Phones \cup Loose), C!BulkCustomers(w, phones)
  PROVE  ClientsInv'
<1> DEFINE known == {customer[c].phone : c \in Customers} \cup Loose
           picks == C!NewRows(phones, known)
           t == [C!NoTask EXCEPT !.at = "customers", !.rows = C!Restrict(phones, picks)]
<1>1. PICK n \in 1..MaxBatch : phones \in [1..n -> Phones \cup Loose] BY DEF C!Batches
<1>2. picks \in SUBSET (1..n) BY <1>1 DEF C!NewRows
<1>3. \A i \in picks : phones[i] \in Phones /\ phones[i] \notin known BY <1>1 DEF C!NewRows
<1>4. \A i, j \in picks : i # j => phones[i] # phones[j]
  <2> SUFFICES ASSUME NEW i \in picks, NEW j \in picks, i # j, phones[i] = phones[j] PROVE FALSE
    OBVIOUS
  <2>1. i \in 1..(j - 1) \/ j \in 1..(i - 1) BY <1>2
  <2> QED BY <2>1 DEF C!NewRows
<1>5. \A i \in picks : C!Restrict(phones, picks)[i] = phones[i] BY DEF C!Restrict
<1>6. C!Restrict(phones, picks) \in C!Kept(Phones) /\ DOMAIN C!Restrict(phones, picks) = picks
  <2>1. n \in 0..MaxBatch BY DEF C!ClientsAssumption
  <2> HIDE DEF picks
  <2> QED BY <1>2, <1>3, <2>1, KeptIs
<1>7. C!Restrict(phones, picks) \in C!Kept(Phones \cup C!Vehicle)
  BY <1>6 DEF C!Kept
<1>8. t \in C!Task /\ t.at = "customers" /\ t.who = None /\ t.rows = C!Restrict(phones, picks)
  BY <1>7, NoClientTask DEF C!Task, C!NoTask
<1>9. clientTask' = [clientTask EXCEPT ![w] = t] /\ clientTask'[w] = t
  BY DEF C!BulkCustomers, ClientsInv, C!TypeOK
<1>10. Sought(w)'
  <2>1. UNCHANGED customer BY DEF C!BulkCustomers
  <2> HIDE DEF t
  <2>2. \A i \in picks, c \in Customers : customer[c].phone # phones[i] BY <1>3
  <2> HIDE DEF picks
  <2> QED BY <1>4, <1>5, <1>6, <1>8, <1>9, <2>1, <2>2 DEF Sought
<1> HIDE DEF t
<1> QED BY <1>6, <1>8, <1>9, <1>10, BulkStep DEF C!BulkCustomers

LEMMA BulkVehiclesStep ==
  ASSUME C!ClientsAssumption, ClientsInv, NEW w \in Workers,
         NEW batch \in C!Batches(C!Vehicle), C!BulkVehicles(w, batch)
  PROVE  ClientsInv'
<1> DEFINE plates == [i \in DOMAIN batch |->
                       IF C!There(batch[i].owner) THEN batch[i].plate ELSE None]
           picks == C!NewRows(plates, C!StoredPlates \cup {None})
           t == [C!NoTask EXCEPT !.at = "vehicles", !.rows = C!Restrict(batch, picks)]
<1>1. PICK n \in 1..MaxBatch : batch \in [1..n -> C!Vehicle] BY DEF C!Batches
<1>2. picks \in SUBSET (1..n) BY <1>1 DEF C!NewRows
<1>3. \A i \in picks : /\ batch[i] \in C!Vehicle /\ plates[i] = batch[i].plate
                       /\ batch[i].plate \notin C!StoredPlates \cup {None}
  BY <1>1 DEF C!NewRows
<1>4. \A i, j \in picks : i # j => batch[i].plate # batch[j].plate
  <2> SUFFICES ASSUME NEW i \in picks, NEW j \in picks, i # j, batch[i].plate = batch[j].plate
               PROVE FALSE
    OBVIOUS
  <2>1. plates[i] = plates[j] BY <1>3
  <2>2. i \in 1..n /\ j \in 1..n BY <1>2
  <2>3. i \in 1..(j - 1) \/ j \in 1..(i - 1)
    <3> HIDE DEF picks
    <3> QED BY <2>2
  <2> HIDE DEF plates
  <2> QED BY <2>1, <2>2, <2>3 DEF C!NewRows
<1>5. \A i \in picks : C!Restrict(batch, picks)[i] = batch[i] BY DEF C!Restrict
<1>6. C!Restrict(batch, picks) \in C!Kept(C!Vehicle) /\ DOMAIN C!Restrict(batch, picks) = picks
  <2>1. n \in 0..MaxBatch BY DEF C!ClientsAssumption
  <2>2. \A i \in picks : batch[i] \in C!Vehicle BY <1>3
  <2> HIDE DEF picks
  <2> QED BY <1>2, <2>1, <2>2, KeptIs
<1>7. C!Restrict(batch, picks) \in C!Kept(Phones \cup C!Vehicle)
  <2> HIDE DEF picks
  <2> QED BY <1>6 DEF C!Kept
<1>8. t \in C!Task /\ t.at = "vehicles" /\ t.who = None /\ t.rows = C!Restrict(batch, picks)
  BY <1>7, NoClientTask DEF C!Task, C!NoTask
<1>9. clientTask' = [clientTask EXCEPT ![w] = t] /\ clientTask'[w] = t
  BY DEF C!BulkVehicles, ClientsInv, C!TypeOK
<1>10. Sought(w)'
  <2>1. UNCHANGED vehicle BY DEF C!BulkVehicles
  <2> HIDE DEF t
  <2>2. \A i \in picks, v \in Vehicles : vehicle[v].plate # batch[i].plate
    BY <1>3 DEF C!StoredPlates
  <2> HIDE DEF picks
  <2> QED BY <1>4, <1>5, <1>6, <1>8, <1>9, <2>1, <2>2 DEF Sought
<1> HIDE DEF t
<1> QED BY <1>6, <1>8, <1>9, <1>10, BulkStep DEF C!BulkVehicles

LEMMA PostFleetStep ==
  ASSUME C!ClientsAssumption, ClientsInv, NEW w \in Workers, NEW fleet \in C!Fleets,
         C!PostSnapshot(w, fleet)
  PROVE  ClientsInv'
<1> DEFINE t == [C!NoTask EXCEPT !.at = "replace", !.fleet = fleet]
<1>1. t \in C!Task /\ t.at = "replace" /\ t.who = None /\ t.rows = C!NoTask.rows
  BY NoClientTask DEF C!Task, C!NoTask, C!Fleets
<1>2. clientTask' = [clientTask EXCEPT ![w] = t] /\ clientTask'[w] = t
  BY DEF C!PostSnapshot, ClientsInv, C!TypeOK
<1> HIDE DEF t
<1>3. Sought(w)' BY <1>1, <1>2 DEF Sought
<1> QED BY <1>1, <1>2, <1>3, NoClientTask, BulkStep DEF C!PostSnapshot

LEMMA ClientFailsStep ==
  ASSUME C!ClientsAssumption, ClientsInv, NEW w \in Workers, C!Fail(w)
  PROVE  ClientsInv'
BY EndsUnwritten DEF C!Fail, C!Ends

LEMMA PortalLoginStep ==
  ASSUME C!ClientsAssumption, ClientsInv, NEW w \in Workers, NEW c \in Customers, C!PortalLogin(c)
  PROVE  ClientsInv'
<1>1. C!TypeOK' BY DEF C!PortalLogin, ClientsInv, C!TypeOK
<1>2. Others(w) /\ UNCHANGED clientTask BY DEF C!PortalLogin, Others
<1>3. Employed(w)' /\ WillSend(w)' /\ Sought(w)'
  BY DEF ClientsInv, Employed, WillSend, Sought, C!At, C!Who, C!There, C!PortalLogin
<1>4. ASSUME NEW d \in Customers PROVE OneJob(d)'
  BY DEF ClientsInv, OneJob, C!At, C!Who, C!There, C!PortalLogin
<1> QED BY <1>1, <1>2, <1>3, <1>4, LooksOnly DEF C!PortalLogin

-----------------------------------------------------------------------------
(* Clients: customers are written.                                         *)

LEMMA CreateCustomerStep ==
  ASSUME C!ClientsAssumption, ClientsInv, NEW w \in Workers, NEW c \in Customers,
         NEW generated \in BOOLEAN, C!CreateCustomer(w, c, generated)
  PROVE  ClientsInv'
<1> DEFINE phone == clientTask[w].phone
           password == clientTask[w].password
<1>0. /\ phone \in Phones \cup Loose /\ password \in C!Numbers /\ clientTask[w].at = "create"
      /\ C!Who(w) = None /\ DOMAIN clientTask[w].rows = {} /\ clientTask[w] \in C!Task
  BY DEF ClientsInv, Employed, C!TypeOK, C!CreateCustomer, C!At
<1>1. /\ ~C!There(c) /\ ~C!Busy(c) BY DEF C!CreateCustomer, C!NewIds
<1>2. /\ customer' \in [Customers -> C!Customer \cup {C!NoCustomer}]
      /\ customer'[c].phone = phone /\ customer'[c].password = password
      /\ customer'[c] # C!NoCustomer
      /\ \A d \in Customers \ {c} : customer'[d] = customer[d]
      /\ UNCHANGED <<vehicle, session, told, imported, clientRequests>>
  BY <1>0 DEF C!CreateCustomer, ClientsInv, C!TypeOK, C!Customer, C!NoCustomer, C!ClientsAssumption
<1>3. /\ Others(w) /\ clientTask' \in [Workers -> C!Task]
      /\ \/ clientTask'[w] = C!NoTask
         \/ /\ clientTask'[w].at = "send" /\ clientTask'[w].who = c /\ clientTask'[w].phone = phone
            /\ clientTask'[w].password = password /\ clientTask'[w].rows = clientTask[w].rows
  <2>1. CASE C!Return(w) BY <2>1, NoClientTask DEF C!Return, Others, ClientsInv, C!TypeOK
  <2>2. CASE clientTask' = [clientTask EXCEPT ![w].at = "send", ![w].who = c]
    <3>1. clientTask' = [clientTask EXCEPT ![w] = [clientTask[w] EXCEPT !.at = "send", !.who = c]]
      BY <2>2, <1>0 DEF ClientsInv, C!TypeOK
    <3>2. PICK t \in C!Task : t = clientTask[w] BY <1>0
    <3>3. PICK s : s = [t EXCEPT !.at = "send", !.who = c] OBVIOUS
    <3>4. /\ s \in C!Task /\ s.at = "send" /\ s.who = c /\ s.phone = t.phone
          /\ s.password = t.password /\ s.rows = t.rows
      BY <3>3 DEF C!Task
    <3>5. clientTask' = [clientTask EXCEPT ![w] = s] BY <3>1, <3>2, <3>3
    <3> QED BY <3>2, <3>4, <3>5 DEF Others, ClientsInv, C!TypeOK
  <2> QED BY <2>1, <2>2 DEF C!CreateCustomer
<1>4. raced' \in SUBSET Customers /\ raced \subseteq raced' /\ (w \in clientOvertaken => c \in raced')
      /\ raced' \subseteq raced \cup {c}
  BY DEF C!CreateCustomer, ClientsInv, C!TypeOK
<1>5. clientOvertaken' = (clientOvertaken \cup C!Awaiting({phone})) \ {w}
  BY DEF C!CreateCustomer, C!Overtakes
<1>6. C!TypeOK'
  <2>1. clientOvertaken' \subseteq Workers BY <1>5 DEF C!Awaiting, ClientsInv, C!TypeOK
  <2> QED BY <1>2, <1>3, <1>4, <2>1 DEF ClientsInv, C!TypeOK
<1>7. WritesWithin(w, {phone})
  BY <1>2, <1>5 DEF WritesWithin
<1>8. Employed(w)' /\ WillSend(w)' /\ Sought(w)'
  <2>2. CASE clientTask'[w] = C!NoTask
    BY <2>2, NoClientTask DEF Employed, WillSend, Sought, C!At, C!Who, C!NoTask
  <2>3. CASE /\ clientTask'[w].at = "send" /\ clientTask'[w].who = c /\ clientTask'[w].phone = phone
             /\ clientTask'[w].password = password /\ clientTask'[w].rows = clientTask[w].rows
    <3> HIDE DEF phone, password
    <3> QED BY <1>0, <1>2, <2>3 DEF Employed, WillSend, Sought, C!At, C!Who
  <2> QED BY <1>3, <2>2, <2>3
<1>9. ASSUME NEW d \in Customers PROVE SendsStay(w, d) /\ OneJob(d)' /\ Told(d)'
  <2>1. SendsStay(w, d)
    BY <1>1, <1>2, <1>4 DEF SendsStay, C!Busy, C!There
  <2>2. OneJob(d)'
    <3>1. CASE d = c BY <1>1, <1>3, <3>1, OneJobStays
    <3>2. CASE d # c
      <4>1. C!Who(w)' # d BY <1>3, <3>2 DEF C!Who, C!NoTask, C!ClientsAssumption
      <4>2. C!There(d)' => C!There(d) BY <1>2, <3>2 DEF C!There
      <4> QED BY <1>3, <1>4, <4>1, <4>2, OneJobStays
    <3> QED BY <3>1, <3>2
  <2>3. Told(d)'
    BY <1>1, <1>2, <1>4 DEF Told, C!There, ClientsInv
  <2> QED BY <2>1, <2>2, <2>3
<1>10. PhonesApart'
  <2>1. Sought(w) /\ PhonesApart BY DEF ClientsInv
  <2>2. c \notin raced' => \A d \in Customers : phone \in Phones => customer[d].phone # phone
    BY <1>0, <1>4, <2>1 DEF Sought, C!Who, C!ClientsAssumption
  <2> QED BY <1>2, <1>4, <2>1, <2>2 DEF PhonesApart
<1>11. ImportedApart' BY <1>2 DEF ClientsInv, ImportedApart, C!Parked
<1> QED BY <1>3, <1>6, <1>7, <1>8, <1>9, <1>10, <1>11, ClientsStep

LEMMA UpdateCustomerStep ==
  ASSUME C!ClientsAssumption, ClientsInv, NEW w \in Workers, C!UpdateCustomer(w)
  PROVE  ClientsInv'
<1> DEFINE c == C!Who(w)
           t == clientTask[w]
           phone == IF t.phone = None THEN customer[c].phone ELSE t.phone
           password == IF t.password = None THEN customer[c].password ELSE t.password
<1>0. /\ c \in Customers /\ t.at = "update" /\ t \in C!Task /\ DOMAIN t.rows = {} /\ t.who = c
  BY DEF ClientsInv, Employed, C!TypeOK, C!UpdateCustomer, C!At, C!Who
<1>1. CASE ~C!There(c) BY <1>1, EndsUnwritten DEF C!UpdateCustomer, C!Ends
<1>2. CASE C!There(c)
  <2>1. /\ customer' = [customer EXCEPT ![c] =
                           [phone |-> phone, password |-> password, active |-> t.active]]
        /\ raced' = IF w \in clientOvertaken THEN raced \cup {c} ELSE raced
        /\ clientOvertaken' = (clientOvertaken \cup C!Awaiting({t.phone} \ {None})) \ {w}
        /\ \/ /\ t.password # None /\ told' = [told EXCEPT ![c] = None]
              /\ clientTask' = [clientTask EXCEPT ![w].at = "send", ![w].phone = phone]
           \/ t.password = None /\ C!Return(w) /\ told' = told
        /\ UNCHANGED <<vehicle, session, imported, clientRequests>>
    BY <1>2 DEF C!UpdateCustomer, C!Overtakes
  <2>2. customer[c] \in C!Customer /\ customer \in [Customers -> C!Customer \cup {C!NoCustomer}]
    BY <1>0, <1>2 DEF C!There, ClientsInv, C!TypeOK
  <2>3. phone \in Phones \cup Loose /\ password \in C!Numbers \cup {None}
    BY <1>0, <2>2 DEF C!Task, C!Customer
  <2>4. /\ customer' \in [Customers -> C!Customer \cup {C!NoCustomer}]
        /\ customer'[c].phone = phone /\ customer'[c].password = password
        /\ customer'[c] # C!NoCustomer
        /\ \A d \in Customers \ {c} : customer'[d] = customer[d]
    BY <1>0, <2>1, <2>2, <2>3 DEF C!Task, C!Customer, C!NoCustomer, C!ClientsAssumption
  <2>5. /\ Others(w) /\ clientTask' \in [Workers -> C!Task]
        /\ \/ clientTask'[w] = C!NoTask
           \/ /\ t.password # None
              /\ clientTask'[w].at = "send" /\ clientTask'[w].who = c /\ clientTask'[w].phone = phone
              /\ clientTask'[w].password = t.password /\ clientTask'[w].rows = t.rows
    <3>2. CASE C!Return(w) BY <3>2, NoClientTask DEF C!Return, Others, ClientsInv, C!TypeOK
    <3>3. CASE t.password # None /\ clientTask' = [clientTask EXCEPT ![w].at = "send", ![w].phone = phone]
      <4>1. clientTask' = [clientTask EXCEPT ![w] = [t EXCEPT !.at = "send", !.phone = phone]]
        BY <3>3, <1>0 DEF ClientsInv, C!TypeOK
      <4>2. PICK u \in C!Task : u = t BY <1>0
      <4>3. PICK s : s = [u EXCEPT !.at = "send", !.phone = phone] OBVIOUS
      <4>4. /\ s \in C!Task /\ s.at = "send" /\ s.who = u.who /\ s.phone = phone
            /\ s.password = u.password /\ s.rows = u.rows
        BY <2>3, <4>3 DEF C!Task
      <4>5. clientTask' = [clientTask EXCEPT ![w] = s] BY <4>1, <4>2, <4>3
      <4> QED BY <1>0, <3>3, <4>2, <4>4, <4>5 DEF Others, ClientsInv, C!TypeOK
    <3> QED BY <2>1, <3>2, <3>3
  <2>6. /\ raced' \in SUBSET Customers /\ raced \subseteq raced' /\ raced' \subseteq raced \cup {c}
        /\ (c \notin raced' => w \notin clientOvertaken)
    BY <1>0, <2>1 DEF ClientsInv, C!TypeOK
  <2>7. /\ told' \in [Customers -> [phone: Phones \cup Loose, password: C!Numbers] \cup {None}]
        /\ \A d \in Customers \ {c} : told'[d] = told[d]
        /\ told'[c] # None => told'[c] = told[c] /\ t.password = None
    BY <1>0, <2>1 DEF ClientsInv, C!TypeOK
  <2>8. C!TypeOK'
    <3>1. clientOvertaken' \subseteq Workers BY <2>1 DEF C!Awaiting, ClientsInv, C!TypeOK
    <3> QED BY <2>1, <2>4, <2>5, <2>6, <2>7, <3>1 DEF ClientsInv, C!TypeOK
  <2>9. WritesWithin(w, {t.phone} \ {None})
    BY <2>1, <2>4 DEF WritesWithin
  <2>10. Employed(w)' /\ WillSend(w)' /\ Sought(w)'
    <3>1. CASE clientTask'[w] = C!NoTask
      BY <3>1, NoClientTask DEF Employed, WillSend, Sought, C!At, C!Who, C!NoTask
    <3>2. CASE clientTask'[w].at = "send" /\ t.password # None
      <4>1. /\ clientTask'[w].at = "send" /\ clientTask'[w].who = c /\ clientTask'[w].phone = phone
            /\ clientTask'[w].password = t.password /\ clientTask'[w].rows = t.rows
        BY <2>5, <3>2 DEF C!NoTask
      <4>2. t.password \in C!Numbers BY <1>0, <3>2 DEF C!Task
      <4> HIDE DEF t, phone
      <4>3. C!Who(w)' = c BY <4>1 DEF C!Who
      <4>4. Employed(w)' BY <1>0, <2>3, <3>2, <4>1, <4>2, <4>3 DEF Employed, C!At
      <4>5. customer'[c].password = t.password BY <2>4, <3>2
      <4>6. WillSend(w)'
        BY <4>1, <4>5 DEF WillSend, C!Who
      <4> QED BY <3>2, <4>4, <4>6 DEF Sought
    <3> QED BY <2>5, <3>1, <3>2
  <2>11. ASSUME NEW d \in Customers PROVE SendsStay(w, d) /\ OneJob(d)' /\ Told(d)'
    <3>1. OneJob(d) /\ Told(d) BY DEF ClientsInv
    <3>2. C!There(d)' /\ d \notin raced' => C!There(d) /\ d \notin raced
      BY <1>2, <2>4, <2>6 DEF C!There
    <3>3. SendsStay(w, d)
      <4>1. CASE d # c BY <2>4, <3>2, <4>1 DEF SendsStay
      <4>2. CASE d = c
        BY <1>0, <3>1, <3>2, <4>2 DEF SendsStay, OneJob, C!At
      <4> QED BY <4>1, <4>2
    <3>4. OneJob(d)'
      <4>1. ~C!At(w, "drop") /\ C!Who(w)' \in {c, None}
        BY <1>0, <2>5 DEF C!At, C!Who, C!NoTask
      <4> QED BY <2>5, <3>2, <4>1, OneJobStays DEF C!ClientsAssumption
    <3>5. Told(d)'
      <4>1. CASE d # c BY <2>4, <2>6, <2>7, <3>1, <4>1 DEF Told, C!There
      <4>2. CASE d = c BY <1>2, <2>4, <2>6, <2>7, <3>1, <4>2 DEF Told, C!There
      <4> QED BY <4>1, <4>2
    <3> QED BY <3>3, <3>4, <3>5
  <2>12. PhonesApart'
    <3>1. Sought(w) /\ PhonesApart BY DEF ClientsInv
    <3>2. CASE t.phone \in Phones
      <4>1. c \notin raced' => \A d \in Customers \ {c} : customer[d].phone # phone
        BY <1>0, <2>6, <3>1, <3>2 DEF Sought, C!ClientsAssumption
      <4> QED BY <2>4, <2>6, <3>1, <4>1 DEF PhonesApart
    <3>3. CASE t.phone \in Loose
      <4>1. phone \notin Phones BY <3>3 DEF C!ClientsAssumption
      <4> QED BY <2>4, <2>6, <3>1, <4>1 DEF PhonesApart
    <3>4. CASE t.phone = None
      BY <2>4, <2>6, <3>1, <3>4 DEF PhonesApart
    <3> QED BY <1>0, <3>2, <3>3, <3>4 DEF C!Task
  <2>13. ImportedApart' BY <2>1 DEF ClientsInv, ImportedApart, C!Parked
  <2> QED BY <2>5, <2>8, <2>9, <2>10, <2>11, <2>12, <2>13, ClientsStep
<1> QED BY <1>1, <1>2

LEMMA SendCredentialsStep ==
  ASSUME C!ClientsAssumption, ClientsInv, NEW w \in Workers, NEW sent \in BOOLEAN,
         C!SendCredentials(w, sent)
  PROVE  ClientsInv'
<1> DEFINE c == C!Who(w)
<1>0. /\ c \in Customers /\ clientTask[w].at = "send" /\ clientTask[w].phone \in Phones \cup Loose
      /\ clientTask[w].password \in C!Numbers
  BY DEF ClientsInv, Employed, C!SendCredentials, C!At
<1>1. UNCHANGED <<customer, vehicle, session, clientOvertaken, raced, imported, clientRequests>> /\ C!Return(w)
  BY DEF C!SendCredentials
<1>2. /\ told' \in [Customers -> [phone: Phones \cup Loose, password: C!Numbers] \cup {None}]
      /\ \A d \in Customers \ {c} : told'[d] = told[d]
      /\ told'[c] # told[c] => C!There(c) /\ told'[c].password = clientTask[w].password
  BY <1>0 DEF ClientsInv, C!TypeOK, C!SendCredentials
<1>3. C!TypeOK' BY <1>1, <1>2, RequestEnds DEF ClientsInv, C!TypeOK
<1>4. WritesWithin(w, {}) BY <1>1 DEF WritesWithin, C!Awaiting
<1>5. ASSUME NEW d \in Customers PROVE SendsStay(w, d) /\ OneJob(d)' /\ Told(d)'
  <2>1. SendsStay(w, d) BY <1>1 DEF SendsStay, C!There
  <2>2. C!Who(w)' # d /\ (C!There(d)' => C!There(d))
    BY <1>1, RequestEnds DEF C!ClientsAssumption, C!There
  <2>3. Told(d)'
    <3>1. Told(d) /\ WillSend(w) BY DEF ClientsInv
    <3>2. CASE d = c BY <1>0, <1>1, <1>2, <3>1, <3>2 DEF Told, WillSend, C!There, C!At
    <3>3. CASE d # c BY <1>1, <1>2, <3>1, <3>3 DEF Told, C!There
    <3> QED BY <3>2, <3>3
  <2> QED BY <1>1, <2>1, <2>2, <2>3, RequestEnds, OneJobStays
<1>6. PhonesApart' /\ ImportedApart'
  BY <1>1 DEF ClientsInv, PhonesApart, ImportedApart, C!Parked
<1> QED BY <1>1, <1>3, <1>4, <1>5, <1>6, RequestEnds, ClientsStep

LEMMA WritePasswordStep ==
  ASSUME C!ClientsAssumption, ClientsInv, NEW w \in Workers, C!WritePassword(w)
  PROVE  ClientsInv'
<1> DEFINE c == C!Who(w)
           password == clientTask[w].password
<1>0. /\ c \in Customers /\ clientTask[w].at = "own" /\ password \in C!Numbers
  BY DEF ClientsInv, Employed, C!WritePassword, C!At
<1>1. UNCHANGED <<vehicle, session, clientOvertaken, raced, imported, clientRequests>> /\ C!Return(w)
  BY DEF C!WritePassword
<1>2. CASE ~C!There(c) BY <1>1, <1>2, EndsUnwritten DEF C!WritePassword
<1>3. CASE C!There(c)
  <2>1. /\ customer' = [customer EXCEPT ![c].password = password]
        /\ told' = [told EXCEPT ![c] = [phone |-> customer[c].phone, password |-> password]]
    BY <1>3 DEF C!WritePassword
  <2>2. customer[c] \in C!Customer BY <1>0, <1>3 DEF C!There, ClientsInv, C!TypeOK
  <2>3. /\ customer' \in [Customers -> C!Customer \cup {C!NoCustomer}]
        /\ customer'[c].phone = customer[c].phone /\ customer'[c].password = password
        /\ customer'[c] # C!NoCustomer
        /\ \A d \in Customers \ {c} : customer'[d] = customer[d]
    <3>1. customer \in [Customers -> C!Customer \cup {C!NoCustomer}] BY DEF ClientsInv, C!TypeOK
    <3>2. customer' = [customer EXCEPT ![c] = [customer[c] EXCEPT !.password = password]]
      BY <2>1, <1>0, <3>1
    <3> QED BY <1>0, <2>2, <3>1, <3>2 DEF C!Customer, C!NoCustomer, C!ClientsAssumption
  <2>4. /\ told' \in [Customers -> [phone: Phones \cup Loose, password: C!Numbers] \cup {None}]
        /\ \A d \in Customers \ {c} : told'[d] = told[d]
        /\ told'[c].password = password
    BY <1>0, <2>1, <2>2 DEF ClientsInv, C!TypeOK, C!Customer
  <2>5. C!TypeOK' BY <1>1, <2>3, <2>4, RequestEnds DEF ClientsInv, C!TypeOK
  <2>6. WritesWithin(w, {}) BY <1>1, <2>3 DEF WritesWithin, C!Awaiting
  <2>7. ASSUME NEW d \in Customers PROVE SendsStay(w, d) /\ OneJob(d)' /\ Told(d)'
    <3>1. C!There(d)' <=> C!There(d) BY <1>3, <2>3 DEF C!There
    <3>2. OneJob(d) /\ Told(d) BY DEF ClientsInv
    <3>3. SendsStay(w, d)
      <4>1. CASE d # c BY <1>1, <2>3, <3>1, <4>1 DEF SendsStay
      <4>2. CASE d = c BY <1>0, <1>1, <3>1, <3>2, <4>2 DEF SendsStay, OneJob, C!At
      <4> QED BY <4>1, <4>2
    <3>4. C!Who(w)' # d BY <1>1, RequestEnds DEF C!ClientsAssumption
    <3>5. OneJob(d)' BY <1>1, <3>1, <3>4, RequestEnds, OneJobStays
    <3>6. Told(d)' BY <1>1, <1>3, <2>3, <2>4, <3>1, <3>2 DEF Told
    <3> QED BY <3>3, <3>5, <3>6
  <2>8. PhonesApart'
    <3>1. \A d \in Customers : customer'[d].phone = customer[d].phone BY <2>3
    <3> QED BY <1>1, <3>1 DEF ClientsInv, PhonesApart
  <2>9. ImportedApart' BY <1>1 DEF ClientsInv, ImportedApart, C!Parked
  <2> QED BY <1>1, <2>5, <2>6, <2>7, <2>8, <2>9, RequestEnds, ClientsStep
<1> QED BY <1>2, <1>3

LEMMA DeleteCustomerStep ==
  ASSUME C!ClientsAssumption, ClientsInv, NEW w \in Workers, NEW c \in Customers,
         C!DeleteCustomer(w, c)
  PROVE  ClientsInv'
<1> DEFINE t == [C!NoTask EXCEPT !.at = "drop", !.who = c]
<1>1. t \in C!Task /\ t.at = "drop" /\ t.who = c /\ t.rows = C!NoTask.rows
  BY NoClientTask DEF C!Task, C!NoTask
<1>2. Others(w) /\ clientTask'[w] = t /\ clientTask' \in [Workers -> C!Task] /\ clientTask[w].at = "idle"
  BY <1>1 DEF C!DeleteCustomer, Others, C!Request, C!At, ClientsInv, C!TypeOK
<1> HIDE DEF t
<1>3. /\ vehicle' \in [Vehicles -> C!Vehicle \cup {C!NoVehicle}]
      /\ imported' \subseteq imported
      /\ \A v \in Vehicles : vehicle'[v] \in {vehicle[v], C!NoVehicle}
      /\ \A v \in imported' : vehicle'[v] = vehicle[v]
      /\ clientRequests' \in 0..MaxRequests
      /\ UNCHANGED <<customer, session, told, clientOvertaken, raced>>
  BY DEF C!DeleteCustomer, C!Request, ClientsInv, C!TypeOK, C!ClientsAssumption
<1>4. C!TypeOK' BY <1>2, <1>3 DEF ClientsInv, C!TypeOK
<1>5. WritesWithin(w, {}) BY <1>3 DEF WritesWithin, C!Awaiting, C!NoVehicle
<1>6. Employed(w)' /\ WillSend(w)' /\ Sought(w)'
  BY <1>1, <1>2, NoClientTask DEF Employed, WillSend, Sought, C!At, C!Who
<1>7. ASSUME NEW d \in Customers PROVE SendsStay(w, d) /\ OneJob(d)' /\ Told(d)'
  <2>1. C!At(w, "drop")' BY <1>1, <1>2 DEF C!At
  <2>2. C!There(d)' <=> C!There(d) BY <1>3 DEF C!There
  <2>3. SendsStay(w, d) /\ Told(d)' BY <1>3, <2>2 DEF SendsStay, Told, ClientsInv
  <2> QED BY <1>2, <1>3, <2>1, <2>2, <2>3, OneJobStays
<1>8. PhonesApart' /\ ImportedApart'
  BY <1>3 DEF ClientsInv, PhonesApart, ImportedApart, C!Parked
<1> QED BY <1>2, <1>4, <1>5, <1>6, <1>7, <1>8, ClientsStep

LEMMA DropCustomerStep ==
  ASSUME C!ClientsAssumption, ClientsInv, NEW w \in Workers, C!DropCustomer(w)
  PROVE  ClientsInv'
<1> DEFINE c == C!Who(w)
<1>0. c \in Customers BY DEF ClientsInv, Employed, C!DropCustomer, C!At
<1>1. /\ customer' \in [Customers -> C!Customer \cup {C!NoCustomer}]
      /\ customer'[c] = C!NoCustomer /\ \A d \in Customers \ {c} : customer'[d] = customer[d]
      /\ vehicle' \in [Vehicles -> C!Vehicle \cup {C!NoVehicle}]
      /\ imported' \subseteq imported
      /\ \A v \in Vehicles : vehicle'[v] \in {vehicle[v], C!NoVehicle}
      /\ \A v \in imported' : vehicle'[v] = vehicle[v]
      /\ told' = [told EXCEPT ![c] = None] /\ raced' = raced \ {c} /\ session' = session \ {c}
      /\ UNCHANGED <<clientOvertaken, clientRequests>> /\ C!Return(w)
  BY <1>0 DEF C!DropCustomer, ClientsInv, C!TypeOK
<1>2. C!TypeOK' BY <1>0, <1>1, RequestEnds DEF ClientsInv, C!TypeOK
<1>3. WritesWithin(w, {}) BY <1>1 DEF WritesWithin, C!Awaiting, C!NoVehicle, C!NoCustomer
<1>4. ASSUME NEW d \in Customers PROVE SendsStay(w, d) /\ OneJob(d)' /\ Told(d)'
  <2>1. CASE d = c
    <3>1. ~C!There(d)' BY <1>1, <2>1 DEF C!There
    <3>2. told'[d] = None BY <1>0, <1>1, <2>1 DEF ClientsInv, C!TypeOK
    <3> QED BY <1>1, <3>1, <3>2, RequestEnds, OneJobStays DEF SendsStay, Told
  <2>2. CASE d # c
    <3>1. (C!There(d)' <=> C!There(d)) /\ (d \in raced' <=> d \in raced) /\ told'[d] = told[d]
          /\ customer'[d] = customer[d]
      BY <1>0, <1>1, <2>2 DEF C!There, ClientsInv, C!TypeOK
    <3>2. C!Who(w)' # d BY <1>1, RequestEnds DEF C!ClientsAssumption
    <3>3. OneJob(d)' BY <1>1, <3>1, <3>2, RequestEnds, OneJobStays
    <3> QED BY <3>1, <3>3 DEF SendsStay, Told, ClientsInv
  <2> QED BY <2>1, <2>2
<1>5. PhonesApart'
  <2>1. \A d \in Customers \ raced' : customer'[d].phone \in Phones =>
         d # c /\ customer'[d] = customer[d]
    BY <1>1 DEF C!NoCustomer, C!ClientsAssumption
  <2>2. \A d \in Customers \ raced' : d # c => d \in Customers \ raced /\ customer'[d] = customer[d]
    BY <1>1
  <2>3. \A d \in Customers \ raced' : d = c => customer'[d].phone \notin Phones
    BY <1>1 DEF C!NoCustomer, C!ClientsAssumption
  <2> QED BY <2>1, <2>2, <2>3 DEF ClientsInv, PhonesApart
<1>6. ImportedApart' BY <1>1 DEF ClientsInv, ImportedApart, C!Parked
<1> QED BY <1>1, <1>2, <1>3, <1>4, <1>5, <1>6, RequestEnds, ClientsStep

\* What an import writes: each place of it one row.
LEMMA EachPlaced ==
  ASSUME NEW places, NEW S, NEW ids \in C!Injection(places, S)
  PROVE  /\ C!Range(ids) \subseteq S /\ \A i \in places : ids[i] \in C!Range(ids)
         /\ \A x \in C!Range(ids) :
              C!AntiFunction(ids)[x] \in places /\ ids[C!AntiFunction(ids)[x]] = x
         /\ \A x, y \in C!Range(ids) : x # y => C!AntiFunction(ids)[x] # C!AntiFunction(ids)[y]
<1>1. ids \in [places -> S] /\ DOMAIN ids = places BY DEF C!Injection
<1>2. C!Range(ids) \subseteq S /\ \A i \in places : ids[i] \in C!Range(ids) BY <1>1 DEF C!Range
<1>3. ASSUME NEW x \in C!Range(ids)
      PROVE  C!AntiFunction(ids)[x] \in places /\ ids[C!AntiFunction(ids)[x]] = x
  <2>1. \E i \in places : ids[i] = x BY <1>1 DEF C!Range
  <2>2. C!AntiFunction(ids)[x] = CHOOSE i \in places : x \in C!Range(ids) => ids[i] = x
    BY <1>1, <1>3 DEF C!AntiFunction, C!Inverse
  <2> QED BY <1>3, <2>1, <2>2
<1> QED BY <1>2, <1>3

LEMMA CreateCustomersStep ==
  ASSUME C!ClientsAssumption, ClientsInv, NEW w \in Workers, NEW ids, C!CreateCustomers(w, ids)
  PROVE  ClientsInv'
<1> DEFINE phones == clientTask[w].rows
           new == C!Range(ids)
           at == C!AntiFunction(ids)
           written == C!Range(phones)
<1>0. phones \in C!Kept(Phones) /\ \A i \in DOMAIN phones : phones[i] \in Phones
  BY DEF ClientsInv, Employed, C!CreateCustomers, C!Kept
<1>1. /\ new \subseteq C!NewIds
      /\ \A x \in new : at[x] \in DOMAIN phones
      /\ \A x, y \in new : x # y => at[x] # at[y]
  BY EachPlaced DEF C!CreateCustomers
<1>2. /\ customer' = [c \in Customers |-> IF c \in new
                        THEN [phone |-> phones[at[c]], password |-> None, active |-> TRUE]
                        ELSE customer[c]]
      /\ raced' = IF w \in clientOvertaken THEN raced \cup new ELSE raced
      /\ clientOvertaken' = (clientOvertaken \cup C!Awaiting(written)) \ {w}
      /\ C!Return(w)
      /\ UNCHANGED <<vehicle, session, told, imported, clientRequests>>
  BY DEF C!CreateCustomers, C!Overtakes
<1>w. \A i \in DOMAIN phones : phones[i] \in written BY DEF C!Range
<1> HIDE DEF new, at, written
<1>3. new \subseteq Customers /\ \A c \in new : ~C!There(c) /\ ~C!Busy(c) BY <1>1 DEF C!NewIds
<1>4. /\ \A c \in new : customer'[c].phone = phones[at[c]] /\ customer'[c] # C!NoCustomer
                        /\ phones[at[c]] \in Phones /\ customer'[c] \in C!Customer
      /\ \A c \in Customers \ new : customer'[c] = customer[c]
      /\ customer' \in [Customers -> C!Customer \cup {C!NoCustomer}]
  <2>1. \A c \in new : phones[at[c]] \in Phones BY <1>0, <1>1
  <2> HIDE DEF phones
  <2>2. \A c \in new : customer'[c] = [phone |-> phones[at[c]], password |-> None, active |-> TRUE]
    BY <1>2, <1>3
  <2>3. ASSUME NEW c \in new
        PROVE  /\ customer'[c].phone = phones[at[c]] /\ customer'[c] \in C!Customer
               /\ customer'[c].phone # None
    <3>1. PICK phone \in Phones : phone = phones[at[c]] BY <2>1
    <3>2. customer'[c] = [phone |-> phone, password |-> None, active |-> TRUE] BY <2>2, <3>1
    <3> QED BY <3>1, <3>2 DEF C!Customer, C!ClientsAssumption
  <2>4. \A c \in Customers \ new : customer'[c] = customer[c] BY <1>2
  <2>5. \A c \in Customers : customer'[c] \in C!Customer \cup {C!NoCustomer}
    BY <2>3, <2>4 DEF ClientsInv, C!TypeOK
  <2> QED BY <1>2, <2>1, <2>3, <2>4, <2>5 DEF C!NoCustomer
<1>5. C!TypeOK'
  <2>1. clientOvertaken' \subseteq Workers /\ raced' \subseteq Customers
    BY <1>2, <1>3 DEF C!Awaiting, ClientsInv, C!TypeOK
  <2> QED BY <1>2, <1>4, <2>1, RequestEnds DEF ClientsInv, C!TypeOK
<1>6. WritesWithin(w, written)
  <2>1. \A c \in new : customer'[c].phone \in written BY <1>1, <1>4, <1>w
  <2> QED BY <1>2, <1>4, <2>1 DEF WritesWithin
<1>7. ASSUME NEW c \in Customers PROVE SendsStay(w, c) /\ OneJob(c)' /\ Told(c)'
  <2>1. Told(c) BY DEF ClientsInv
  <2>2. CASE c \in new
    <3>1. OneJob(c)' BY <1>2, <1>3, <2>2, RequestEnds, OneJobStays
    <3> QED BY <1>2, <1>3, <2>1, <2>2, <3>1 DEF SendsStay, Told, C!Busy
  <2>3. CASE c \notin new
    <3>1. /\ C!There(c)' <=> C!There(c)
          /\ c \in raced' <=> c \in raced
          /\ customer'[c] = customer[c]
      BY <1>2, <1>4, <2>3 DEF C!There
    <3>2. C!Who(w)' # c BY <1>2, RequestEnds DEF C!ClientsAssumption
    <3>3. OneJob(c)' BY <1>2, <3>1, <3>2, RequestEnds, OneJobStays
    <3> QED BY <1>2, <2>1, <3>1, <3>3 DEF SendsStay, Told
  <2> QED BY <2>2, <2>3
<1>8. PhonesApart'
  <2>1. Sought(w) /\ PhonesApart /\ clientTask[w].at = "customers"
    BY DEF ClientsInv, C!CreateCustomers, C!At
  <2>2. CASE w \in clientOvertaken
    <3>1. \A c \in Customers \ raced' : c \notin raced /\ customer'[c] = customer[c]
      BY <1>2, <1>4, <2>2
    <3> QED BY <2>1, <3>1 DEF PhonesApart
  <2>3. CASE w \notin clientOvertaken
    <3>1. /\ \A i, j \in DOMAIN phones : i # j => phones[i] # phones[j]
          /\ \A i \in DOMAIN phones : \A c \in Customers : customer[c].phone # phones[i]
      BY <2>1, <2>3 DEF Sought
    <3> HIDE DEF phones
    <3>2. raced' = raced BY <1>2, <2>3
    <3>3. ASSUME NEW c \in Customers \ raced, NEW d \in Customers \ raced, c # d,
                 customer'[c].phone \in Phones
          PROVE  customer'[c].phone # customer'[d].phone
      <4>1. CASE c \in new /\ d \in new BY <1>1, <1>4, <3>1, <3>3, <4>1
      <4>2. CASE c \in new /\ d \notin new BY <1>1, <1>4, <3>1, <4>2
      <4>3. CASE c \notin new /\ d \in new BY <1>1, <1>4, <3>1, <4>3
      <4>4. CASE c \notin new /\ d \notin new BY <1>4, <2>1, <3>3, <4>4 DEF PhonesApart
      <4> QED BY <4>1, <4>2, <4>3, <4>4
    <3> QED BY <3>2, <3>3 DEF PhonesApart
  <2> QED BY <2>2, <2>3
<1>9. ImportedApart' BY <1>2 DEF ClientsInv, ImportedApart, C!Parked
<1> QED BY <1>2, <1>5, <1>6, <1>7, <1>8, <1>9, RequestEnds, ClientsStep

-----------------------------------------------------------------------------
(* Clients: vehicles are written.                                          *)

LEMMA VehicleStep ==
  ASSUME C!ClientsAssumption, ClientsInv, NEW w \in Workers, NEW written,
         vehicle' \in [Vehicles -> C!Vehicle \cup {C!NoVehicle}],
         \A v \in Vehicles : vehicle'[v].plate \in {vehicle[v].plate, None} \cup written,
         imported' \subseteq Vehicles, ImportedApart',
         clientOvertaken \cup C!Awaiting(written) \subseteq clientOvertaken' \cup {w},
         clientOvertaken' \subseteq Workers,
         UNCHANGED <<customer, session, told, raced>>, clientRequests' \in 0..MaxRequests,
         C!Return(w) \/ (UNCHANGED clientTask /\ C!At(w, "idle"))
  PROVE  ClientsInv'
<1>1. /\ Others(w) /\ Employed(w)' /\ WillSend(w)' /\ Sought(w)' /\ clientTask' \in [Workers -> C!Task]
      /\ \A c \in Customers : C!Who(w)' # c
  <2>1. CASE C!Return(w) BY <2>1, RequestEnds DEF C!ClientsAssumption
  <2>2. CASE UNCHANGED clientTask /\ C!At(w, "idle")
    <3>1. Employed(w) /\ clientTask[w].at = "idle" BY <2>2 DEF ClientsInv, C!At
    <3>2. Employed(w)' /\ clientTask'[w].at = "idle" /\ clientTask'[w].who = None
      BY <2>2, <3>1 DEF Employed, C!At, C!Who
    <3> QED
      BY <2>2, <3>2
      DEF WillSend, Sought, C!At, C!Who, Others, ClientsInv, C!TypeOK, C!ClientsAssumption
  <2> QED BY <2>1, <2>2
<1>2. C!TypeOK' BY <1>1 DEF ClientsInv, C!TypeOK
<1>3. WritesWithin(w, written) BY DEF WritesWithin
<1>4. ASSUME NEW c \in Customers PROVE SendsStay(w, c) /\ OneJob(c)' /\ Told(c)'
  <2>1. C!There(c)' <=> C!There(c) BY DEF C!There
  <2>2. OneJob(c)' BY <1>1, <2>1, OneJobStays
  <2> QED BY <2>1, <2>2 DEF SendsStay, Told, ClientsInv
<1>5. PhonesApart' BY DEF ClientsInv, PhonesApart
<1> QED BY <1>1, <1>2, <1>3, <1>4, <1>5, ClientsStep

LEMMA SaveVehicleStep ==
  ASSUME C!ClientsAssumption, ClientsInv, NEW w \in Workers, NEW v \in Vehicles,
         NEW entry \in C!Vehicle,
         C!SaveVehicle(w, v, entry)
  PROVE  ClientsInv'
<1>1. /\ vehicle' \in [Vehicles -> C!Vehicle \cup {C!NoVehicle}]
      /\ vehicle'[v] = entry /\ \A x \in Vehicles \ {v} : vehicle'[x] = vehicle[x]
      /\ imported' = imported \ {v} /\ clientOvertaken' = (clientOvertaken \cup C!Awaiting({entry.plate})) \ {w}
      /\ clientRequests' \in 0..MaxRequests /\ UNCHANGED <<customer, session, clientTask, told, raced>>
      /\ C!At(w, "idle")
  BY DEF C!SaveVehicle, C!Overtakes, C!Request, ClientsInv, C!TypeOK, C!ClientsAssumption
<1>2. ImportedApart' BY <1>1 DEF ClientsInv, C!TypeOK, ImportedApart, C!Parked
<1>3. imported' \subseteq Vehicles /\ clientOvertaken' \subseteq Workers
  BY <1>1 DEF ClientsInv, C!TypeOK, C!Awaiting
<1> QED BY <1>1, <1>2, <1>3, VehicleStep

LEMMA RemoveVehicleStep ==
  ASSUME C!ClientsAssumption, ClientsInv, NEW w \in Workers, NEW v \in Vehicles,
         C!RemoveVehicle(w, v)
  PROVE  ClientsInv'
<1>1. /\ vehicle' \in [Vehicles -> C!Vehicle \cup {C!NoVehicle}]
      /\ vehicle'[v] = C!NoVehicle /\ \A x \in Vehicles \ {v} : vehicle'[x] = vehicle[x]
      /\ imported' = imported \ {v}
      /\ clientRequests' \in 0..MaxRequests
      /\ UNCHANGED <<customer, session, clientTask, told, raced, clientOvertaken>>
      /\ C!At(w, "idle")
  BY DEF C!RemoveVehicle, C!Request, ClientsInv, C!TypeOK, C!ClientsAssumption
<1>2. ImportedApart' BY <1>1 DEF ClientsInv, C!TypeOK, ImportedApart, C!Parked
<1>3. imported' \subseteq Vehicles /\ clientOvertaken' \subseteq Workers /\ C!Awaiting({}) = {}
  BY <1>1 DEF ClientsInv, C!TypeOK, C!Awaiting
<1>4. \A x \in Vehicles : vehicle'[x].plate \in {vehicle[x].plate, None} \cup {}
  BY <1>1 DEF C!NoVehicle
<1> QED BY <1>1, <1>2, <1>3, <1>4, VehicleStep

LEMMA CreateVehiclesStep ==
  ASSUME C!ClientsAssumption, ClientsInv, NEW w \in Workers, NEW ids, C!CreateVehicles(w, ids)
  PROVE  ClientsInv'
<1> DEFINE batch == clientTask[w].rows
           new == C!Range(ids)
           at == C!AntiFunction(ids)
           written == {batch[i].plate : i \in DOMAIN batch}
<1>0. /\ \A i \in DOMAIN batch : batch[i] \in C!Vehicle
      /\ clientTask[w].at = "vehicles" /\ C!Return(w)
      /\ UNCHANGED <<customer, session, told, raced, clientRequests>>
  BY DEF ClientsInv, Employed, C!CreateVehicles, C!Kept, C!At
<1>1. /\ new \subseteq {v \in Vehicles : ~C!Parked(v)}
      /\ \A x \in new : at[x] \in DOMAIN batch
      /\ \A x, y \in new : x # y => at[x] # at[y]
  BY EachPlaced DEF C!CreateVehicles
<1>2. CASE \A i \in DOMAIN batch : C!There(batch[i].owner)
  <2>1. /\ vehicle' = [v \in Vehicles |-> IF v \in new THEN batch[at[v]] ELSE vehicle[v]]
        /\ imported' = IF w \in clientOvertaken THEN imported ELSE imported \cup new
        /\ clientOvertaken' = (clientOvertaken \cup C!Awaiting(written)) \ {w}
    BY <1>2 DEF C!CreateVehicles, C!Overtakes
  <2>w. \A i \in DOMAIN batch : batch[i].plate \in written OBVIOUS
  <2> HIDE DEF new, at, written
  <2>2. /\ \A v \in new : vehicle'[v] = batch[at[v]] /\ at[v] \in DOMAIN batch
                          /\ vehicle'[v].plate \in written /\ vehicle'[v] \in C!Vehicle
                          /\ ~C!Parked(v)
        /\ \A v \in Vehicles \ new : vehicle'[v] = vehicle[v]
        /\ vehicle' \in [Vehicles -> C!Vehicle \cup {C!NoVehicle}]
    BY <1>0, <1>1, <2>1, <2>w DEF ClientsInv, C!TypeOK
  <2>3. ImportedApart /\ Sought(w) /\ imported \subseteq Vehicles BY DEF ClientsInv, C!TypeOK
  <2>4. imported \cap new = {} BY <1>1, <2>3 DEF ImportedApart
  <2>5. \A v \in new : vehicle'[v] # C!NoVehicle
    BY <2>2 DEF C!Vehicle, C!NoVehicle, C!ClientsAssumption
  <2>6. ImportedApart'
    <3>1. CASE w \in clientOvertaken BY <2>1, <2>2, <2>3, <2>4, <3>1 DEF ImportedApart, C!Parked
    <3>2. CASE w \notin clientOvertaken
      <4>1. /\ \A i, j \in DOMAIN batch : i # j => batch[i].plate # batch[j].plate
            /\ \A i \in DOMAIN batch : \A v \in Vehicles : vehicle[v].plate # batch[i].plate
        BY <1>0, <2>3, <3>2 DEF Sought
      <4> HIDE DEF batch
      <4>2. imported' = imported \cup new BY <2>1, <3>2
      <4>3. \A v \in imported : vehicle'[v] = vehicle[v] BY <2>2, <2>3, <2>4
      <4>4. ASSUME NEW u \in imported', NEW v \in imported', u # v
            PROVE  vehicle'[u].plate # vehicle'[v].plate
        <5>1. CASE u \in new /\ v \in new BY <1>1, <2>2, <4>1, <4>4, <5>1
        <5>2. CASE u \in new /\ v \in imported BY <2>2, <2>3, <4>1, <4>3, <5>2
        <5>3. CASE u \in imported /\ v \in new BY <2>2, <2>3, <4>1, <4>3, <5>3
        <5>4. CASE u \in imported /\ v \in imported BY <2>3, <4>3, <4>4, <5>4 DEF ImportedApart
        <5> QED BY <4>2, <5>1, <5>2, <5>3, <5>4
      <4>5. \A v \in imported' : C!Parked(v)'
        BY <2>3, <2>5, <4>2, <4>3 DEF ImportedApart, C!Parked
      <4> QED BY <4>4, <4>5 DEF ImportedApart
    <3> QED BY <3>1, <3>2
  <2>7. /\ imported' \subseteq Vehicles /\ clientOvertaken' \subseteq Workers
        /\ clientOvertaken \cup C!Awaiting(written) \subseteq clientOvertaken' \cup {w}
    BY <1>1, <2>1, <2>3 DEF ClientsInv, C!TypeOK, C!Awaiting
  <2>8. \A v \in Vehicles : vehicle'[v].plate \in {vehicle[v].plate, None} \cup written
    BY <2>2
  <2>9. clientRequests' \in 0..MaxRequests BY <1>0 DEF ClientsInv, C!TypeOK
  <2> HIDE DEF batch
  <2> QED BY <1>0, <2>2, <2>6, <2>7, <2>8, <2>9, VehicleStep
<1>3. CASE ~\A i \in DOMAIN batch : C!There(batch[i].owner)
  BY <1>0, <1>3, EndsUnwritten DEF C!CreateVehicles, C!Ends
<1> QED BY <1>2, <1>3

LEMMA ReplaceVehiclesStep ==
  ASSUME C!ClientsAssumption, ClientsInv, NEW w \in Workers, C!ReplaceVehicles(w)
  PROVE  ClientsInv'
<1> DEFINE fleet == clientTask[w].fleet
           written == {fleet[v].plate : v \in Vehicles} \ {None}
<1>0. /\ fleet \in [Vehicles -> C!Vehicle \cup {C!NoVehicle}]
      /\ C!Return(w) /\ UNCHANGED <<customer, session, told, raced, clientRequests>>
  BY DEF ClientsInv, C!TypeOK, C!Task, C!ReplaceVehicles
<1>1. CASE vehicle' = fleet /\ imported' = {} /\ C!Overtakes(w, written)
  <2>1. ImportedApart' BY <1>1 DEF ImportedApart
  <2>2. /\ imported' \subseteq Vehicles /\ clientOvertaken' \subseteq Workers
        /\ clientOvertaken \cup C!Awaiting(written) \subseteq clientOvertaken' \cup {w}
    BY <1>1 DEF C!Overtakes, C!Awaiting, ClientsInv, C!TypeOK
  <2>3. \A v \in Vehicles : vehicle'[v].plate \in {vehicle[v].plate, None} \cup written
    BY <1>1
  <2>4. clientRequests' \in 0..MaxRequests BY <1>0 DEF ClientsInv, C!TypeOK
  <2> HIDE DEF written
  <2> QED BY <1>0, <1>1, <2>1, <2>2, <2>3, <2>4, VehicleStep
<1>2. CASE UNCHANGED <<vehicle, imported, clientOvertaken>>
  BY <1>0, <1>2, EndsUnwritten
<1> QED BY <1>1, <1>2 DEF C!ReplaceVehicles

-----------------------------------------------------------------------------
(* Clients: every step, and the theorems.                                  *)

LEMMA ClientsNext == ASSUME C!ClientsAssumption PROVE ClientsInv /\ [C!Next]_(C!vars) => ClientsInv'
<1> SUFFICES ASSUME ClientsInv, [C!Next]_(C!vars) PROVE ClientsInv' OBVIOUS
<1>1. CASE UNCHANGED C!vars
  <2> USE <1>1 DEF C!vars
  <2>1. C!TypeOK' BY DEF ClientsInv, C!TypeOK
  <2>2. \A w \in Workers : Employed(w)' /\ WillSend(w)' /\ Sought(w)'
    BY DEF ClientsInv, Employed, WillSend, Sought, C!At, C!Who, C!There
  <2>3. \A c \in Customers : OneJob(c)' /\ Told(c)'
    BY DEF ClientsInv, OneJob, Told, C!At, C!Who, C!There
  <2>4. PhonesApart' /\ ImportedApart' BY DEF ClientsInv, PhonesApart, ImportedApart, C!Parked
  <2> QED BY <2>1, <2>2, <2>3, <2>4 DEF ClientsInv
<1>2. CASE C!Next
  <2>1. PICK w \in Workers :
    \/ \E phone \in Phones \cup Loose : C!PostCustomer(w, phone)
    \/ \E c \in Customers :
         \/ \E phone \in Phones \cup Loose \cup {None}, reset, active \in BOOLEAN :
              C!PutCustomer(w, c, phone, reset, active)
         \/ \E generated \in BOOLEAN : C!CreateCustomer(w, c, generated)
         \/ C!DeleteCustomer(w, c) \/ C!SetPassword(w, c) \/ C!PortalLogin(c)
    \/ \E phones \in C!Batches(Phones \cup Loose) : C!BulkCustomers(w, phones)
    \/ \E ids \in [DOMAIN clientTask[w].rows -> Customers] : C!CreateCustomers(w, ids)
    \/ \E sent \in BOOLEAN : C!SendCredentials(w, sent)
    \/ \E v \in Vehicles :
         C!RemoveVehicle(w, v) \/ \E entry \in C!Vehicle : C!SaveVehicle(w, v, entry)
    \/ \E batch \in C!Batches(C!Vehicle) : C!BulkVehicles(w, batch)
    \/ \E ids \in [DOMAIN clientTask[w].rows -> Vehicles] : C!CreateVehicles(w, ids)
    \/ \E fleet \in C!Fleets : C!PostSnapshot(w, fleet)
    \/ C!UpdateCustomer(w) \/ C!DropCustomer(w) \/ C!WritePassword(w) \/ C!ReplaceVehicles(w)
    \/ C!Fail(w)
    BY <1>2 DEF C!Next
  <2> QED
    BY <2>1, PostCustomerStep, PutCustomerStep, CreateCustomerStep, DeleteCustomerStep,
       SetPasswordStep, PortalLoginStep, BulkCustomersStep, CreateCustomersStep,
       SendCredentialsStep, RemoveVehicleStep, SaveVehicleStep, BulkVehiclesStep,
       CreateVehiclesStep, PostFleetStep, UpdateCustomerStep, DropCustomerStep,
       WritePasswordStep, ReplaceVehiclesStep, ClientFailsStep
<1> QED BY <1>1, <1>2

\* What a request of a customer has looked for, written or sent still holds when
\* it goes on, or it was overtaken (createCustomer, updateCustomer, imports).
THEOREM ClientsInvariance == ASSUME C!ClientsAssumption PROVE C!Spec => []ClientsInv
BY ClientsInit, ClientsNext, PTL DEF C!Spec

\* A customer gets into the portal with what was sent or chosen last, and no other
\* row has the phone (authenticateCustomer takes the first one), but where two
\* requests were at work on the row or one went by an old look.
THEOREM CustomersGetIn ==
  /\ C!Spec => []C!PortalOpens
  /\ OfficeSpec => []PortalOpens
<1>1. ClientsInv => C!PortalOpens
  BY DEF ClientsInv, C!PortalOpens, PhonesApart, Told
<1>2. C!Spec => []ClientsInv
  BY OfficeAssumption, ClientsInvariance, PTL DEF OfficeAssumption
<1>3. C!PortalOpens => PortalOpens
  BY DEF PortalOpens
<1> QED
  BY <1>1, <1>2, <1>3, EachPartRuns, PTL

\* Vehicles that imports have added have different plates (createVehiclesBulk),
\* until one is saved by itself, unless the import was overtaken.
THEOREM ImportsApart ==
  /\ C!Spec => []C!ImportsStayApart
  /\ OfficeSpec => []ImportsStayApart
<1>1. ClientsInv => C!ImportsStayApart
  BY DEF ClientsInv, C!ImportsStayApart, ImportedApart
<1>2. C!Spec => []ClientsInv
  BY OfficeAssumption, ClientsInvariance, PTL DEF OfficeAssumption
<1>3. C!ImportsStayApart => ImportsStayApart
  BY DEF ImportsStayApart
<1> QED
  BY <1>1, <1>2, <1>3, EachPartRuns, PTL

-----------------------------------------------------------------------------
(* Wallet: the inductive invariant.                                        *)

\* A request is about the invoice its browser has open, and a balance that was
\* read was not negative.
Saving(b) == walletTask[b].at \in {"settle", "write", "store"}
Formed(b) ==
  /\ IF Saving(b) THEN W!Mine(b) \in Invoices /\ W!Mine(b) = copy[b].invoice ELSE W!Mine(b) = None
  /\ walletTask[b].balance >= 0

\* One browser has the invoice open.
OneBrowser(i) == \A b, c \in Workers : copy[b].invoice = i /\ copy[c].invoice = i => b = c

\* What is stored: every payment with its stamp.
Stands(i) ==
  /\ stored[i].state # "deleted"
  /\ stored[i].state = "none" => stored[i].content = W!Blank
  /\ stored[i].content.stamped = stored[i].content.payments

\* The rows are those of this content.
Booked(i, content) ==
  /\ debited[i] = content.used
  /\ \A p \in Extras : credited[i][p] >= IF p \in content.payments THEN 1 ELSE 0

\* Before the rows are written a request goes by the stored invoice, and has stamps
\* of it only; afterwards its own content has every stamp.
ReadsStored(b) ==
  LET standing == stored[W!Mine(b)].content
  IN  /\ walletTask[b].at \in {"settle", "write"} =>
           /\ walletTask[b].old = standing
           /\ walletTask[b].new.stamped \subseteq standing.stamped
           /\ walletTask[b].new.stamped \subseteq walletTask[b].new.payments
           /\ copy[b].content.stamped \subseteq walletTask[b].new.stamped
      /\ walletTask[b].at = "store" =>
           /\ walletTask[b].new.stamped = walletTask[b].new.payments
           /\ copy[b].content.stamped \subseteq walletTask[b].new.stamped
           /\ Booked(W!Mine(b), walletTask[b].new)

\* The stamps of an invoice that is open are stored ones.
Stamped(b) ==
  ~Saving(b) => copy[b].content.stamped \subseteq stored[copy[b].invoice].content.stamped

Kept(i) ==
  /\ OneBrowser(i)
  /\ Stands(i)
  /\ (\A b \in Workers : ~(W!At(b, "store") /\ W!Mine(b) = i)) => Booked(i, stored[i].content)
  /\ \A b \in Workers : copy[b].invoice = i => ReadsStored(b) /\ Stamped(b)

WalletInv ==
  /\ W!TypeOK
  /\ \A b \in Workers : Formed(b)
  /\ \A i \in Invoices \ doubtful : Kept(i)

-----------------------------------------------------------------------------
(* Wallet: what a step leaves alone.                                       *)

\* A step that neither writes an invoice or its rows nor touches the browser
\* that has it open leaves what is known of it.
LEMMA KeptStays ==
  ASSUME \A b \in Workers : Formed(b) /\ Formed(b)',
         NEW i \in Invoices, Kept(i),
         stored'[i] = stored[i], debited'[i] = debited[i], credited'[i] = credited[i],
         \A b \in Workers :
           \/ copy'[b] = copy[b] /\ walletTask'[b] = walletTask[b]
           \/ (copy'[b] = copy[b] \/ copy'[b].invoice # i) /\ ~Saving(b) /\ ~Saving(b)'
           \/ copy[b].invoice # i /\ copy'[b].invoice # i
  PROVE  Kept(i)'
<1>1. OneBrowser(i)'
  BY DEF Kept, OneBrowser
<1>2. Stands(i)'
  BY DEF Kept, Stands
<1>3. ASSUME NEW b \in Workers
      PROVE  (W!At(b, "store") /\ W!Mine(b) = i)' <=> W!At(b, "store") /\ W!Mine(b) = i
  BY DEF Formed, Saving, W!At, W!Mine
<1>4. (\A b \in Workers : ~(W!At(b, "store") /\ W!Mine(b) = i))' => Booked(i, stored[i].content)'
  BY <1>3 DEF Kept, Booked
<1>5. ASSUME NEW b \in Workers, copy'[b].invoice = i
      PROVE  ReadsStored(b)' /\ Stamped(b)'
  <2>1. CASE copy'[b] = copy[b] /\ walletTask'[b] = walletTask[b]
    <3>1. Saving(b) => W!Mine(b) = i
      BY <1>5, <2>1 DEF Formed
    <3>2. ReadsStored(b) /\ Stamped(b)
      BY <1>5, <2>1 DEF Kept
    <3> QED
      BY <1>5, <2>1, <3>1, <3>2 DEF ReadsStored, Stamped, Booked, Saving, W!At, W!Mine
  <2>2. CASE (copy'[b] = copy[b] \/ copy'[b].invoice # i) /\ ~Saving(b) /\ ~Saving(b)'
    BY <1>5, <2>2 DEF Kept, ReadsStored, Stamped, Saving
  <2> QED
    BY <1>5, <2>1, <2>2
<1> QED
  BY <1>1, <1>2, <1>4, <1>5 DEF Kept

\* What is known of an invoice that one browser has open.
LEMMA KeptByOne ==
  ASSUME \A b \in Workers : Formed(b)',
         NEW i \in Invoices, NEW b \in Workers,
         \A c \in Workers \ {b} : copy'[c].invoice # i,
         Stands(i)', ReadsStored(b)', Stamped(b)',
         (W!At(b, "store") /\ W!Mine(b) = i)' \/ Booked(i, stored[i].content)'
  PROVE  Kept(i)'
<1>1. OneBrowser(i)'
  BY DEF OneBrowser
<1>2. (\A c \in Workers : ~(W!At(c, "store") /\ W!Mine(c) = i))' => Booked(i, stored[i].content)'
  OBVIOUS
<1> QED
  BY <1>1, <1>2 DEF Kept

\* Where a browser has an invoice open alone, no other has.
LEMMA OthersElsewhere ==
  ASSUME NEW i \in Invoices, OneBrowser(i), NEW b \in Workers, copy[b].invoice = i
  PROVE  \A c \in Workers \ {b} : copy[c].invoice # i
BY DEF OneBrowser

\* A step that changes no browser's copy, nor what its request is about.
LEMMA FormedStays ==
  ASSUME \A b \in Workers : Formed(b), copy' = copy, walletTask' = walletTask
  PROVE  \A b \in Workers : Formed(b)'
BY DEF Formed, Saving, W!Mine

\* How many extras there are is a number.
LEMMA Counts ==
  ASSUME W!WalletAssumption, NEW S, S \subseteq Extras
  PROVE  W!Cardinality(S) \in Nat
BY FS_Subset, FS_CardinalityType, WalletFinite DEF W!WalletAssumption

\* Nothing, as a content, and no request are typed.
LEMMA BlanksTyped ==
  ASSUME W!WalletAssumption
  PROVE  W!Blank \in W!Content /\ W!NoTask \in W!Task
<1>1. W!Blank \in W!Content
  BY DEF W!WalletAssumption, W!Blank, W!Content
<1> QED
  BY <1>1 DEF W!NoTask, W!Task

\* A request in progress is typed.
LEMMA TaskTyped ==
  ASSUME W!TypeOK, NEW b \in Workers
  PROVE  /\ walletTask[b] \in W!Task
         /\ walletTask[b].at \in {"idle", "settle", "write", "store", "adjust"}
         /\ walletTask[b].invoice \in Invoices \cup {None}
         /\ walletTask[b].old \in W!Content /\ walletTask[b].new \in W!Content
         /\ walletTask[b].balance \in Int /\ walletTask[b].amount \in Int
         /\ copy[b] \in W!Copy /\ copy[b].invoice \in Invoices \cup {None} /\ copy[b].content \in W!Content
BY DEF W!TypeOK, W!Task, W!Copy

\* The edits of a content.
LEMMA EditsTyped ==
  ASSUME NEW content \in W!Content, NEW new \in W!Edits(content)
  PROVE  /\ new \in W!Content
         /\ new.stamped = content.stamped \cap new.payments
BY DEF W!Edits, W!Content

-----------------------------------------------------------------------------
(* Wallet: the invariant holds at the start and after every step.          *)

\* Nothing is stored and nobody has asked for anything.
LEMMA WalletInit ==
  ASSUME W!WalletAssumption, W!Init
  PROVE  WalletInv
<1>1. W!Blank \in W!Content
  BY DEF W!WalletAssumption, W!Blank, W!Content
<1>2. W!TypeOK
  BY <1>1 DEF W!WalletAssumption, W!Init, W!TypeOK, W!Invoice, W!NoInvoice, W!Copy, W!NoCopy, W!Task, W!NoTask
<1>3. \A b \in Workers : Formed(b)
  BY DEF W!Init, Formed, Saving, W!Mine, W!NoTask
<1>4. ASSUME NEW i \in Invoices
      PROVE  Kept(i)
  <2>1. \A b \in Workers : copy[b].invoice # i
    BY DEF W!WalletAssumption, W!Init, W!NoCopy
  <2>2. Stands(i)
    BY DEF W!Init, Stands, W!NoInvoice, W!Blank
  <2>3. Booked(i, stored[i].content)
    BY DEF W!Init, Booked, W!NoInvoice, W!Blank
  <2> QED
    BY <2>1, <2>2, <2>3 DEF Kept, OneBrowser
<1> QED
  BY <1>2, <1>3, <1>4 DEF WalletInv

\* Opening an invoice, or a new one: the browser gives up the one it had open.
LEMMA OpenKeeps ==
  ASSUME W!WalletAssumption, WalletInv, NEW b \in Workers, NEW i \in Invoices, W!Open(b, i) \/ W!Start(b, i)
  PROVE  WalletInv'
<1> DEFINE content == IF W!Open(b, i) THEN stored[i].content ELSE W!Blank
           opened == [invoice |-> i, content |-> content]
<1>1. content \in W!Content
  BY DEF W!WalletAssumption, WalletInv, W!TypeOK, W!Invoice, W!Blank, W!Content
<1>2. /\ copy' = [copy EXCEPT ![b] = opened]
      /\ walletTask' = walletTask /\ W!At(b, "idle")
      /\ stored' = stored /\ debited' = debited /\ credited' = credited
      /\ doubtful \subseteq doubtful' /\ doubtful' \subseteq Invoices
      /\ i \notin doubtful' => \A c \in Workers \ {b} : copy[c].invoice # i
  BY DEF W!Open, W!Start, WalletInv, W!TypeOK
<1>3. opened \in W!Copy
  BY <1>1 DEF W!Copy
<1>4. W!TypeOK'
  BY <1>2, <1>3 DEF WalletInv, W!TypeOK, W!Open, W!Start
<1>5. copy[b] \in W!Copy /\ opened.invoice = i /\ opened.content = content
  BY DEF WalletInv, W!TypeOK
<1>6. content.stamped \subseteq stored[i].content.stamped
  BY DEF W!Blank
<1> HIDE DEF content, opened
<1>7. /\ copy'[b] = opened /\ \A c \in Workers \ {b} : copy'[c] = copy[c]
  BY <1>2 DEF WalletInv, W!TypeOK
<1>8. ~Saving(b) /\ ~Saving(b)'
  BY <1>2 DEF Saving, W!At
<1>9. ASSUME NEW c \in Workers
      PROVE  Formed(c)'
  BY <1>2, <1>7, <1>8 DEF WalletInv, Formed, Saving, W!Mine
<1>10. ASSUME NEW j \in Invoices \ doubtful'
       PROVE  Kept(j)'
  <2>1. Kept(j) /\ j \in Invoices
    BY <1>2 DEF WalletInv
  <2>2. CASE j = i
    <3>1. \A c \in Workers \ {b} : copy'[c].invoice # i
      BY <1>2, <1>7, <2>2
    <3>2. Stands(i)'
      BY <1>2, <2>1, <2>2 DEF Kept, Stands
    <3>3. ReadsStored(b)' /\ Stamped(b)'
      BY <1>2, <1>5, <1>6, <1>7, <1>8 DEF ReadsStored, Stamped, Saving
    <3>4. \A c \in Workers : ~(W!At(c, "store") /\ W!Mine(c) = i)
      BY <1>2, <2>2, <1>8 DEF WalletInv, Formed, Saving, W!At, W!Mine
    <3>5. Booked(i, stored[i].content)'
      BY <1>2, <2>1, <2>2, <3>4 DEF Kept, Booked
    <3> QED
      BY <1>9, <2>2, <3>1, <3>2, <3>3, <3>5, KeptByOne
  <2>3. CASE j # i
    <3>1. ASSUME NEW c \in Workers
          PROVE  \/ copy'[c] = copy[c] /\ walletTask'[c] = walletTask[c]
                 \/ (copy'[c] = copy[c] \/ copy'[c].invoice # j) /\ ~Saving(c) /\ ~Saving(c)'
      BY <1>2, <1>5, <1>7, <1>8, <2>3
    <3> QED
      BY <1>2, <1>9, <2>1, <3>1, KeptStays DEF WalletInv
  <2> QED
    BY <2>2, <2>3
<1> QED
  BY <1>4, <1>9, <1>10 DEF WalletInv

\* A request starts from what its browser has open and what is stored.
LEMMA SaveKeeps ==
  ASSUME W!WalletAssumption, WalletInv, NEW b \in Workers, W!Save(b)
  PROVE  WalletInv'
<1>0. PICK i \in Invoices : i = copy[b].invoice
  BY TaskTyped DEF W!Save, WalletInv
<1>1. W!At(b, "idle") /\ copy[b] \in W!Copy /\ copy[b].content \in W!Content
  BY TaskTyped DEF W!Save, W!Request, WalletInv
<1>2. PICK new \in W!Edits(copy[b].content) :
        /\ walletTask' = [walletTask EXCEPT ![b] = [W!NoTask EXCEPT !.at = "settle", !.invoice = i,
                                          !.old = stored[i].content, !.new = new]]
        /\ copy' = [copy EXCEPT ![b].content = new]
  BY <1>0 DEF W!Save
<1>3. new \in W!Content /\ new.stamped = copy[b].content.stamped \cap new.payments
  BY <1>1, EditsTyped
<1>4. PICK saved : saved = [W!NoTask EXCEPT !.at = "settle", !.invoice = i,
                                            !.old = stored[i].content, !.new = new]
  OBVIOUS
<1>5. stored[i].content \in W!Content /\ saved \in W!Task
  <2>1. stored[i].content \in W!Content
    BY DEF WalletInv, W!TypeOK, W!Invoice
  <2> QED
    BY <1>3, <1>4, <2>1, BlanksTyped DEF W!Task
<1>6. /\ saved.at = "settle" /\ saved.invoice = i /\ saved.balance = 0
      /\ saved.old = stored[i].content /\ saved.new = new
  BY <1>4 DEF W!NoTask
<1>7. /\ walletTask'[b] = saved /\ copy'[b].invoice = i /\ copy'[b].content = new
      /\ copy'[b] \in W!Copy
      /\ \A c \in Workers \ {b} : copy'[c] = copy[c] /\ walletTask'[c] = walletTask[c]
  BY <1>0, <1>1, <1>2, <1>3, <1>4 DEF WalletInv, W!TypeOK, W!Copy
<1>8. W!TypeOK'
  <2>1. walletTask' \in [Workers -> W!Task] /\ copy' \in [Workers -> W!Copy]
    BY <1>2, <1>4, <1>5, <1>7 DEF WalletInv, W!TypeOK
  <2> QED
    BY <2>1 DEF W!WalletAssumption, WalletInv, W!TypeOK, W!Save, W!Request
<1>9. /\ stored' = stored /\ debited' = debited /\ credited' = credited /\ doubtful' = doubtful
  BY DEF W!Save
<1>10. ASSUME NEW c \in Workers
       PROVE  Formed(c)'
  <2>1. CASE c = b
    BY <1>1, <1>6, <1>7, <2>1 DEF Formed, Saving, W!Mine
  <2>2. CASE c # b
    BY <1>7, <2>2 DEF WalletInv, Formed, Saving, W!Mine
  <2> QED
    BY <2>1, <2>2
<1>11. ASSUME NEW j \in Invoices \ doubtful'
       PROVE  Kept(j)'
  <2>1. Kept(j) /\ j \in Invoices
    BY <1>9 DEF WalletInv
  <2>2. CASE j = i
    <3>1. \A c \in Workers \ {b} : copy'[c].invoice # i
      BY <1>0, <1>7, <2>1, <2>2 DEF Kept, OneBrowser
    <3>2. Stands(i)'
      BY <1>9, <2>1, <2>2 DEF Kept, Stands
    <3>3. Stamped(b) /\ ~Saving(b) /\ Saving(b)' /\ ~W!At(b, "store")
      BY <1>0, <1>1, <1>6, <1>7, <2>1, <2>2 DEF Kept, Saving, W!At
    <3>4. ReadsStored(b)' /\ Stamped(b)'
      BY <1>3, <1>6, <1>7, <1>9, <1>0, <3>3 DEF ReadsStored, Stamped, Saving, W!Mine
    <3>5. ASSUME NEW c \in Workers, W!At(c, "store"), W!Mine(c) = i
          PROVE  FALSE
      BY <1>1, <2>1, <2>2, <1>0, <3>3, <3>5 DEF WalletInv, Formed, Saving, W!At, Kept, OneBrowser
    <3>6. Booked(i, stored[i].content)'
      BY <1>9, <2>1, <2>2, <3>5 DEF Kept, Booked
    <3> QED
      BY <1>10, <2>2, <3>1, <3>2, <3>4, <3>6, KeptByOne
  <2>3. CASE j # i
    BY <1>0, <1>7, <1>9, <1>10, <2>1, <2>3, KeptStays DEF WalletInv
  <2> QED
    BY <2>2, <2>3
<1> QED
  BY <1>8, <1>10, <1>11 DEF WalletInv

\* A request is about one invoice, and its steps concern no other.
LEMMA OwnStep ==
  ASSUME W!WalletAssumption, WalletInv, \A c \in Workers : Formed(c)',
         NEW b \in Workers, NEW i, i = W!Mine(b), Saving(b), copy' = copy,
         \A c \in Workers \ {b} : walletTask'[c] = walletTask[c],
         \A j \in Invoices \ {i} :
           stored'[j] = stored[j] /\ debited'[j] = debited[j] /\ credited'[j] = credited[j],
         doubtful \subseteq doubtful',
         i \notin doubtful' =>
           /\ Stands(i)' /\ ReadsStored(b)' /\ Stamped(b)'
           /\ (W!At(b, "store") /\ W!Mine(b) = i)' \/ Booked(i, stored[i].content)'
  PROVE  \A j \in Invoices \ doubtful' : Kept(j)'
<1>1. i \in Invoices /\ copy[b].invoice = i
  BY DEF WalletInv, Formed
<1>2. SUFFICES ASSUME NEW j \in Invoices \ doubtful'
               PROVE  Kept(j)'
  OBVIOUS
<1>3. Kept(j)
  BY DEF WalletInv
<1>4. CASE j = i
  <2>1. \A c \in Workers \ {b} : copy'[c].invoice # i
    BY <1>1, <1>3, <1>4 DEF Kept, OneBrowser
  <2> QED
    BY <1>1, <1>4, <2>1, KeptByOne
<1>5. CASE j # i
  BY <1>1, <1>3, <1>5, KeptStays DEF WalletInv
<1> QED
  BY <1>4, <1>5

\* What a request in progress knows, of an invoice that is not set aside.
LEMMA OwnKept ==
  ASSUME WalletInv, NEW b \in Workers, Saving(b), W!Mine(b) \notin doubtful
  PROVE  /\ Kept(W!Mine(b)) /\ ReadsStored(b)
         /\ \A c \in Workers \ {b} : ~(W!At(c, "store") /\ W!Mine(c) = W!Mine(b))
<1>1. W!Mine(b) \in Invoices /\ copy[b].invoice = W!Mine(b)
  BY DEF WalletInv, Formed
<1>2. Kept(W!Mine(b)) /\ ReadsStored(b)
  BY <1>1 DEF WalletInv, Kept
<1>3. ASSUME NEW c \in Workers, W!At(c, "store"), W!Mine(c) = W!Mine(b)
      PROVE  c = b
  BY <1>1, <1>2, <1>3 DEF WalletInv, Formed, Saving, W!At, Kept, OneBrowser
<1> QED
  BY <1>2, <1>3

\* The transaction begins.
LEMMA ReadBalanceKeeps ==
  ASSUME W!WalletAssumption, WalletInv, NEW b \in Workers, W!ReadBalance(b)
  PROVE  WalletInv'
<1>0. PICK i : i = W!Mine(b)
  OBVIOUS
<1>a. PICK read : read = [walletTask[b] EXCEPT !.at = "write", !.balance = wallet]
  OBVIOUS
<1>1. /\ walletTask[b].at = "settle" /\ walletTask' = [walletTask EXCEPT ![b] = read] /\ wallet \in Nat
      /\ walletTask[b] \in W!Task
  BY <1>a, TaskTyped DEF W!ReadBalance, W!At, WalletInv, W!TypeOK
<1>2. /\ read \in W!Task /\ read.at = "write" /\ read.balance = wallet /\ read.invoice = walletTask[b].invoice
      /\ read.old = walletTask[b].old /\ read.new = walletTask[b].new
  <2>1. PICK now, balance : now = walletTask[b] /\ balance = wallet
    OBVIOUS
  <2>2. now \in W!Task /\ balance \in Int /\ read = [now EXCEPT !.at = "write", !.balance = balance]
    BY <1>1, <1>a, <2>1
  <2>3. /\ read \in W!Task /\ read.at = "write" /\ read.balance = balance
        /\ read.invoice = now.invoice /\ read.old = now.old /\ read.new = now.new
    BY <2>2 DEF W!Task
  <2> QED
    BY <2>1, <2>3
<1>3. /\ walletTask'[b] = read
      /\ \A c \in Workers \ {b} : walletTask'[c] = walletTask[c]
  BY <1>1 DEF WalletInv, W!TypeOK
<1>4. W!TypeOK'
  BY <1>1, <1>2 DEF WalletInv, W!TypeOK, W!ReadBalance
<1>5. /\ copy' = copy /\ stored' = stored /\ debited' = debited /\ credited' = credited
      /\ doubtful' = doubtful
  BY DEF W!ReadBalance
<1>6. ASSUME NEW c \in Workers
      PROVE  Formed(c)'
  BY <1>1, <1>2, <1>3, <1>5 DEF WalletInv, Formed, Saving, W!Mine
<1>7. ASSUME i \notin doubtful
      PROVE  /\ Stands(i)' /\ ReadsStored(b)' /\ Stamped(b)'
             /\ (W!At(b, "store") /\ W!Mine(b) = i)' \/ Booked(i, stored[i].content)'
  <2>1. /\ Kept(i) /\ ReadsStored(b) /\ W!Mine(b)' = i /\ Saving(b)' /\ ~W!At(b, "store")
        /\ \A c \in Workers \ {b} : ~(W!At(c, "store") /\ W!Mine(c) = i)
    BY <1>0, <1>1, <1>2, <1>3, <1>7, OwnKept DEF Saving, W!At, W!Mine
  <2>2. Stands(i)' /\ Booked(i, stored[i].content)'
    BY <1>5, <2>1 DEF Kept, Stands, Booked
  <2>3. ReadsStored(b)'
    BY <1>0, <1>1, <1>2, <1>3, <1>5, <2>1 DEF ReadsStored, W!Mine
  <2> QED
    BY <2>1, <2>2, <2>3 DEF Stamped
<1>8. \A j \in Invoices \ doubtful' : Kept(j)'
  BY <1>0, <1>1, <1>3, <1>5, <1>6, <1>7, OwnStep DEF Saving
<1> QED
  BY <1>4, <1>6, <1>8 DEF WalletInv

\* The transaction: the rows become those of the request.
LEMMA SettleKeeps ==
  ASSUME W!WalletAssumption, WalletInv, NEW b \in Workers, W!Settle(b)
  PROVE  WalletInv'
<1>0. PICK i, old, new, fresh, removed :
        /\ i = W!Mine(b) /\ old = walletTask[b].old /\ new = walletTask[b].new
        /\ fresh = W!Fresh(old, new) /\ removed = W!Removed(old, new)
  OBVIOUS
<1>1. /\ walletTask[b].at = "write" /\ walletTask[b] \in W!Task /\ i \in Invoices
      /\ old \in W!Content /\ new \in W!Content
      /\ walletTask[b].balance \in Nat
  BY <1>0, TaskTyped DEF W!Settle, W!At, WalletInv, Formed, Saving, W!Mine
<1>2. /\ fresh \subseteq Extras /\ removed \subseteq Extras
      /\ new.used \in Nat /\ old.used \in Nat
  BY <1>0, <1>1 DEF W!WalletAssumption, W!Content, W!Fresh, W!Removed
<1>3. W!Cardinality(fresh) \in Nat /\ W!Cardinality(removed) \in Nat
  BY <1>2, Counts
<1>4. wallet' \in Nat
  <2>1. CASE removed = {}
    <3>1. W!Cardinality(removed) = 0
      BY <2>1, FS_EmptySet, WalletFinite
    <3> QED
      BY <1>0, <1>1, <1>2, <1>3, <3>1 DEF W!Settle, W!Payable, W!NewBalance, W!UsedDiff
  <2>2. CASE removed # {}
    BY <1>0, <1>1, <1>2, <1>3, <2>2 DEF W!Settle, W!Payable, W!Reversible, W!NewBalance, W!UsedDiff
  <2> QED
    BY <2>1, <2>2
<1>5. PICK settled : settled = [walletTask[b] EXCEPT !.at = "store", !.new.stamped = @ \cup fresh]
  OBVIOUS
<1>6. /\ settled \in W!Task /\ settled.at = "store" /\ settled.invoice = i
      /\ settled.balance = walletTask[b].balance
      /\ settled.new = [new EXCEPT !.stamped = @ \cup fresh]
  BY <1>0, <1>1, <1>2, <1>5 DEF W!Task, W!Content, W!Mine
<1>7. /\ settled.new.used = new.used /\ settled.new.payments = new.payments
      /\ settled.new.stamped = new.stamped \cup fresh
  BY <1>1, <1>6 DEF W!Content
<1>8. walletTask' = [walletTask EXCEPT ![b] = settled]
  BY <1>0, <1>5 DEF W!Settle
<1>9. walletTask'[b] = settled /\ \A c \in Workers \ {b} : walletTask'[c] = walletTask[c]
  BY <1>8 DEF WalletInv, W!TypeOK
<1>10. /\ debited' = [debited EXCEPT ![i] = @ + W!UsedDiff(old, new)]
       /\ credited' = [credited EXCEPT ![i] =
                         [p \in Extras |-> @[p] + (IF p \in fresh THEN 1 ELSE 0)
                                                - (IF p \in removed THEN 1 ELSE 0)]]
       /\ copy' = copy /\ stored' = stored /\ doubtful' = doubtful
  BY <1>0 DEF W!Settle
<1>11. /\ debited'[i] = debited[i] + new.used - old.used
       /\ \A p \in Extras :
            credited'[i][p] = credited[i][p] + (IF p \in fresh THEN 1 ELSE 0)
                                             - (IF p \in removed THEN 1 ELSE 0)
       /\ debited' \in [Invoices -> Int] /\ credited' \in [Invoices -> [Extras -> Int]]
       /\ \A j \in Invoices \ {i} : debited'[j] = debited[j] /\ credited'[j] = credited[j]
  <2> DEFINE credits == [p \in Extras |-> credited[i][p] + (IF p \in fresh THEN 1 ELSE 0)
                                                       - (IF p \in removed THEN 1 ELSE 0)]
  <2>1. /\ debited' \in [Invoices -> Int] /\ debited'[i] = debited[i] + new.used - old.used
        /\ \A j \in Invoices \ {i} : debited'[j] = debited[j]
    BY <1>1, <1>2, <1>10 DEF WalletInv, W!TypeOK, W!UsedDiff
  <2>2. credited \in [Invoices -> [Extras -> Int]] /\ credited[i] \in [Extras -> Int]
    BY <1>1 DEF WalletInv, W!TypeOK
  <2>3. credited' = [credited EXCEPT ![i] = credits]
    BY <1>1, <1>10, <2>2
  <2>4. credits \in [Extras -> Int]
    BY <2>2
  <2>5. \A p \in Extras :
          credits[p] = credited[i][p] + (IF p \in fresh THEN 1 ELSE 0)
                                      - (IF p \in removed THEN 1 ELSE 0)
    OBVIOUS
  <2> HIDE DEF credits
  <2>6. /\ credited' \in [Invoices -> [Extras -> Int]] /\ credited'[i] = credits
        /\ \A j \in Invoices \ {i} : credited'[j] = credited[j]
    BY <1>1, <2>2, <2>3, <2>4
  <2> QED
    BY <2>1, <2>5, <2>6
<1>12. W!TypeOK'
  <2>1. walletTask' \in [Workers -> W!Task]
    BY <1>6, <1>8 DEF WalletInv, W!TypeOK
  <2> QED
    BY <1>4, <1>11, <2>1 DEF WalletInv, W!TypeOK, W!Settle
<1>13. ASSUME NEW c \in Workers
       PROVE  Formed(c)'
  BY <1>0, <1>1, <1>6, <1>9, <1>10 DEF WalletInv, Formed, Saving, W!Mine
<1>14. ASSUME i \notin doubtful
       PROVE  /\ Stands(i)' /\ ReadsStored(b)' /\ Stamped(b)'
              /\ (W!At(b, "store") /\ W!Mine(b) = i)'
  <2>1. Kept(i) /\ ReadsStored(b) /\ \A c \in Workers : ~(W!At(c, "store") /\ W!Mine(c) = i)
    BY <1>0, <1>1, <1>14, OwnKept DEF Saving, W!At
  <2>2. Booked(i, old) /\ old.stamped = old.payments
        /\ new.stamped \subseteq old.stamped /\ new.stamped \subseteq new.payments
        /\ copy[b].content.stamped \subseteq new.stamped
    BY <1>0, <1>1, <2>1 DEF Kept, ReadsStored, Stands
  <2>3. debited'[i] = new.used
    BY <1>1, <1>2, <1>11, <2>2 DEF Booked, WalletInv, W!TypeOK
  <2>4. ASSUME NEW p \in Extras
        PROVE  credited'[i][p] >= IF p \in new.payments THEN 1 ELSE 0
    <3>1. credited[i][p] \in Int
      BY <1>1 DEF WalletInv, W!TypeOK
    <3>2. credited[i][p] >= IF p \in old.payments THEN 1 ELSE 0
      BY <2>2 DEF Booked
    <3>3. /\ p \in fresh <=> p \in new.payments /\ p \notin new.stamped
          /\ p \in removed <=> p \in old.stamped /\ p \notin new.payments
      BY <1>0 DEF W!Fresh, W!Removed
    <3> QED
      BY <1>11, <2>2, <3>1, <3>2, <3>3
  <2>5. Booked(i, settled.new)'
    BY <1>7, <2>3, <2>4 DEF Booked
  <2>6. settled.new.stamped = settled.new.payments
    BY <1>0, <1>7, <2>2 DEF W!Fresh
  <2>7. ReadsStored(b)' /\ Saving(b)' /\ (W!At(b, "store") /\ W!Mine(b) = i)'
    BY <1>6, <1>7, <1>9, <1>10, <2>2, <2>5, <2>6 DEF ReadsStored, Saving, W!At, W!Mine, Booked
  <2>8. Stands(i)'
    BY <1>10, <2>1 DEF Kept, Stands
  <2> QED
    BY <2>7, <2>8 DEF Stamped
<1>15. \A j \in Invoices \ doubtful' : Kept(j)'
  BY <1>0, <1>1, <1>9, <1>10, <1>11, <1>13, <1>14, OwnStep DEF Saving
<1> QED
  BY <1>12, <1>13, <1>15 DEF WalletInv

\* A request that has ended.
LEMMA Returned ==
  ASSUME W!WalletAssumption, WalletInv, NEW b \in Workers, W!Return(b), copy' = copy
  PROVE  /\ walletTask' \in [Workers -> W!Task] /\ walletTask'[b] = W!NoTask
         /\ \A c \in Workers \ {b} : walletTask'[c] = walletTask[c]
         /\ ~Saving(b)'
         /\ \A c \in Workers : Formed(c)'
<1>1. walletTask' = [walletTask EXCEPT ![b] = W!NoTask] /\ W!NoTask \in W!Task
  BY BlanksTyped DEF W!Return
<1>2. walletTask'[b] = W!NoTask /\ \A c \in Workers \ {b} : walletTask'[c] = walletTask[c]
  BY <1>1 DEF WalletInv, W!TypeOK
<1>3. ~Saving(b)'
  BY <1>2 DEF Saving, W!NoTask
<1>4. Formed(b)'
  BY <1>2, <1>3 DEF Formed, W!Mine, W!NoTask
<1>5. \A c \in Workers \ {b} : Formed(c)'
  BY <1>2 DEF WalletInv, Formed, Saving, W!Mine
<1> QED
  BY <1>1, <1>2, <1>3, <1>4, <1>5 DEF WalletInv, W!TypeOK

\* A request that is refused leaves the rows and the invoice as they were.
LEMMA RefuseKeeps ==
  ASSUME W!WalletAssumption, WalletInv, NEW b \in Workers, W!Refuse(b)
  PROVE  WalletInv'
<1>0. PICK i : i = W!Mine(b)
  OBVIOUS
<1>1. /\ walletTask[b].at = "write" /\ W!Return(b) /\ copy' = copy /\ stored' = stored
      /\ debited' = debited /\ credited' = credited /\ doubtful' = doubtful
  BY DEF W!Refuse, W!At
<1>2. /\ walletTask' \in [Workers -> W!Task] /\ ~Saving(b)'
      /\ \A c \in Workers \ {b} : walletTask'[c] = walletTask[c]
      /\ \A c \in Workers : Formed(c)'
  BY <1>1, Returned
<1>3. W!TypeOK'
  BY <1>2 DEF WalletInv, W!TypeOK, W!Refuse
<1>4. ASSUME i \notin doubtful
      PROVE  /\ Stands(i)' /\ ReadsStored(b)' /\ Stamped(b)'
             /\ Booked(i, stored[i].content)'
  <2>1. Kept(i) /\ ReadsStored(b) /\ \A c \in Workers : ~(W!At(c, "store") /\ W!Mine(c) = i)
    BY <1>0, <1>1, <1>4, OwnKept DEF Saving, W!At
  <2>2. Stands(i)' /\ Booked(i, stored[i].content)'
    BY <1>1, <2>1 DEF Kept, Stands, Booked
  <2>3. copy[b].invoice = i
    BY <1>0, <1>1 DEF WalletInv, Formed, Saving
  <2>4. ReadsStored(b)' /\ Stamped(b)'
    BY <1>0, <1>1, <1>2, <2>1, <2>3 DEF ReadsStored, Stamped, Saving
  <2> QED
    BY <2>2, <2>4
<1>5. \A j \in Invoices \ doubtful' : Kept(j)'
  BY <1>0, <1>1, <1>2, <1>4, OwnStep DEF Saving
<1> QED
  BY <1>2, <1>3, <1>5 DEF WalletInv

\* The stored invoice becomes that of the request, as the rows are already.
LEMMA StoreKeeps ==
  ASSUME W!WalletAssumption, WalletInv, NEW b \in Workers, W!Store(b)
  PROVE  WalletInv'
<1>0. PICK i, new, credits :
        i = W!Mine(b) /\ new = walletTask[b].new /\ credits = [state |-> "kept", content |-> new]
  OBVIOUS
<1>1. /\ walletTask[b].at = "store" /\ W!Return(b) /\ copy' = copy
      /\ stored' = [stored EXCEPT ![i] = credits]
      /\ debited' = debited /\ credited' = credited /\ doubtful' = doubtful
  BY <1>0 DEF W!Store, W!At
<1>2. /\ walletTask' \in [Workers -> W!Task] /\ ~Saving(b)'
      /\ \A c \in Workers \ {b} : walletTask'[c] = walletTask[c]
      /\ \A c \in Workers : Formed(c)'
  BY <1>1, Returned
<1>3. i \in Invoices /\ new \in W!Content /\ copy[b].invoice = i
  BY <1>0, <1>1, TaskTyped DEF WalletInv, Formed, Saving
<1>4. credits \in W!Invoice /\ credits.state = "kept" /\ credits.content = new
  BY <1>0, <1>3 DEF W!Invoice
<1>5. stored'[i] = credits /\ \A j \in Invoices \ {i} : stored'[j] = stored[j]
  BY <1>1, <1>3 DEF WalletInv, W!TypeOK
<1>6. W!TypeOK'
  BY <1>1, <1>2, <1>4 DEF WalletInv, W!TypeOK, W!Store
<1>7. ASSUME i \notin doubtful
      PROVE  /\ Stands(i)' /\ ReadsStored(b)' /\ Stamped(b)'
             /\ Booked(i, stored[i].content)'
  <2>1. ReadsStored(b)
    BY <1>0, <1>1, <1>7, OwnKept DEF Saving
  <2>2. /\ new.stamped = new.payments /\ copy[b].content.stamped \subseteq new.stamped
        /\ Booked(i, new)
    BY <1>0, <1>1, <2>1 DEF ReadsStored
  <2>3. Stands(i)'
    BY <1>4, <1>5, <2>2 DEF Stands
  <2>4. Booked(i, stored[i].content)'
    BY <1>1, <1>4, <1>5, <2>2 DEF Booked
  <2>5. ReadsStored(b)' /\ Stamped(b)'
    BY <1>1, <1>2, <1>3, <1>4, <1>5, <2>2 DEF ReadsStored, Stamped, Saving
  <2> QED
    BY <2>3, <2>4, <2>5
<1>8. \A j \in Invoices \ doubtful' : Kept(j)'
  BY <1>0, <1>1, <1>2, <1>5, <1>7, OwnStep DEF Saving
<1> QED
  BY <1>2, <1>6, <1>8 DEF WalletInv

\* An invoice that is not stored after its rows were is set aside.
LEMMA StoreFailsKeeps ==
  ASSUME W!WalletAssumption, WalletInv, NEW b \in Workers, W!StoreFails(b)
  PROVE  WalletInv'
<1>0. PICK i : i = W!Mine(b)
  OBVIOUS
<1>1. /\ walletTask[b].at = "store" /\ W!Return(b) /\ copy' = copy /\ stored' = stored
      /\ debited' = debited /\ credited' = credited /\ doubtful' = doubtful \cup {i}
  BY <1>0 DEF W!StoreFails, W!At
<1>2. /\ walletTask' \in [Workers -> W!Task] /\ ~Saving(b)'
      /\ \A c \in Workers \ {b} : walletTask'[c] = walletTask[c]
      /\ \A c \in Workers : Formed(c)'
  BY <1>1, Returned
<1>3. i \in Invoices
  BY <1>0, <1>1 DEF WalletInv, Formed, Saving
<1>4. W!TypeOK'
  BY <1>1, <1>2, <1>3 DEF WalletInv, W!TypeOK, W!StoreFails
<1>5. \A j \in Invoices \ doubtful' : Kept(j)'
  BY <1>0, <1>1, <1>2, OwnStep DEF Saving
<1> QED
  BY <1>2, <1>4, <1>5 DEF WalletInv

\* What goes past the wallet sets its invoice aside and touches no other.
LEMMA PastWalletKeeps ==
  ASSUME W!WalletAssumption, WalletInv, NEW b \in Workers, W!Delete(b) \/ W!Snapshot(b)
  PROVE  WalletInv'
<1>0. PICK i \in Invoices : i = copy[b].invoice
  BY TaskTyped DEF WalletInv, W!Delete, W!Snapshot
<1>1. PICK credits \in W!Invoice : stored' = [stored EXCEPT ![i] = credits]
  <2>1. CASE W!Delete(b)
    BY <1>0, <2>1, BlanksTyped DEF W!Delete, W!Invoice
  <2>2. CASE W!Snapshot(b)
    <3>1. PICK new \in W!Edits(copy[b].content) :
            stored' = [stored EXCEPT ![i] = [state |-> "kept", content |-> new]]
      BY <1>0, <2>2 DEF W!Snapshot
    <3>2. new \in W!Content
      BY TaskTyped, EditsTyped DEF WalletInv
    <3> QED
      BY <3>1, <3>2 DEF W!Invoice
  <2> QED
    BY <2>1, <2>2
<1>2. /\ copy' = copy /\ walletTask' = walletTask /\ debited' = debited /\ credited' = credited
      /\ doubtful' = doubtful \cup {i}
  BY <1>0 DEF W!Delete, W!Snapshot
<1>3. W!TypeOK'
  BY <1>1, <1>2 DEF W!WalletAssumption, WalletInv, W!TypeOK, W!Delete, W!Snapshot, W!Request
<1>4. \A c \in Workers : Formed(c)'
  BY <1>2, FormedStays DEF WalletInv
<1>5. ASSUME NEW j \in Invoices \ doubtful'
      PROVE  Kept(j)'
  <2>1. j # i /\ Kept(j) /\ stored'[j] = stored[j]
    BY <1>1, <1>2 DEF WalletInv, W!TypeOK
  <2> QED
    BY <1>2, <1>4, <2>1, KeptStays DEF WalletInv
<1> QED
  BY <1>3, <1>4, <1>5 DEF WalletInv

\* Changes of the customer concern no invoice.
LEMMA CustomerKeeps ==
  ASSUME W!WalletAssumption, WalletInv, NEW b \in Workers, NEW amount \in Int, NEW balance \in Nat,
         W!Adjust(b, amount) \/ W!AdjustWallet(b) \/ W!PatchCustomer(b, balance)
  PROVE  WalletInv'
<1>1. /\ copy' = copy /\ stored' = stored /\ debited' = debited /\ credited' = credited
      /\ doubtful' = doubtful
  BY DEF W!Adjust, W!AdjustWallet, W!PatchCustomer
<1>2. /\ walletTask' \in [Workers -> W!Task]
      /\ \A c \in Workers : Formed(c)'
      /\ \A c \in Workers : walletTask'[c] = walletTask[c] \/ (~Saving(c) /\ ~Saving(c)')
  <2>1. CASE W!PatchCustomer(b, balance)
    <3>1. walletTask' = walletTask
      BY <2>1 DEF W!PatchCustomer
    <3> QED
      BY <1>1, <3>1, FormedStays DEF WalletInv, W!TypeOK
  <2>2. CASE W!AdjustWallet(b)
    <3>1. W!Return(b) /\ ~Saving(b)
      BY <2>2 DEF W!AdjustWallet, W!At, Saving
    <3> QED
      BY <1>1, <3>1, Returned
  <2>3. CASE W!Adjust(b, amount)
    <3>1. PICK asked : asked = [W!NoTask EXCEPT !.at = "adjust", !.balance = wallet, !.amount = amount]
      OBVIOUS
    <3>2. wallet \in Nat /\ ~Saving(b) /\ walletTask' = [walletTask EXCEPT ![b] = asked]
      BY <2>3, <3>1 DEF WalletInv, W!TypeOK, W!Adjust, W!Request, W!At, Saving
    <3>3. asked \in W!Task /\ asked.at = "adjust" /\ asked.invoice = None /\ asked.balance >= 0
      <4>1. PICK blank, money, sum : blank = W!NoTask /\ money = wallet /\ sum = amount
        OBVIOUS
      <4>2. /\ asked = [blank EXCEPT !.at = "adjust", !.balance = money, !.amount = sum]
            /\ blank \in W!Task /\ money \in Int /\ money >= 0 /\ sum \in Int
        BY <3>1, <3>2, <4>1, BlanksTyped
      <4>3. asked \in W!Task
        BY <4>2 DEF W!Task
      <4>4. asked.at = "adjust" /\ asked.invoice = None /\ asked.balance = money
        BY <4>1, <4>2 DEF W!NoTask
      <4> QED
        BY <4>2, <4>3, <4>4
    <3>4. walletTask'[b] = asked /\ \A c \in Workers \ {b} : walletTask'[c] = walletTask[c]
      BY <3>2 DEF WalletInv, W!TypeOK
    <3>5. ~Saving(b)' /\ Formed(b)'
      BY <3>3, <3>4 DEF Saving, Formed, W!Mine
    <3>6. \A c \in Workers \ {b} : Formed(c)'
      BY <1>1, <3>4 DEF WalletInv, Formed, Saving, W!Mine
    <3> QED
      BY <3>2, <3>3, <3>4, <3>5, <3>6 DEF WalletInv, W!TypeOK
  <2> QED
    BY <2>1, <2>2, <2>3
<1>3. /\ wallet' \in Nat /\ manual' \in Int /\ entered' \in Int /\ walletRequests' \in 0..MaxRequests
  <2>1. /\ wallet \in Nat /\ manual \in Int /\ entered \in Int /\ walletRequests \in 0..MaxRequests
        /\ walletTask[b].balance \in Int /\ walletTask[b].amount \in Int /\ MaxRequests \in Nat
    BY TaskTyped DEF WalletInv, W!TypeOK, W!WalletAssumption
  <2>2. CASE W!AdjustWallet(b)
    BY <2>1, <2>2 DEF W!AdjustWallet, W!Covered
  <2>3. CASE W!Adjust(b, amount) \/ W!PatchCustomer(b, balance)
    BY <2>1, <2>3 DEF W!Adjust, W!PatchCustomer, W!Request
  <2> QED
    BY <2>2, <2>3
<1>4. W!TypeOK'
  BY <1>1, <1>2, <1>3 DEF WalletInv, W!TypeOK
<1>5. ASSUME NEW j \in Invoices \ doubtful'
      PROVE  Kept(j)'
  BY <1>1, <1>2, KeptStays DEF WalletInv
<1> QED
  BY <1>2, <1>4, <1>5 DEF WalletInv

\* Every action and every stutter.
LEMMA WalletNext ==
  ASSUME W!WalletAssumption, WalletInv, [W!Next]_(W!vars)
  PROVE  WalletInv'
<1>1. ASSUME NEW b \in Workers, NEW i \in Invoices, W!Open(b, i) \/ W!Start(b, i)
      PROVE  WalletInv'
  BY <1>1, OpenKeeps
<1>2. ASSUME NEW b \in Workers,
             W!Save(b) \/ W!ReadBalance(b) \/ W!Settle(b) \/ W!Refuse(b) \/ W!Store(b) \/ W!StoreFails(b)
      PROVE  WalletInv'
  BY <1>2, SaveKeeps, ReadBalanceKeeps, SettleKeeps, RefuseKeeps, StoreKeeps, StoreFailsKeeps
<1>3. ASSUME NEW b \in Workers, W!Delete(b) \/ W!Snapshot(b)
      PROVE  WalletInv'
  BY <1>3, PastWalletKeeps
<1>4. ASSUME NEW b \in Workers, NEW amount \in {-1, 1}, W!Adjust(b, amount)
      PROVE  WalletInv'
  <2>1. amount \in Int /\ 0 \in Nat
    OBVIOUS
  <2> QED
    BY <1>4, <2>1, CustomerKeeps
<1>5. ASSUME NEW b \in Workers, W!AdjustWallet(b)
      PROVE  WalletInv'
  <2>1. 0 \in Int /\ 0 \in Nat
    OBVIOUS
  <2> QED
    BY <1>5, <2>1, CustomerKeeps
<1>6. ASSUME NEW b \in Workers, NEW balance \in 0..MaxUsed, W!PatchCustomer(b, balance)
      PROVE  WalletInv'
  <2>1. 0 \in Int /\ balance \in Nat
    BY DEF W!WalletAssumption
  <2> QED
    BY <1>6, <2>1, CustomerKeeps
<1>7. CASE UNCHANGED W!vars
  <2>1. W!TypeOK' /\ copy' = copy /\ walletTask' = walletTask
    BY <1>7 DEF W!vars, WalletInv, W!TypeOK
  <2>2. \A c \in Workers : Formed(c)'
    BY <2>1, FormedStays DEF WalletInv
  <2>3. \A j \in Invoices \ doubtful' : Kept(j)'
    BY <1>7, <2>1, <2>2, KeptStays DEF W!vars, WalletInv
  <2> QED
    BY <2>1, <2>2, <2>3 DEF WalletInv
<1> QED
  BY <1>1, <1>2, <1>3, <1>4, <1>5, <1>6, <1>7 DEF W!Next

\* The inductive invariant holds of every state: what the stored invoices, their rows and the
\* requests of invoice.service.ts know of each other at every call.
THEOREM WalletInvariance ==
  ASSUME W!WalletAssumption
  PROVE  W!Spec => []WalletInv
<1>1. W!Init => WalletInv
  BY WalletInit
<1>2. WalletInv /\ [W!Next]_(W!vars) => WalletInv'
  BY WalletNext
<1> QED
  BY <1>1, <1>2, PTL DEF W!Spec

-----------------------------------------------------------------------------
(* Wallet: what the invariant says.                                        *)

\* Types; above all the balance, which is written from a value read before, is never negative.
THEOREM WalletTyped ==
  ASSUME W!WalletAssumption
  PROVE  W!Spec => []W!TypeOK
<1>1. WalletInv => W!TypeOK
  BY DEF WalletInv
<1> QED
  BY <1>1, WalletInvariance, PTL

\* An invoice that is stored and set aside by nothing: no request is about it, and its rows are
\* those of its content.
LEMMA SettledIsBooked ==
  ASSUME WalletInv, NEW i \in Invoices, W!Settled(i)
  PROVE  Stands(i) /\ Booked(i, stored[i].content)
BY DEF WalletInv, W!Settled, W!Busy, Kept

\* What an invoice says was paid from the wallet is what its rows debit.
THEOREM DebitsMatch ==
  /\ W!Spec => []W!WalletIsDebited
  /\ OfficeSpec => []WalletIsDebited
<1>1. WalletInv => W!WalletIsDebited
  BY SettledIsBooked DEF W!WalletIsDebited, Booked
<1>2. W!Spec => []WalletInv
  BY OfficeAssumption, WalletInvariance, PTL DEF OfficeAssumption
<1>3. W!WalletIsDebited => WalletIsDebited
  BY DEF WalletIsDebited
<1> QED
  BY <1>1, <1>2, <1>3, EachPartRuns, PTL

\* The extra of every payment of a stored invoice is credited and has its stamp.
THEOREM ExtrasMatch ==
  /\ W!Spec => []W!ExtrasAreCredited
  /\ OfficeSpec => []ExtrasAreCredited
<1>1. ASSUME WalletInv, NEW i \in Invoices, W!Settled(i), NEW p \in stored[i].content.payments
      PROVE  p \in stored[i].content.stamped /\ credited[i][p] >= 1
  <2>1. p \in Extras
    BY <1>1 DEF WalletInv, W!TypeOK, W!Invoice, W!Content
  <2> QED
    BY <1>1, <2>1, SettledIsBooked DEF Stands, Booked
<1>2. WalletInv => W!ExtrasAreCredited
  BY <1>1 DEF W!ExtrasAreCredited
<1>3. W!Spec => []WalletInv
  BY OfficeAssumption, WalletInvariance, PTL DEF OfficeAssumption
<1>4. W!ExtrasAreCredited => ExtrasAreCredited
  BY DEF ExtrasAreCredited
<1> QED
  BY <1>2, <1>3, <1>4, EachPartRuns, PTL

-----------------------------------------------------------------------------
(* Targets: types, rounding, places.                                       *)

\* A change of what the targets are computed from keeps its types.
LEMMA TargetsKeep ==
  ASSUME T!TypeOK, [T!Next]_(T!vars)
  PROVE  T!TypeOK'
<1>1. CASE T!SaveSettings
  BY <1>1 DEF T!SaveSettings, T!TypeOK, T!User, T!Invoice
<1>2. ASSUME NEW s \in Staff, T!SaveStaff(s)
      PROVE  T!TypeOK'
  BY <1>2 DEF T!SaveStaff, T!TypeOK, T!User, T!Invoice
<1>3. ASSUME NEW i \in YearInvoices, T!SaveInvoice(i)
      PROVE  T!TypeOK'
  BY <1>3 DEF T!SaveInvoice, T!TypeOK, T!User, T!Invoice
<1>4. CASE UNCHANGED T!vars
  BY <1>4 DEF T!vars, T!TypeOK, T!User, T!Invoice
<1> QED
  BY <1>1, <1>2, <1>3, <1>4 DEF T!Next

\* The settings, members and invoices keep their types.
LEMMA TargetsTyped == T!Spec => []T!TypeOK
<1>1. T!Init => T!TypeOK
  BY DEF T!Init, T!TypeOK
<1> QED
  BY <1>1, TargetsKeep, PTL DEF T!Spec

\* The finite sets of Targets are those of the library.
LEMMA TargetsFinite ==
  \A X : /\ T!IsFiniteSet(X) <=> IsFiniteSet(X)
         /\ T!Cardinality(X) = Cardinality(X)
<1> TAKE X
<1>1. T!IsFiniteSet(X) <=> IsFiniteSet(X)
  BY DEF T!IsFiniteSet, IsFiniteSet
<1>2. T!Cardinality(X) = Cardinality(X)
  BY DEF T!Cardinality, Cardinality
<1> QED
  BY <1>1, <1>2

\* A sum of the library is the total of its function.
LEMMA SumIs ==
  ASSUME NEW these, IsFiniteSet(these), NEW w, NEW v, DOMAIN w = these,
         \A x \in these : w[x] = v[x]
  PROVE  T!SumFunction(w) = Total(these, v)
<1>1. T!SumFunction(w) = Total(DOMAIN w, w)
  BY DEF T!SumFunction, T!SumFunctionOnSet, T!FoldFunctionOnSet, T!MapThenFoldSet,
         Total, SumsOf, First
<1> QED
  BY <1>1, TotalSame

\* A quotient is rounded by half a cent at most.
LEMMA RoundedIs ==
  ASSUME NEW a \in Nat, NEW b \in Nat, b > 0
  PROVE  /\ T!Rounded(a, b) \in Nat
         /\ 2 * (b * T!Rounded(a, b) - a) <= b
         /\ 2 * (a - b * T!Rounded(a, b)) <= b
<1> DEFINE n == 2 * a + b
           m == 2 * b
           q == n \div m
<1>1. n \in Nat /\ m \in Nat /\ m > 0
  OBVIOUS
<1> HIDE DEF n, m
<1>2. q \in Int /\ m * q <= n /\ n < m * q + m
  BY <1>1
<1>3. q \in Nat
  BY <1>1, <1>2
<1> HIDE DEF q
<1>4. m * q = 2 * (b * q)
  BY <1>3 DEF m
<1>5. b * q \in Int
  BY <1>3
<1> QED
  BY <1>2, <1>3, <1>4, <1>5 DEF m, n, q, T!Rounded

\* Of some places in a list one is the first.
LEMMA FirstIsOne ==
  ASSUME NEW places, IsFiniteSet(places), places \subseteq Nat \X Nat, places # {}
  PROVE  T!FirstOf(places) \in places
<1> DEFINE Least(U, p) == p \in U /\ \A q \in U : T!NotAfter(p, q)
           G == {U \in SUBSET places : U # {} => \E p \in U : Least(U, p)}
<1>1. ASSUME NEW U \in SUBSET places, NEW x \in U, U \ {x} \in G
      PROVE  U \in G
  <2>1. CASE U \ {x} = {}
    <3>1. U = {x}
      BY <2>1
    <3>2. T!NotAfter(x, x)
      BY DEF T!NotAfter
    <3> QED
      BY <3>1, <3>2
  <2>2. CASE U \ {x} # {}
    <3>1. PICK p \in U \ {x} : \A q \in U \ {x} : T!NotAfter(p, q)
      BY <1>1, <2>2
    <3>2. \A q \in U : q[1] \in Nat /\ q[2] \in Nat
      OBVIOUS
    <3>3. CASE T!NotAfter(p, x)
      BY <3>1, <3>3
    <3>4. CASE ~T!NotAfter(p, x)
      <4>1. \A q \in U : T!NotAfter(x, q)
        BY <3>1, <3>2, <3>4 DEF T!NotAfter
      <4> QED
        BY <4>1
    <3> QED
      BY <3>3, <3>4
  <2> QED
    BY <2>1, <2>2
<1>2. {} \in G
  OBVIOUS
<1>3. places \in G
  <2> HIDE DEF G
  <2> QED
    BY <1>1, <1>2, GrowInduct
<1>4. \E p \in places : \A q \in places : T!NotAfter(p, q)
  BY <1>3
<1> QED
  BY <1>4 DEF T!FirstOf

-----------------------------------------------------------------------------
(* Targets: tiers, revenue, the breakdown by roles.                        *)

\* The tiers of a kind of period are finitely many, and of numbers.
LEMMA TiersAre ==
  ASSUME T!TargetsAssumption, T!TypeOK, NEW type
  PROVE  LET tiers == T!extractTiers(type)
         IN  /\ IsFiniteSet(DOMAIN tiers) /\ DOMAIN tiers \subseteq Nat \X Nat
             /\ \A p \in DOMAIN tiers :
                  tiers[p].targetAmount \in Nat /\ tiers[p].rewardPercent \in Nat
<1> DEFINE raw == IF type = "QUARTERLY" /\ settings.quarterly # None
                    THEN settings.quarterly ELSE settings.tiers
           tiers == T!extractTiers(type)
           in == [i \in DOMAIN raw |-> {i} \X T!expandRawTier(raw[i])]
           sets == {in[i] : i \in DOMAIN raw}
<1>1. raw \in Seq(T!Tier)
  BY DEF T!TargetsAssumption, T!TypeOK
<1>2. DOMAIN raw = 1..Len(raw) /\ Len(raw) \in Nat /\ \A i \in DOMAIN raw : raw[i] \in T!Tier
  BY <1>1
<1>3. tiers = [p \in UNION sets |->
                 LET reward == raw[p[1]].roleRewards[p[2]]
                 IN  [targetAmount |-> raw[p[1]].targetAmount, role |-> reward.role,
                      rewardPercent |-> reward.rewardPercent]]
  BY DEF T!extractTiers
<1> HIDE DEF raw, tiers
<1>4. ASSUME NEW i \in DOMAIN raw
      PROVE  /\ T!expandRawTier(raw[i]) \subseteq Nat
             /\ IsFiniteSet(T!expandRawTier(raw[i]))
             /\ raw[i].targetAmount \in Nat
             /\ \A j \in T!expandRawTier(raw[i]) : raw[i].roleRewards[j].rewardPercent \in Nat
  <2> DEFINE rewards == raw[i].roleRewards
  <2>1. rewards \in Seq([role: STRING, rewardPercent: Nat]) /\ raw[i].targetAmount \in Nat
    BY <1>2 DEF T!Tier, T!Reward
  <2>2. T!expandRawTier(raw[i]) \subseteq DOMAIN rewards
    BY DEF T!expandRawTier
  <2> HIDE DEF rewards
  <2>3. /\ DOMAIN rewards = 1..Len(rewards) /\ Len(rewards) \in Nat
        /\ \A j \in DOMAIN rewards : rewards[j].rewardPercent \in Nat
    <3> DEFINE Reward == [role: STRING, rewardPercent: Nat]
    <3>1. rewards \in Seq(Reward)
      BY <2>1
    <3>2. \A reward \in Reward : reward.rewardPercent \in Nat
      OBVIOUS
    <3> HIDE DEF Reward
    <3>3. /\ DOMAIN rewards = 1..Len(rewards) /\ Len(rewards) \in Nat
          /\ \A j \in DOMAIN rewards : rewards[j] \in Reward
      BY <3>1
    <3> QED
      BY <3>2, <3>3
  <2>4. IsFiniteSet(DOMAIN rewards)
    BY <2>3, FS_Interval
  <2>5. IsFiniteSet(T!expandRawTier(raw[i]))
    BY <2>2, <2>4, FS_Subset
  <2> QED
    BY <2>1, <2>2, <2>3, <2>5 DEF rewards
<1>5. IsFiniteSet(sets)
  <2>1. in \in Surjection(DOMAIN raw, sets)
    BY DEF Surjection
  <2>2. IsFiniteSet(DOMAIN raw)
    BY <1>2, FS_Interval
  <2> QED
    BY <2>1, <2>2, FS_Surjection
<1>6. \A some \in sets : IsFiniteSet(some)
  <2> SUFFICES ASSUME NEW i \in DOMAIN raw
               PROVE  IsFiniteSet({i} \X T!expandRawTier(raw[i]))
    OBVIOUS
  <2> QED
    BY <1>4, FS_Singleton, FS_Product
<1>7. IsFiniteSet(UNION sets)
  BY <1>5, <1>6, FS_UNION
<1>8. ASSUME NEW p \in UNION sets
      PROVE  /\ p \in Nat \X Nat /\ p[1] \in DOMAIN raw /\ p[2] \in T!expandRawTier(raw[p[1]])
  <2>1. PICK i \in DOMAIN raw : p \in {i} \X T!expandRawTier(raw[i])
    OBVIOUS
  <2>2. p[1] = i /\ p[2] \in T!expandRawTier(raw[i]) /\ p = <<p[1], p[2]>>
    BY <2>1
  <2>3. i \in Nat
    BY <1>2
  <2> QED
    BY <1>4, <2>2, <2>3
<1> HIDE DEF sets, in
<1>9. /\ DOMAIN tiers = UNION sets
      /\ \A p \in UNION sets :
           /\ tiers[p].targetAmount = raw[p[1]].targetAmount
           /\ tiers[p].rewardPercent = raw[p[1]].roleRewards[p[2]].rewardPercent
  BY <1>3
<1>10. \A p \in UNION sets : tiers[p].targetAmount \in Nat /\ tiers[p].rewardPercent \in Nat
  BY <1>4, <1>8, <1>9
<1> QED
  BY <1>7, <1>8, <1>9, <1>10 DEF tiers

\* The totals of the invoices.
TotalOf == [i \in YearInvoices |-> yearInvoices[i].total]

\* The revenue of a period is the total of its invoices.
LEMMA RevenueIs ==
  ASSUME T!TargetsAssumption, T!TypeOK, NEW period
  PROVE  /\ T!calcRevenue(period) = Total(T!filterRevenueInvoices(period), TotalOf)
         /\ Summed(T!filterRevenueInvoices(period), TotalOf)
         /\ T!calcRevenue(period) \in Nat
<1> DEFINE these == T!filterRevenueInvoices(period)
           w == [i \in these |-> yearInvoices[i].total]
<1>1. /\ these \subseteq YearInvoices
      /\ \A i \in these : yearInvoices[i].total \in Nat
  BY DEF T!filterRevenueInvoices, T!isValidRevenueInvoice, T!TypeOK, T!Invoice,
         T!TargetsAssumption
<1>2. T!calcRevenue(period) = T!SumFunction(w) /\ DOMAIN w = these
  BY DEF T!calcRevenue
<1>3. \A i \in these : w[i] = TotalOf[i] /\ TotalOf[i] \in Nat
  BY <1>1 DEF TotalOf
<1> HIDE DEF these, w
<1>4. IsFiniteSet(these)
  BY <1>1, TargetsFinite, FS_Subset DEF T!TargetsAssumption
<1>5. Summed(these, TotalOf)
  BY <1>3, <1>4 DEF Summed
<1>6. T!SumFunction(w) = Total(these, TotalOf)
  BY <1>2, <1>3, <1>4, SumIs
<1>7. Total(these, TotalOf) \in Nat
  <2>1. \A i \in these : TotalOf[i] >= 0
    BY <1>3
  <2> QED
    BY <1>5, <2>1, TotalInt
<1> QED
  BY <1>2, <1>5, <1>6, <1>7 DEF these

\* The eligible members of a role.
Eligible(period, role) == T!filterEligibleStaffForRole(period, role)

\* They are members, and finitely many.
LEMMA EligibleAre ==
  ASSUME T!TargetsAssumption, NEW period, NEW role
  PROVE  /\ Eligible(period, role) \subseteq T!Members
         /\ IsFiniteSet(T!Members) /\ IsFiniteSet(Eligible(period, role))
         /\ Cardinality(Eligible(period, role)) \in Nat
         /\ Cardinality(Eligible(period, role)) = 0 <=> Eligible(period, role) = {}
<1>1. Eligible(period, role) \subseteq T!Members
  BY DEF Eligible, T!filterEligibleStaffForRole, T!isStaffEligible, T!Members
<1>2. IsFiniteSet(T!Members)
  BY TargetsFinite, FS_Subset DEF T!Members, T!TargetsAssumption
<1> QED
  BY <1>1, <1>2, FS_Subset, FS_CardinalityType, FS_EmptySet

\* A pool is shared by those who are eligible, but for half a cent each.
LEMMA BreakdownIs ==
  ASSUME T!TargetsAssumption, T!TypeOK, NEW type, NEW period,
         NEW p \in DOMAIN T!extractTiers(type)
  PROVE  LET tiers == T!extractTiers(type)
             b == T!computeRoleBreakdown(T!calcRevenue(period), tiers, period)
             count == Cardinality(Eligible(period, tiers[p].role))
         IN  /\ b[p].role = tiers[p].role /\ b[p].eligibleStaffCount = count
             /\ b[p].pool \in Nat /\ b[p].sharePerStaff \in Nat
             /\ count > 0 => /\ 2 * (count * b[p].sharePerStaff - b[p].pool) <= count
                             /\ 2 * (b[p].pool - count * b[p].sharePerStaff) <= count
<1> DEFINE tiers == T!extractTiers(type)
           b == T!computeRoleBreakdown(T!calcRevenue(period), tiers, period)
           revenue == T!calcRevenue(period)
           count == Cardinality(Eligible(period, tiers[p].role))
           achieved == revenue >= tiers[p].targetAmount
           percent == tiers[p].rewardPercent
<1>1. tiers[p].targetAmount \in Nat /\ percent \in Nat
  BY TiersAre
<1>2. revenue \in Nat
  BY RevenueIs
<1>3. count \in Nat /\ count = T!Cardinality(T!filterEligibleStaffForRole(period, tiers[p].role))
  BY EligibleAre, TargetsFinite DEF Eligible
<1>4. /\ b[p].role = tiers[p].role /\ b[p].eligibleStaffCount = count
      /\ b[p].pool = IF achieved THEN T!calcRewardPool(revenue, percent) ELSE 0
      /\ b[p].sharePerStaff = IF achieved THEN T!calcSharePerStaff(b[p].pool, count) ELSE 0
  BY <1>3 DEF T!computeRoleBreakdown
<1> HIDE DEF tiers, b, revenue, count, percent
<1>5. T!calcRewardPool(revenue, percent) \in Nat
  <2>1. revenue * percent \in Nat
    BY <1>1, <1>2
  <2> QED
    BY <2>1, RoundedIs DEF T!calcRewardPool
<1>6. b[p].pool \in Nat
  BY <1>4, <1>5
<1>7. ASSUME NEW pool \in Nat
      PROVE  /\ T!calcSharePerStaff(pool, count) \in Nat
             /\ count > 0 =>
                  /\ 2 * (count * T!calcSharePerStaff(pool, count) - pool) <= count
                  /\ 2 * (pool - count * T!calcSharePerStaff(pool, count)) <= count
  <2>1. CASE count = 0
    BY <2>1 DEF T!calcSharePerStaff
  <2>2. CASE count > 0
    <3>1. T!calcSharePerStaff(pool, count) = T!Rounded(pool, count)
      BY <1>3, <2>2 DEF T!calcSharePerStaff
    <3> QED
      BY <1>3, <2>2, <3>1, RoundedIs
  <2> QED
    BY <1>3, <2>1, <2>2
<1>8. CASE achieved
  BY <1>4, <1>6, <1>7, <1>8 DEF count, tiers, b, revenue
<1>9. CASE ~achieved
  <2>1. b[p].pool = 0 /\ b[p].sharePerStaff = 0
    BY <1>4, <1>9
  <2>2. count * 0 = 0
    BY <1>3
  <2>3. /\ 2 * (count * b[p].sharePerStaff - b[p].pool) <= count
        /\ 2 * (b[p].pool - count * b[p].sharePerStaff) <= count
    BY <1>3, <2>1, <2>2
  <2> QED
    BY <1>4, <1>6, <2>1, <2>3 DEF count, tiers, b, revenue
<1> QED
  BY <1>8, <1>9

-----------------------------------------------------------------------------
(* Targets: who gets what of which tier.                                   *)

\* Those who get a share, the tier each gets it of, and who gets one of a tier.
Own(tiers, s) == {p \in DOMAIN tiers : tiers[p].role = staff[s].role}
Got(tiers, period) ==
  {s \in T!Members : T!isStaffEligible(s, period) /\ Own(tiers, s) # {}}
TierOf(tiers, period) == [s \in Got(tiers, period) |-> T!FirstOf(Own(tiers, s))]
GotOf(tiers, period) ==
  [p \in DOMAIN tiers |-> {s \in Got(tiers, period) : TierOf(tiers, period)[s] = p}]

\* Each gets it of one tier, which gives to nobody or to all who are eligible.
LEMMA GotAre ==
  ASSUME T!TargetsAssumption, T!TypeOK, NEW type, NEW period
  PROVE  LET tiers == T!extractTiers(type)
             got == Got(tiers, period)
             of == GotOf(tiers, period)
         IN  /\ got \subseteq T!Members /\ IsFiniteSet(got)
             /\ Sorted(got, DOMAIN tiers, TierOf(tiers, period), of)
             /\ \A p \in DOMAIN tiers :
                  /\ of[p] = {} \/ of[p] = Eligible(period, tiers[p].role)
                  /\ T!OneTierPerRole(tiers) => of[p] = Eligible(period, tiers[p].role)
<1> DEFINE tiers == T!extractTiers(type)
           got == Got(tiers, period)
           kind == TierOf(tiers, period)
           of == GotOf(tiers, period)
<1>1. IsFiniteSet(DOMAIN tiers) /\ DOMAIN tiers \subseteq Nat \X Nat
  BY TiersAre
<1>2. got \subseteq T!Members
  BY DEF Got
<1>3. IsFiniteSet(got)
  BY <1>2, EligibleAre, FS_Subset
<1> HIDE DEF tiers
<1>4. ASSUME NEW s, Own(tiers, s) # {}
      PROVE  T!FirstOf(Own(tiers, s)) \in Own(tiers, s)
  <2>1. Own(tiers, s) \subseteq DOMAIN tiers
    BY DEF Own
  <2>2. IsFiniteSet(Own(tiers, s)) /\ Own(tiers, s) \subseteq Nat \X Nat
    BY <1>1, <2>1, FS_Subset
  <2> QED
    BY <1>4, <2>2, FirstIsOne
<1>5. \A s \in got : kind[s] = T!FirstOf(Own(tiers, s)) /\ kind[s] \in Own(tiers, s)
  BY <1>4 DEF Got, TierOf
<1>6. \A s \in got : kind[s] \in DOMAIN tiers /\ tiers[kind[s]].role = staff[s].role
  BY <1>5 DEF Own
<1>7. \A p \in DOMAIN tiers : of[p] = {s \in got : kind[s] = p}
  BY DEF GotOf
<1>8. \A s \in got : T!isStaffEligible(s, period) /\ s \in Staff
  BY DEF Got, T!Members
<1>9. ASSUME NEW role, NEW s \in Eligible(period, role)
      PROVE  /\ s \in T!Members /\ T!isStaffEligible(s, period) /\ staff[s].role = role
             /\ Own(tiers, s) = {p \in DOMAIN tiers : tiers[p].role = role}
  BY <1>9 DEF Eligible, T!filterEligibleStaffForRole, T!isStaffEligible, T!Members, Own
<1>10. Sorted(got, DOMAIN tiers, kind, of)
  <2> HIDE DEF got, kind, of
  <2> QED
    BY <1>6, <1>7 DEF Sorted
<1>11. ASSUME NEW p \in DOMAIN tiers
       PROVE  /\ of[p] = {} \/ of[p] = Eligible(period, tiers[p].role)
              /\ T!OneTierPerRole(tiers) => of[p] = Eligible(period, tiers[p].role)
  <2> DEFINE E == Eligible(period, tiers[p].role)
             same == {q \in DOMAIN tiers : tiers[q].role = tiers[p].role}
  <2>1. p \in same
    OBVIOUS
  <2>2. ASSUME NEW s \in E
        PROVE  s \in got /\ kind[s] = T!FirstOf(same)
    <3>1. s \in T!Members /\ T!isStaffEligible(s, period) /\ Own(tiers, s) = same
      BY <1>9
    <3>2. s \in got
      BY <2>1, <3>1 DEF Got
    <3> HIDE DEF same, got, kind
    <3> QED
      BY <1>5, <3>1, <3>2
  <2>3. ASSUME NEW s \in of[p]
        PROVE  s \in E
    <3>1. s \in got /\ kind[s] = p
      BY <1>7
    <3>2. staff[s].role = tiers[p].role /\ T!isStaffEligible(s, period) /\ s \in Staff
      BY <1>6, <1>8, <3>1
    <3> QED
      BY <3>2 DEF Eligible, T!filterEligibleStaffForRole
  <2> HIDE DEF E, got, kind, of
  <2>4. ASSUME NEW s \in of[p]
        PROVE  E \subseteq of[p]
    <3>1. kind[s] = p /\ s \in E
      BY <1>7, <2>3, <2>4
    <3>2. T!FirstOf(same) = p
      BY <2>2, <3>1
    <3> QED
      BY <1>7, <2>2, <3>2
  <2>5. of[p] = {} \/ of[p] = E
    BY <2>3, <2>4
  <2>6. ASSUME T!OneTierPerRole(tiers)
        PROVE  of[p] = E
    <3>1. same = {p}
      BY <2>6 DEF T!OneTierPerRole
    <3>2. T!FirstOf({p}) = p
      <4>1. {p} \subseteq Nat \X Nat
        BY <1>1
      <4>2. T!FirstOf({p}) \in {p}
        BY <4>1, FS_Singleton, FirstIsOne
      <4> QED
        BY <4>2
    <3>3. E \subseteq of[p]
      BY <1>7, <2>2, <3>1, <3>2
    <3> QED
      BY <2>3, <3>3
  <2> QED
    BY <2>5, <2>6 DEF E
<1> QED
  BY <1>2, <1>3, <1>10, <1>11 DEF tiers

\* What each member gets in a period.
SharesIn(b, period) == [s \in T!Members |-> T!ShareOf(b, s, period)]

\* What a period computes, as totals over the members and the tiers.
LEMMA ResultIs ==
  ASSUME T!TargetsAssumption, T!TypeOK, NEW type, NEW period
  PROVE  LET result == T!computePeriodResult(type, period)
             tiers == T!extractTiers(type)
             b == T!computeRoleBreakdown(T!calcRevenue(period), tiers, period)
             pool == [p \in DOMAIN tiers |-> b[p].pool]
             share == SharesIn(b, period)
             fund == [p \in DOMAIN tiers |->
                        IF b[p].eligibleStaffCount > 0 THEN b[p].pool ELSE 0]
         IN  /\ result.revenue = T!calcRevenue(period)
             /\ T!Paid(result) = Total(T!Members, share)
             /\ result.totalRewardPool = Total(DOMAIN tiers, pool)
             /\ T!Funded(result) = Total(DOMAIN tiers, fund)
             /\ Summed(DOMAIN tiers, pool) /\ Summed(DOMAIN tiers, fund)
<1> DEFINE result == T!computePeriodResult(type, period)
           tiers == T!extractTiers(type)
           places == DOMAIN tiers
           b == T!computeRoleBreakdown(T!calcRevenue(period), tiers, period)
           pool == [p \in places |-> b[p].pool]
           share == SharesIn(b, period)
           fund == [p \in places |-> IF b[p].eligibleStaffCount > 0 THEN b[p].pool ELSE 0]
           funded == {q \in places : b[q].eligibleStaffCount > 0}
<1>1. DOMAIN b = places
  BY DEF T!computeRoleBreakdown
<1>2. /\ result.revenue = T!calcRevenue(period) /\ result.roleBreakdown = b
      /\ result.totalRewardPool = T!SumFunction([p \in DOMAIN b |-> b[p].pool])
      /\ result.shares = share
  BY DEF T!computePeriodResult, T!Members, SharesIn
<1>3. IsFiniteSet(places) /\ IsFiniteSet(T!Members) /\ IsFiniteSet(funded)
  BY TiersAre, EligibleAre, FS_Subset
<1>4. \A p \in places : b[p].pool \in Nat
  BY BreakdownIs
<1> HIDE DEF result, b, tiers
<1>5. Summed(places, pool) /\ Summed(places, fund)
  BY <1>3, <1>4 DEF Summed
<1>6. result.totalRewardPool = Total(places, pool)
  <2>1. result.totalRewardPool = T!SumFunction(pool)
    BY <1>1, <1>2
  <2> QED
    BY <1>3, <2>1, SumIs
<1>7. T!Paid(result) = Total(T!Members, share)
  <2>1. T!Paid(result) = T!SumFunction(share)
    BY <1>2 DEF T!Paid
  <2>2. DOMAIN share = T!Members
    BY DEF SharesIn
  <2> QED
    BY <1>3, <2>1, <2>2, SumIs
<1>8. T!Funded(result) = Total(places, fund)
  <2> DEFINE w == [p \in funded |-> b[p].pool]
  <2>1. T!Funded(result) = T!SumFunction(w)
    BY <1>1, <1>2 DEF T!Funded
  <2>2. T!SumFunction(w) = Total(funded, fund)
    <3>1. DOMAIN w = funded /\ \A p \in funded : w[p] = fund[p]
      OBVIOUS
    <3> HIDE DEF w, fund, funded
    <3> QED
      BY <1>3, <3>1, SumIs
  <2>3. \A p \in places \ funded : fund[p] = 0
    OBVIOUS
  <2> HIDE DEF w, fund
  <2>4. Total(places, fund) = Total(funded, fund)
    BY <1>5, <2>3, TotalWithin
  <2> QED
    BY <2>1, <2>2, <2>4
<1> QED
  BY <1>2, <1>5, <1>6, <1>7, <1>8 DEF result, b, tiers

\* What the members get is what the tiers give to those who get of each.
LEMMA PaidByTier ==
  ASSUME T!TargetsAssumption, T!TypeOK, NEW type, NEW period
  PROVE  LET tiers == T!extractTiers(type)
             b == T!computeRoleBreakdown(T!calcRevenue(period), tiers, period)
             of == GotOf(tiers, period)
             paid == [p \in DOMAIN tiers |-> Cardinality(of[p]) * b[p].sharePerStaff]
             heads == [p \in DOMAIN tiers |-> Cardinality(of[p])]
         IN  /\ T!Paid(T!computePeriodResult(type, period)) = Total(DOMAIN tiers, paid)
             /\ Total(DOMAIN tiers, heads) <= Cardinality(T!Members)
             /\ Cardinality(T!Members) \in Nat /\ T!Cardinality(T!Members) = Cardinality(T!Members)
             /\ Summed(DOMAIN tiers, paid) /\ Summed(DOMAIN tiers, heads)
<1> DEFINE tiers == T!extractTiers(type)
           places == DOMAIN tiers
           b == T!computeRoleBreakdown(T!calcRevenue(period), tiers, period)
           got == Got(tiers, period)
           kind == TierOf(tiers, period)
           of == GotOf(tiers, period)
           paid == [p \in places |-> Cardinality(of[p]) * b[p].sharePerStaff]
           heads == [p \in places |-> Cardinality(of[p])]
           share == SharesIn(b, period)
           one == [s \in got |-> 1]
<1>1. /\ got \subseteq T!Members /\ IsFiniteSet(got)
      /\ Sorted(got, places, kind, of)
  BY GotAre
<1>2. IsFiniteSet(T!Members) /\ IsFiniteSet(places)
  BY EligibleAre, TiersAre
<1>3. \A p \in places : b[p].role = tiers[p].role /\ b[p].sharePerStaff \in Nat
  BY BreakdownIs
<1>4. DOMAIN b = places
  BY DEF T!computeRoleBreakdown
<1>5. T!Paid(T!computePeriodResult(type, period)) = Total(T!Members, share)
  BY ResultIs
<1> HIDE DEF tiers, b
<1>6. \A s \in got : share[s] = b[kind[s]].sharePerStaff
  <2> SUFFICES ASSUME NEW s \in got
               PROVE  share[s] = b[kind[s]].sharePerStaff
    OBVIOUS
  <2>1. Own(tiers, s) = {p \in DOMAIN b : b[p].role = staff[s].role}
    BY <1>3, <1>4 DEF Own
  <2>2. T!isStaffEligible(s, period) /\ Own(tiers, s) # {} /\ s \in T!Members
    BY DEF Got
  <2>3. kind[s] = T!FirstOf(Own(tiers, s))
    BY DEF TierOf
  <2> QED
    BY <2>1, <2>2, <2>3 DEF T!ShareOf, SharesIn
<1>7. \A s \in T!Members \ got : share[s] = 0
  <2> SUFFICES ASSUME NEW s \in T!Members \ got
               PROVE  share[s] = 0
    OBVIOUS
  <2>1. Own(tiers, s) = {p \in DOMAIN b : b[p].role = staff[s].role}
    BY <1>3, <1>4 DEF Own
  <2>2. ~(T!isStaffEligible(s, period) /\ Own(tiers, s) # {})
    BY DEF Got
  <2> QED
    BY <2>1, <2>2 DEF T!ShareOf, SharesIn
<1>8. \A s \in got : kind[s] \in places
  BY <1>1 DEF Sorted
<1>9. Summed(T!Members, share) /\ Summed(got, share)
  <2>1. \A s \in T!Members : share[s] \in Int
    <3> HIDE DEF share, got
    <3> QED
      BY <1>3, <1>6, <1>7, <1>8
  <2> HIDE DEF share
  <2> QED
    BY <1>1, <1>2, <2>1 DEF Summed
<1>10. Total(T!Members, share) = Total(got, share)
  <2> HIDE DEF share, got
  <2> QED
    BY <1>1, <1>7, <1>9, TotalWithin
<1>11. Total(got, one) = Cardinality(got) /\ Summed(got, one)
  <2>1. Cardinality(got) \in Nat
    BY <1>1, FS_CardinalityType
  <2>2. Total(got, one) = Cardinality(got) * 1 /\ Summed(got, one)
    BY <1>1, TotalEach
  <2> QED
    BY <2>1, <2>2
<1>12. Cardinality(got) <= Cardinality(T!Members) /\ Cardinality(T!Members) \in Nat
  BY <1>1, <1>2, FS_Subset, FS_CardinalityType
<1>13. ASSUME NEW p \in places
       PROVE  /\ of[p] \subseteq got /\ IsFiniteSet(of[p]) /\ Cardinality(of[p]) \in Nat
              /\ \A s \in of[p] : share[s] = b[p].sharePerStaff
  <2>1. of[p] \subseteq got /\ \A s \in of[p] : kind[s] = p
    <3> HIDE DEF of, kind, got
    <3> QED
      BY <1>1 DEF Sorted
  <2> HIDE DEF of, kind, got, share
  <2>2. IsFiniteSet(of[p])
    BY <1>1, <2>1, FS_Subset
  <2>3. Cardinality(of[p]) \in Nat
    BY <2>2, FS_CardinalityType
  <2> QED
    BY <1>6, <2>1, <2>2, <2>3
<1> HIDE DEF of, kind, got, share
<1>14. Total(places, paid) = Total(got, share) /\ Summed(places, paid)
  <2>1. \A p \in places : paid[p] = Total(of[p], share)
    <3> SUFFICES ASSUME NEW p \in places
                 PROVE  paid[p] = Total(of[p], share)
      OBVIOUS
    <3>1. b[p].sharePerStaff \in Int
      BY <1>3
    <3> QED
      BY <1>13, <3>1, TotalEach
  <2> HIDE DEF paid
  <2> QED
    BY <1>1, <1>2, <1>9, <2>1, TotalByKind
<1>15. Total(places, heads) = Total(got, one) /\ Summed(places, heads)
  <2>1. \A p \in places : heads[p] = Total(of[p], one)
    <3> SUFFICES ASSUME NEW p \in places
                 PROVE  heads[p] = Total(of[p], one)
      OBVIOUS
    <3>1. Total(of[p], one) = Cardinality(of[p]) * 1
      BY <1>13, TotalEach
    <3> QED
      BY <1>13, <3>1
  <2> HIDE DEF heads, one
  <2> QED
    BY <1>1, <1>2, <1>11, <2>1, TotalByKind
<1> QED
  BY <1>5, <1>10, <1>11, <1>12, <1>14, <1>15, TargetsFinite DEF share, tiers, b, of

\* The shares of a period exceed the pools, or miss the funded ones, by half a
\* cent for each member at most.
LEMMA PeriodPays ==
  ASSUME T!TargetsAssumption, T!TypeOK, NEW type, NEW period
  PROVE  LET result == T!computePeriodResult(type, period)
         IN  /\ T!AtMost(T!Paid(result), result.totalRewardPool)
             /\ T!OneTierPerRole(T!extractTiers(type)) =>
                  /\ T!AtMost(T!Paid(result), T!Funded(result))
                  /\ T!AtMost(T!Funded(result), T!Paid(result))
<1> DEFINE result == T!computePeriodResult(type, period)
           tiers == T!extractTiers(type)
           places == DOMAIN tiers
           b == T!computeRoleBreakdown(T!calcRevenue(period), tiers, period)
           of == GotOf(tiers, period)
           count(p) == Cardinality(Eligible(period, tiers[p].role))
           pool == [p \in places |-> b[p].pool]
           fund == [p \in places |-> IF b[p].eligibleStaffCount > 0 THEN b[p].pool ELSE 0]
           paid == [p \in places |-> Cardinality(of[p]) * b[p].sharePerStaff]
           heads == [p \in places |-> Cardinality(of[p])]
<1>1. /\ result.totalRewardPool = Total(places, pool) /\ Summed(places, pool)
      /\ T!Funded(result) = Total(places, fund) /\ Summed(places, fund)
  BY ResultIs
<1>2. /\ T!Paid(result) = Total(places, paid) /\ Summed(places, paid)
      /\ Total(places, heads) <= Cardinality(T!Members) /\ Summed(places, heads)
      /\ Cardinality(T!Members) \in Nat /\ T!Cardinality(T!Members) = Cardinality(T!Members)
  BY PaidByTier
<1>3. ASSUME NEW p \in places
      PROVE  /\ b[p].eligibleStaffCount = count(p) /\ b[p].pool \in Nat /\ b[p].sharePerStaff \in Nat
             /\ count(p) > 0 => /\ 2 * (count(p) * b[p].sharePerStaff - b[p].pool) <= count(p)
                                /\ 2 * (b[p].pool - count(p) * b[p].sharePerStaff) <= count(p)
  BY BreakdownIs
<1>4. ASSUME NEW p \in places
      PROVE  /\ count(p) \in Nat /\ (count(p) = 0 <=> Eligible(period, tiers[p].role) = {})
             /\ of[p] = {} \/ of[p] = Eligible(period, tiers[p].role)
             /\ T!OneTierPerRole(tiers) => of[p] = Eligible(period, tiers[p].role)
  BY EligibleAre, GotAre
<1>5. ASSUME NEW p \in places
      PROVE  /\ Cardinality(of[p]) = 0 \/ Cardinality(of[p]) = count(p)
             /\ T!OneTierPerRole(tiers) => Cardinality(of[p]) = count(p)
  BY <1>4, FS_EmptySet
<1> HIDE DEF result, tiers, b, of, count
<1>6. \A p \in places : 2 * (paid[p] - pool[p]) <= heads[p]
  <2> SUFFICES ASSUME NEW p \in places
               PROVE  2 * (Cardinality(of[p]) * b[p].sharePerStaff - b[p].pool)
                        <= Cardinality(of[p])
    OBVIOUS
  <2>1. CASE Cardinality(of[p]) = 0
    <3>1. 0 * b[p].sharePerStaff = 0
      BY <1>3
    <3> QED
      BY <1>3, <2>1, <3>1
  <2>2. CASE Cardinality(of[p]) = count(p) /\ Cardinality(of[p]) # 0
    BY <1>3, <1>4, <2>2
  <2> QED
    BY <1>5, <2>1, <2>2
<1>7. ASSUME T!OneTierPerRole(tiers), NEW p \in places
      PROVE  2 * (paid[p] - fund[p]) <= heads[p] /\ 2 * (fund[p] - paid[p]) <= heads[p]
  <2>1. /\ paid[p] = count(p) * b[p].sharePerStaff /\ heads[p] = count(p)
        /\ fund[p] = IF count(p) > 0 THEN b[p].pool ELSE 0
    BY <1>3, <1>5, <1>7
  <2>2. CASE count(p) = 0
    <3>1. 0 * b[p].sharePerStaff = 0
      BY <1>3
    <3> QED
      BY <2>1, <2>2, <3>1
  <2>3. CASE count(p) > 0
    BY <1>3, <2>1, <2>3
  <2> QED
    BY <1>4, <2>2, <2>3
<1> HIDE DEF paid, heads, fund, pool, places
<1>8. /\ Total(places, paid) \in Int /\ Total(places, heads) \in Int
      /\ Total(places, pool) \in Int /\ Total(places, fund) \in Int
  BY <1>1, <1>2, TotalInt
<1>9. T!AtMost(T!Paid(result), result.totalRewardPool)
  <2>1. 2 * (Total(places, paid) - Total(places, pool)) <= Total(places, heads)
    BY <1>1, <1>2, <1>6, TotalHalf
  <2> QED
    BY <1>1, <1>2, <1>8, <2>1 DEF T!AtMost
<1>10. ASSUME T!OneTierPerRole(tiers)
       PROVE  /\ T!AtMost(T!Paid(result), T!Funded(result))
              /\ T!AtMost(T!Funded(result), T!Paid(result))
  <2>1. 2 * (Total(places, paid) - Total(places, fund)) <= Total(places, heads)
    BY <1>1, <1>2, <1>7, <1>10, TotalHalf
  <2>2. 2 * (Total(places, fund) - Total(places, paid)) <= Total(places, heads)
    BY <1>1, <1>2, <1>7, <1>10, TotalHalf
  <2> QED
    BY <1>1, <1>2, <1>8, <2>1, <2>2 DEF T!AtMost
<1> QED
  BY <1>9, <1>10 DEF result, tiers

-----------------------------------------------------------------------------
(* Targets: the periods of a year.                                         *)

\* The periods of a year have each of its months once.
LEMMA PeriodsAre ==
  ASSUME NEW type
  PROVE  LET periods == T!getPeriodsForYear(type)
         IN  /\ IsFiniteSet(periods)
             /\ \A period \in periods : period \subseteq 1..12
             /\ \A m \in 1..12 : \E period \in periods : m \in period
             /\ \A p, q \in periods : \A m \in p : m \in q => p = q
<1> DEFINE n == T!MonthsIn(type)
           end == 12 \div n - 1
           cut == [k \in 0..end |-> (k * n + 1)..(k * n + n)]
           periods == {cut[k] : k \in 0..end}
<1>1. n \in {1, 3, 6, 12}
  BY DEF T!MonthsIn
<1>2. T!getPeriodsForYear(type) = periods
  BY DEF T!getPeriodsForYear
<1> HIDE DEF n
<1>3. end \in Nat /\ (n = 1 => end = 11) /\ (n = 3 => end = 3) /\ (n = 6 => end = 1)
      /\ (n = 12 => end = 0)
  BY <1>1
<1> HIDE DEF end
<1>4. IsFiniteSet(periods)
  <2>1. cut \in Surjection(0..end, periods)
    BY DEF Surjection
  <2>2. IsFiniteSet(0..end)
    BY <1>3, FS_Interval
  <2> QED
    BY <2>1, <2>2, FS_Surjection
<1>5. ASSUME NEW k \in 0..end
      PROVE  cut[k] \subseteq 1..12
  BY <1>1, <1>3
<1>6. ASSUME NEW m \in 1..12
      PROVE  \E k \in 0..end : m \in cut[k]
  <2> DEFINE k == (m - 1) \div n
  <2>1. k \in 0..end /\ k * n + 1 <= m /\ m <= k * n + n
    BY <1>1, <1>3
  <2> HIDE DEF k
  <2>2. m \in (k * n + 1)..(k * n + n)
    BY <1>1, <1>3, <2>1
  <2> QED
    BY <2>1, <2>2
<1>7. ASSUME NEW j \in 0..end, NEW k \in 0..end, NEW m \in cut[j], m \in cut[k]
      PROVE  j = k
  <2>1. m \in Int /\ j * n + 1 <= m /\ m <= j * n + n /\ k * n + 1 <= m /\ m <= k * n + n
    BY <1>1, <1>3, <1>7
  <2> QED
    BY <1>1, <1>3, <2>1
<1> HIDE DEF cut
<1> QED
  BY <1>2, <1>4, <1>5, <1>6, <1>7

\* The revenues of the periods of a year are the revenue of the year.
LEMMA RevenuesAddUp ==
  ASSUME T!TargetsAssumption, T!TypeOK, NEW type, NEW v,
         DOMAIN v = T!getPeriodsForYear(type),
         \A period \in T!getPeriodsForYear(type) : v[period] = T!calcRevenue(period)
  PROVE  T!SumFunction(v) = T!calcRevenue(1..12)
<1> DEFINE periods == T!getPeriodsForYear(type)
           year == T!filterRevenueInvoices(1..12)
           kind == [i \in year |-> CHOOSE period \in periods : yearInvoices[i].month \in period]
           of == [period \in periods |-> T!filterRevenueInvoices(period)]
<1>1. /\ IsFiniteSet(periods) /\ \A period \in periods : period \subseteq 1..12
      /\ \A m \in 1..12 : \E period \in periods : m \in period
      /\ \A p, q \in periods : \A m \in p : m \in q => p = q
  BY PeriodsAre
<1>2. T!calcRevenue(1..12) = Total(year, TotalOf) /\ Summed(year, TotalOf)
  BY RevenueIs
<1>3. \A period \in periods : v[period] = Total(of[period], TotalOf)
  BY RevenueIs
<1>4. \A i \in year : yearInvoices[i].month \in 1..12
  BY DEF T!filterRevenueInvoices
<1>5. ASSUME NEW period \in periods
      PROVE  of[period] = {i \in year : yearInvoices[i].month \in period}
  BY <1>1 DEF T!filterRevenueInvoices
<1> HIDE DEF periods, year, of
<1>6. \A i \in year : kind[i] \in periods /\ yearInvoices[i].month \in kind[i]
  BY <1>1, <1>4
<1>7. Sorted(year, periods, kind, of)
  <2> HIDE DEF kind
  <2>1. ASSUME NEW period \in periods
        PROVE  of[period] \subseteq year /\ \A i \in year : i \in of[period] <=> kind[i] = period
    BY <1>1, <1>5, <1>6
  <2> QED
    BY <1>6, <2>1 DEF Sorted
<1> HIDE DEF kind
<1>8. Total(periods, v) = Total(year, TotalOf)
  BY <1>1, <1>2, <1>3, <1>7, TotalByKind
<1>9. T!SumFunction(v) = Total(periods, v)
  BY <1>1, SumIs DEF periods
<1> QED
  BY <1>2, <1>8, <1>9

-----------------------------------------------------------------------------
\* It follows from the types of what it is computed from.
LEMMA SharesHold ==
  ASSUME T!TargetsAssumption, T!TypeOK
  PROVE  T!SharesAddUp
<1> SUFFICES ASSUME NEW type \in T!PeriodTypes
             PROVE  LET results == [period \in T!getPeriodsForYear(type) |->
                                      T!computePeriodResult(type, period)]
                    IN  /\ \A period \in T!getPeriodsForYear(type) :
                             LET result == results[period]
                             IN  /\ T!AtMost(T!Paid(result), result.totalRewardPool)
                                 /\ T!OneTierPerRole(T!extractTiers(type)) =>
                                      /\ T!AtMost(T!Paid(result), T!Funded(result))
                                      /\ T!AtMost(T!Funded(result), T!Paid(result))
                        /\ T!SumFunction([period \in T!getPeriodsForYear(type) |->
                                            results[period].revenue])
                             = T!calcRevenue(1..12)
  BY DEF T!SharesAddUp
<1> DEFINE periods == T!getPeriodsForYear(type)
           results == [period \in periods |-> T!computePeriodResult(type, period)]
           revenues == [period \in periods |-> results[period].revenue]
<1>1. ASSUME NEW period \in periods
      PROVE  LET result == results[period]
             IN  /\ T!AtMost(T!Paid(result), result.totalRewardPool)
                 /\ T!OneTierPerRole(T!extractTiers(type)) =>
                      /\ T!AtMost(T!Paid(result), T!Funded(result))
                      /\ T!AtMost(T!Funded(result), T!Paid(result))
  <2>1. results[period] = T!computePeriodResult(type, period)
    OBVIOUS
  <2> HIDE DEF results
  <2> QED
    BY <2>1, PeriodPays
<1>2. T!SumFunction(revenues) = T!calcRevenue(1..12)
  <2>1. \A period \in periods : revenues[period] = T!calcRevenue(period)
    <3> SUFFICES ASSUME NEW period \in periods
                 PROVE  T!computePeriodResult(type, period).revenue = T!calcRevenue(period)
      OBVIOUS
    <3> QED
      BY ResultIs
  <2>2. DOMAIN revenues = periods
    OBVIOUS
  <2> HIDE DEF revenues
  <2> QED
    BY <2>1, <2>2, RevenuesAddUp
<1> QED
  BY <1>1, <1>2

\* What the members are told, each by itself, adds up: the shares of a period
\* never exceed the pools of its tiers, and are all of the pools somebody is
\* eligible for when no role has two tiers, but for half a cent each; and
\* however the year is cut into periods, they have its revenue, each invoice
\* once (company-target-engine.ts), for any settings, members and invoices.
THEOREM SharesOfTargets ==
  /\ T!Spec => [](T!TypeOK /\ T!SharesAddUp)
  /\ OfficeSpec => []SharesAddUp
<1>1. T!TargetsAssumption
  BY OfficeAssumption DEF OfficeAssumption
<1>2. T!TypeOK => T!SharesAddUp
  BY <1>1, SharesHold
<1>3. T!SharesAddUp => SharesAddUp
  BY DEF SharesAddUp
<1> QED
  BY <1>2, <1>3, TargetsTyped, EachPartRuns, PTL
===============================================================================
