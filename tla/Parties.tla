------------------------------- MODULE Parties -------------------------------
(***************************************************************************)
(* The list of parties of a workshop.  It is stored nowhere: every request *)
(* merges the customers, the names in the vendor directory and on the      *)
(* expenses, and the rows of the Party table, which are written by whoever *)
(* edits a party and by the mirror of the vendor directory.  Rows and      *)
(* names find each other through ids, a key or a spelling.                 *)
(***************************************************************************)
EXTENDS Naturals, FiniteSets

CONSTANTS
  Customers, Profiles,  \* customers; ids of entries of the vendor directory
  Names,       \* spellings of vendors
  Norm,        \* normalizeVendorName: what the spelling of a name does not tell apart
  MirrorKey,   \* the key the mirror stores for a name: a spelling as well
  Workers,     \* requests that may overlap
  MaxOpening,  \* bound: an opening balance
  MaxWrites,   \* bound: writes by requests and by the mirror
  None

VARIABLES
  customers,  \* customers there are
  directory,  \* the name of each profile
  spent,      \* names on expenses
  rows,       \* the Party table
  hidden,     \* PartyHidden
  task,       \* the request of each worker
  writes      \* how many there were

vars == <<customers, directory, spent, rows, hidden, task, writes>>

-----------------------------------------------------------------------------
(* Ids and rows.                                                           *)

customerPartyId(c) == <<"c", c>>
vendorPartyId(n) == <<"v", n>>         \* a name, or the id of a profile
mirrorPartyId(p) == <<"", p>>          \* the mirror takes the profile's id as it is
plainPartyId == <<"p", None>>          \* p:<time>, one of them
Ids == {customerPartyId(c) : c \in Customers} \cup {mirrorPartyId(p) : p \in Profiles}
         \cup {vendorPartyId(n) : n \in Names \cup Profiles} \cup {plainPartyId}

PartiesAssumption ==
  /\ \A n \in Names : MirrorKey[n] \in Names /\ MirrorKey[MirrorKey[n]] = MirrorKey[n]
  /\ Names \cap Profiles = {} /\ None \notin Customers \cup Names \cup Profiles \cup Ids
  /\ {MaxOpening, MaxWrites} \subseteq Nat

Row == [kind: {"customer", "supplier"}, customer: Customers \cup {None},
        vendorKey: Names \cup {None}, opening: 0..MaxOpening]
Party == [key: Ids, id: Ids, kind: {"customer", "supplier"}, customer: Customers \cup {None},
          vendorKey: Names \cup {None}, opening: 0..MaxOpening, row: Ids \cup {None}]

Task == [at: {"idle", "store", "hide"}, id: Ids \cup {None}, row: Row \cup {None},
         opening: 0..MaxOpening \cup {None}]
Idle == [at |-> "idle", id |-> None, row |-> None, opening |-> None]
Stored == {i \in Ids : rows[i] # None}

TypeOK ==
  /\ customers \subseteq Customers
  /\ directory \in [Profiles -> Names \cup {None}]
  /\ spent \subseteq Names
  /\ rows \in [Ids -> Row \cup {None}]
  /\ hidden \subseteq Ids
  /\ task \in [Workers -> Task]
  /\ writes \in 0..MaxWrites

Init ==
  /\ customers = {}
  /\ directory = [p \in Profiles |-> None]
  /\ spent = {}
  /\ rows = [i \in Ids |-> None]
  /\ hidden = {}
  /\ task = [w \in Workers |-> Idle]
  /\ writes = 0

-----------------------------------------------------------------------------
(* listParties.                                                            *)

Same(n, m) == m # None /\ n # None /\ Norm[n] = Norm[m]
Listed(p) == directory[p] # None
ProfileOf(n) == {p \in Profiles : Listed(p) /\ Same(n, directory[p])}

\* The id a name is listed under.
CanonicalId(n) ==
  IF ProfileOf(n) # {} THEN vendorPartyId(CHOOSE p \in ProfileOf(n) : TRUE) ELSE vendorPartyId(n)

\* dbById: the keys of its entries, the rows stored under a key, and the one the
\* table gives last.  A row is under its own id and under that of its customer.
CustomerIdOf(i) == IF rows[i].customer # None THEN {customerPartyId(rows[i].customer)} ELSE {}
Keys == Stored \cup UNION {CustomerIdOf(i) : i \in Stored}
RowsAt(key) == {i \in Stored : key \in {i} \cup CustomerIdOf(i)}
RowAt(key) == CHOOSE i \in RowsAt(key) : TRUE

\* Rows of a customer; rows that are taken for a name when none has its id.
RowsOfCustomer(c) == RowsAt(customerPartyId(c))
RowsOfVendor(n) == {i \in Stored : rows[i].kind = "supplier" /\ Same(n, rows[i].vendorKey)}
\* With a bug: a row is looked for by its id alone.
RowsById(n) == Stored \cap {CanonicalId(n)}
RowsForName(n) ==
  IF CanonicalId(n) \in Stored THEN {CanonicalId(n)} ELSE RowsOfVendor(n)

\* mergeParty: what the row says goes first.  The key is that of the entry in byId.
Merge(key, id, kind, customer, vendorKey, from) ==
  IF from = {}
    THEN [key |-> key, id |-> id, kind |-> kind, customer |-> customer, vendorKey |-> vendorKey,
          opening |-> 0, row |-> None]
    ELSE LET i == CHOOSE r \in from : TRUE
         IN  [key |-> key, id |-> id, kind |-> rows[i].kind,
              customer |-> IF rows[i].customer # None THEN rows[i].customer ELSE customer,
              vendorKey |-> IF rows[i].vendorKey # None THEN rows[i].vendorKey ELSE vendorKey,
              opening |-> rows[i].opening, row |-> i]

CustomerParties ==
  {Merge(customerPartyId(c), customerPartyId(c), "customer", c, None, RowsOfCustomer(c)) :
     c \in customers}

\* A spelling on an expense comes after the spelling of the directory.
Spelling(n) == directory[CHOOSE p \in ProfileOf(n) : TRUE]
VendorNames == {Spelling(directory[p]) : p \in {q \in Profiles : Listed(q)}}
                 \cup {n \in spent : ProfileOf(n) = {}}
VendorParties ==
  {Merge(CanonicalId(n), CanonicalId(n), "supplier", None, n, RowsForName(n)) : n \in VendorNames}

\* Entries of dbById the last loop may add: no customer and no name stands for
\* them, and the row was not added before under its customer's id, a key that
\* comes first when another row had put it there.
Taken == {p.id : p \in CustomerParties \cup VendorParties}
VendorIdOf(i) ==
  IF rows[i].kind = "supplier" /\ rows[i].vendorKey # None THEN {CanonicalId(rows[i].vendorKey)} ELSE {}
Free(taken) ==
  {k \in Keys : LET i == RowAt(k)
                IN  /\ taken \cap ({k} \cup VendorIdOf(i) \cup CustomerIdOf(i)) = {}
                    /\ \A c \in CustomerIdOf(i) \ {k} : c \in Stored => RowAt(c) # i}

\* What is left of them, in whatever order the table gives the rows: the row of
\* a vendor is passed over when the vendor's id is in the list by then.
Leftovers ==
  LET taken == Taken
      free == Free(taken)
  IN  {rest \in SUBSET free : \A k \in free \ rest : VendorIdOf(RowAt(k)) \cap (rest \ {k}) # {}}
OtherParties(rest) == {Merge(k, RowAt(k), rows[RowAt(k)].kind, None, None, {RowAt(k)}) : k \in rest}

AllParties(rest) == CustomerParties \cup VendorParties \cup OtherParties(rest)
listParties(rest) == {p \in AllParties(rest) : p.id \notin hidden}
getPartyById(id, rest) == {p \in listParties(rest) : p.id = id}

-----------------------------------------------------------------------------
(* Requests: they read the list, then write.                               *)

MayWrite == writes < MaxWrites
Write == MayWrite /\ writes' = writes + 1
MayBegin(w) == MayWrite /\ task[w] = Idle
Begin(w, job) == Write /\ task' = [task EXCEPT ![w] = job]
UnchangedSources == UNCHANGED <<customers, directory, spent>>

\* The row a save will store: what its form says, else what is listed.
Given(value, found, field) ==
  IF value # None THEN value ELSE IF found = {} THEN None ELSE (CHOOSE p \in found : TRUE)[field]
Opening(opening, found) ==
  IF opening = None /\ found = {} THEN 0 ELSE Given(opening, found, "opening")
SavedRow(kind, customer, vendorKey, opening, found) ==
  [kind |-> kind, customer |-> Given(customer, found, "customer"),
   vendorKey |-> Given(vendorKey, found, "vendorKey"),
   opening |-> Opening(opening, found)]

BeginSave(w, id, kind, customer, vendorKey) ==
  /\ \E found \in {getPartyById(id, rest) : rest \in Leftovers}, opening \in 0..MaxOpening \cup {None} :
       Begin(w, [at |-> "store", id |-> id, opening |-> opening,
                 row |-> SavedRow(kind, customer, vendorKey, opening, found)])
  /\ UNCHANGED <<rows, hidden>> /\ UnchangedSources

\* resolvePartyId of a form without an id.
PostParty(w) ==
  /\ MayBegin(w)
  /\ \/ \E c \in Customers : BeginSave(w, customerPartyId(c), "customer", c, None)
     \/ \E n \in Names : BeginSave(w, vendorPartyId(n), "supplier", None, n)
     \/ /\ plainPartyId \notin Stored \cup {task[v].id : v \in Workers}
        /\ \E kind \in {"customer", "supplier"} : BeginSave(w, plainPartyId, kind, None, None)

\* A form opened from the list, also of a party hidden since; a party of its
\* own may be given a customer.
PutParty(w) ==
  /\ MayBegin(w)
  /\ \E p \in UNION {AllParties(rest) : rest \in Leftovers}, c \in Customers \cup {None} :
       /\ c # None => p.id = plainPartyId /\ p.kind = "customer"
       /\ BeginSave(w, p.id, p.kind, c, None)

\* The transaction; another row may have the customer (a unique key).
CustomerFree(i, c) == c = None \/ \A j \in Stored \ {i} : rows[j].customer # c

upsertParty(w) ==
  LET t == task[w]
  IN  /\ t.at = "store"
      /\ rows' = IF CustomerFree(t.id, t.row.customer) THEN [rows EXCEPT ![t.id] = t.row] ELSE rows
      /\ task' = [task EXCEPT ![w] = Idle]
      /\ UNCHANGED <<hidden, writes>> /\ UnchangedSources

BeginHide(w) ==
  /\ MayBegin(w)
  /\ \E p \in UNION {listParties(rest) : rest \in Leftovers} :
       Begin(w, [Idle EXCEPT !.at = "hide", !.id = p.id])
  /\ UNCHANGED <<rows, hidden>> /\ UnchangedSources

hideParty(w) ==
  /\ task[w].at = "hide"
  /\ hidden' = hidden \cup {task[w].id}
  /\ task' = [task EXCEPT ![w] = Idle]
  /\ UNCHANGED <<rows, writes>> /\ UnchangedSources

-----------------------------------------------------------------------------
(* What the list is made of changes.                                       *)

UnchangedRows == UNCHANGED <<rows, hidden, task>>

SaveDirectory(p) ==
  /\ Write
  /\ \E n \in Names \cup {None} : n # directory[p] /\ directory' = [directory EXCEPT ![p] = n]
  /\ UNCHANGED <<customers, spent>> /\ UnchangedRows

\* mirrorVendorsToPartyTable for one entry: a row with the key is left as it is
\* (but for the name); a row with the id makes the insert fail, silently.
MirrorVendor(p) ==
  LET key == MirrorKey[directory[p]]
  IN  /\ Listed(p) /\ Write
      /\ \A i \in Stored : rows[i].vendorKey # key
      /\ mirrorPartyId(p) \notin Stored
      /\ rows' = [rows EXCEPT ![mirrorPartyId(p)] =
                    [kind |-> "supplier", customer |-> None, vendorKey |-> key, opening |-> 0]]
      /\ UNCHANGED <<hidden, task>> /\ UnchangedSources

SaveExpense(n) ==
  /\ Write
  /\ spent' = IF n \in spent THEN spent \ {n} ELSE spent \cup {n}
  /\ UNCHANGED <<customers, directory>> /\ UnchangedRows

SaveCustomer(c) ==
  /\ Write
  /\ customers' = IF c \in customers THEN customers \ {c} ELSE customers \cup {c}
  /\ UNCHANGED <<directory, spent>> /\ UnchangedRows

Next ==
  \/ \E w \in Workers : PostParty(w) \/ PutParty(w) \/ upsertParty(w) \/ BeginHide(w) \/ hideParty(w)
  \/ \E p \in Profiles : SaveDirectory(p) \/ MirrorVendor(p)
  \/ (\E n \in Names : SaveExpense(n)) \/ (\E c \in Customers : SaveCustomer(c))

Spec == Init /\ [][Next]_vars

-----------------------------------------------------------------------------
(* Properties.                                                             *)

One(S) == \E x \in S : S = {x}
RowKeys == {rows[i].vendorKey : i \in Stored} \ {None}
Spellings(n) == {m \in VendorNames \cup RowKeys : Same(n, m)}
\* Profiles whose own row still has the key of the name they had.
Renamed == {p \in Profiles : /\ Listed(p) /\ vendorPartyId(p) \in Stored
                             /\ ~Same(directory[p], rows[vendorPartyId(p)].vendorKey)}
SameVendor(i) == RowsOfVendor(rows[i].vendorKey) \cup RowsForName(rows[i].vendorKey)
\* Rows of a customer who is gone, under an id of their own.
Strays == {i \in Stored : /\ rows[i].customer \notin customers \cup {None}
                          /\ i # customerPartyId(rows[i].customer)}

\* However rows were written, renamed, mirrored or hidden, and in whatever order
\* the table gives them, nothing is counted twice or not at all: a customer is in
\* the list once; so is the vendor an expense names, as long as it is spelled in
\* one way; and so is the opening balance of a row, if no other row is of the
\* same vendor or customer and the directory has the vendor or it is spelled in
\* one way.  Of vendors this is said while no profile was renamed after its party
\* had been saved; and a row whose customer is gone may be in the list twice,
\* under its id and under its customer's (listParties).
EachCountedOnce ==
  \A rest \in Leftovers :
    LET all == AllParties(rest)
        steady == Renamed = {}
    IN
    /\ \A p, q \in all : p.id = q.id => p = q \/ p.id \in Strays
    /\ \A c \in customers : One({p \in all : p.kind = "customer" /\ p.customer = c})
    /\ steady => \A n \in spent : Spellings(n) = {n} =>
         One({p \in all : p.kind = "supplier" /\ p.vendorKey = n})
    /\ steady => \A i \in Stored :
         LET key == rows[i].vendorKey
             listings == {p \in all : p.row = i}
         IN  /\ \A c \in Customers : i \in RowsOfCustomer(c) => RowsOfCustomer(c) = {i}
             /\ key # None => SameVendor(i) = {i} /\ (ProfileOf(key) # {} \/ One(Spellings(key)))
             => IF i \in Strays THEN listings # {} ELSE One(listings)

=============================================================================
