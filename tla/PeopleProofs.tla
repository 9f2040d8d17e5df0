------------------------------ MODULE PeopleProofs ------------------------------
(***************************************************************************)
(* Theorems about the parts of PeopleParts, for any values of their        *)
(* constants.  Each is proved of a part alone, from its own invariant, and *)
(* holds of PeopleParts because a behaviour of all is one of each          *)
(* (EachPartRuns); those of Sessions are in SessionsProofs.                *)
(*                                                                         *)
(* Attendance: for any number of people, branches, workers, terminals and  *)
(* requests the rows keep their types and foreign keys, the plan's users   *)
(* are not exceeded but where two requests went by one count, no branch is *)
(* deleted under its documents, and punches one after the other leave a    *)
(* member in at most once (modules Staff and Attendance).  Every rule is   *)
(* checked in one query and relied on in a later one.  The invariant says  *)
(* what is left of the check in between: a seat that was free still is     *)
(* (Counted), a branch without documents still has none but late ones      *)
(* (Empty), and the row a punch has found is still the row of that member  *)
(* and branch, or gone (Owned, Held).                                      *)
(*                                                                         *)
(* Access: for any keys and branches of a member of staff, the access      *)
(* level set last decides what is edited (Levelled), and asking for one    *)
(* branch shows nothing more.                                              *)
(*                                                                         *)
(* Parties: for any customers, spellings, profiles and rows, everyone is   *)
(* on the list of parties once.  Of the stored rows it needs only that     *)
(* what a row is about fits its id (RowFits); the rest is about the merge: *)
(* which names are listed (VendorName), with which row (CustomerIs,        *)
(* VendorIs), and that no two have one id (IdsAreOne).                     *)
(*                                                                         *)
(* Ledger: for any documents, days, items and amounts, the views of the    *)
(* ledger of a party agree.  Of the state they need only that a status     *)
(* says what has been paid (Fair); the rest is sums: each view adds up a   *)
(* set of rows, and each set is the image of a set of documents (module    *)
(* Sums, EntriesSum, TransactionsAre).                                     *)
(***************************************************************************)
EXTENDS PeopleParts, Sums

-----------------------------------------------------------------------------
(* Parts and whole.                                                        *)

\* A behaviour of all the parts is a behaviour of each of them.
THEOREM EachPartRuns ==
  PeopleSpec => Spec /\ S!Spec /\ K!Spec /\ Q!Spec /\ L!Spec
<1>1. PeopleInit => Init /\ S!AttendanceInit /\ K!Init /\ Q!Init /\ L!Init
  BY DEF PeopleInit
<1>2. [PeopleNext]_peopleVars =>
        /\ [Next]_vars /\ [S!AttendanceNext]_(S!vars) /\ [K!Next]_(K!vars)
        /\ [Q!Next]_(Q!vars) /\ [L!Next]_(L!vars)
  <2> USE DEF PeopleNext, peopleVars, vars, dutyVars, accessVars, partyVars, ledgerVars
  <2>1. [PeopleNext]_peopleVars => [Next]_vars
    BY DEF vars
  <2>2. [PeopleNext]_peopleVars => [S!AttendanceNext]_(S!vars)
    BY DEF S!vars, S!staffVars
  <2>3. [PeopleNext]_peopleVars => [K!Next]_(K!vars)
    BY DEF K!vars
  <2>4. [PeopleNext]_peopleVars => [Q!Next]_(Q!vars)
    BY DEF Q!vars
  <2>5. [PeopleNext]_peopleVars => [L!Next]_(L!vars)
    BY DEF L!vars
  <2> HIDE DEF PeopleNext, peopleVars, vars
  <2> QED
    BY <2>1, <2>2, <2>3, <2>4, <2>5
<1> QED
  BY <1>1, <1>2, PTL DEF PeopleSpec, Spec, S!Spec, K!Spec, Q!Spec, L!Spec

\* The finite sets of Staff are those of the library.
LEMMA StaffFinite ==
  \A X : /\ S!IsFiniteSet(X) <=> IsFiniteSet(X)
         /\ S!Cardinality(X) = Cardinality(X)
<1> TAKE X
<1>1. S!IsFiniteSet(X) <=> IsFiniteSet(X)
  BY DEF S!IsFiniteSet, IsFiniteSet
<1>2. S!Cardinality(X) = Cardinality(X)
  BY DEF S!Cardinality, Cardinality
<1> QED
  BY <1>1, <1>2

-----------------------------------------------------------------------------
(* Attendance: the inductive invariant.                                    *)

\* What the request of a worker is about.
Formed(w) ==
  /\ staffTask[w].at \in {"create", "edit", "save", "forget", "remove"} => staffTask[w].person \in People
  /\ staffTask[w].at = "create" => staffTask[w].patch \in S!User
  /\ staffTask[w].at \in {"branch", "again", "drop"} => staffTask[w].branch \in Branches

\* The seat that a request has counted as free is still free.
Billable(row) == row.isActive /\ S!isBillableUserSeatRole(row.role)
Wants(w) ==
  \/ staffTask[w].at = "create" /\ Billable(staffTask[w].patch)
  \/ /\ staffTask[w].at = "save" /\ S!Exists(staffTask[w].person)
     /\ S!TakesSeat(user[staffTask[w].person], S!Patched(user[staffTask[w].person], staffTask[w].patch))
Counted ==
  ~stale =>
    /\ S!Seats <= MaxUsers
    /\ \A w \in Workers : Wants(w) => S!Seats < MaxUsers

\* A branch about to be deleted has no documents but late ones.
Empty ==
  /\ S!WorkHasBranch
  /\ \A w \in Workers : staffTask[w].at = "drop" => staffTask[w].branch \notin work \/ staffTask[w].branch \in late

\* Two requests of one member at once have been noticed.
Alone ==
  \A t, v \in Terminals :
    t # v /\ punch[t].staff # None /\ punch[t].staff = punch[v].staff => punch[t].staff \in disturbed

\* The row a request has found is of its member, and of its branch, or gone.
Owned(t) ==
  LET row == punch[t].row
      next == punch[t].next
  IN  /\ punch[t].at # "idle" => punch[t].staff \in People /\ punch[t].branch \in Branches
      /\ punch[t].at \in {"write", "enter"} =>
           /\ next \in S!Row /\ next.staff = punch[t].staff /\ next.branch = punch[t].branch
           /\ row # None =>
                \/ attendance[row] = S!GoneRow
                \/ /\ attendance[row].staff = next.staff
                   /\ punch[t].at = "write" => attendance[row].branch = next.branch

\* A punch that opens a row has found none open.
Held(t) ==
  punch[t].at = "write" /\ (punch[t].row = None \/ ~punch[t].next.out) =>
    /\ ~punch[t].next.out
    /\ punch[t].staff \notin disturbed =>
         \A r \in S!Of(punch[t].staff, punch[t].branch) : ~S!IsOpen(r)

Once ==
  \A p \in People \ disturbed : \A r, other \in Rows :
    /\ attendance[r].staff = p /\ attendance[other].staff = p
    /\ attendance[r].branch = attendance[other].branch
    /\ S!IsOpen(r) /\ S!IsOpen(other)
    => r = other

Duty ==
  /\ \A w \in Workers : Formed(w)
  /\ Counted /\ Empty
Clock ==
  /\ Alone /\ Once
  /\ \A t \in Terminals : Owned(t) /\ Held(t)

DutyInv == S!AttendanceTypeOK /\ Duty /\ Clock

-----------------------------------------------------------------------------
(* Attendance: requests of a worker.                                       *)

LEMMA TaskIn ==
  ASSUME S!TypeOK, NEW w \in Workers, NEW x \in S!Task, staffTask' = [staffTask EXCEPT ![w] = x]
  PROVE  /\ staffTask' \in [Workers -> S!Task] /\ staffTask'[w] = x
         /\ \A v \in Workers \ {w} : staffTask'[v] = staffTask[v]
BY DEF S!TypeOK

LEMMA BeginIn ==
  ASSUME S!TypeOK, NEW w \in Workers, NEW step, NEW p, NEW b, NEW patch \in S!Patch,
         step \in {"create", "edit", "forget", "branch", "again"},
         p \in People \cup {None}, b \in Branches \cup {None}, S!Begin(w, step, p, b, patch)
  PROVE  /\ staffTask' \in [Workers -> S!Task]
         /\ staffTask'[w].at = step /\ staffTask'[w].person = p /\ staffTask'[w].branch = b
         /\ staffTask'[w].patch = patch
         /\ \A v \in Workers \ {w} : staffTask'[v] = staffTask[v]
<1> DEFINE x == [at |-> step, person |-> p, branch |-> b, patch |-> patch]
<1>1. x \in S!Task
  BY DEF S!Task
<1> HIDE DEF x
<1>2. staffTask' \in [Workers -> S!Task] /\ staffTask'[w] = x /\ \A v \in Workers \ {w} : staffTask'[v] = staffTask[v]
  BY <1>1, TaskIn DEF S!Begin, x
<1> QED
  BY <1>2 DEF x

LEMMA EndIn ==
  ASSUME S!TypeOK, NEW w \in Workers, S!Return(w)
  PROVE  /\ staffTask' \in [Workers -> S!Task] /\ staffTask'[w].at = "idle"
         /\ \A v \in Workers \ {w} : staffTask'[v] = staffTask[v]
<1>1. S!NoTask \in S!Task /\ S!NoTask.at = "idle"
  BY DEF S!NoTask, S!Task, S!NoPatch, S!Patch
<1> QED
  BY <1>1, TaskIn DEF S!Return

\* The request goes on with what it is about.
LEMMA GoesOn ==
  ASSUME S!TypeOK, NEW w \in Workers, NEW step \in {"save", "remove", "drop"},
         staffTask' = [staffTask EXCEPT ![w].at = step]
  PROVE  /\ staffTask' \in [Workers -> S!Task]
         /\ staffTask'[w].at = step /\ staffTask'[w].person = staffTask[w].person
         /\ staffTask'[w].branch = staffTask[w].branch /\ staffTask'[w].patch = staffTask[w].patch
         /\ \A v \in Workers \ {w} : staffTask'[v] = staffTask[v]
<1> DEFINE x == [staffTask[w] EXCEPT !.at = step]
<1>1. /\ x \in S!Task /\ x.at = step /\ x.person = staffTask[w].person
      /\ x.branch = staffTask[w].branch /\ x.patch = staffTask[w].patch
  BY DEF S!TypeOK, S!Task
<1>2. staffTask' = [staffTask EXCEPT ![w] = x]
  OBVIOUS
<1> HIDE DEF x
<1> QED
  BY <1>1, <1>2, TaskIn

-----------------------------------------------------------------------------
(* Attendance: rows.                                                       *)

LEMMA UserRows ==
  ASSUME S!StaffAssumption, NEW row \in S!User \cup {S!NoUser}
  PROVE  /\ row # S!NoUser <=> row \in S!User
         /\ row = S!NoUser => ~Billable(row)
         /\ \A patch \in S!Patch :
              row \in S!User => S!Patched(row, patch) \in S!User
         /\ \A patch \in S!Patch :
              row \in S!User =>
                S!Patched(row, patch).branch = IF patch.branch = None THEN row.branch ELSE patch.branch
<1>1. S!NoUser \notin S!User
  BY DEF S!StaffAssumption, S!NoUser, S!User
<1>2. S!NoUser.isActive = FALSE
  BY DEF S!NoUser
<1>3. ASSUME NEW patch \in S!Patch, row \in S!User
      PROVE  /\ S!Patched(row, patch) \in S!User
             /\ S!Patched(row, patch).branch = IF patch.branch = None THEN row.branch ELSE patch.branch
  <2>1. DOMAIN row = {"role", "isActive", "branch"}
    BY <1>3 DEF S!User
  <2>2. S!Patched(row, patch) =
          [f \in {"role", "isActive", "branch"} |-> S!Or(patch[f], row[f])]
    BY <2>1 DEF S!Patched
  <2>3. /\ S!Or(patch.role, row.role) \in S!Roles /\ S!Or(patch.isActive, row.isActive) \in BOOLEAN
        /\ S!Or(patch.branch, row.branch) \in Branches
    BY <1>3 DEF S!Or, S!Patch, S!User
  <2>4. S!Patched(row, patch) = [role |-> S!Or(patch.role, row.role),
                                 isActive |-> S!Or(patch.isActive, row.isActive),
                                 branch |-> S!Or(patch.branch, row.branch)]
    BY <2>2
  <2> QED
    BY <2>3, <2>4 DEF S!User, S!Or
<1> QED
  BY <1>1, <1>2, <1>3 DEF Billable

\* A user takes one seat at most, and none who had one before.
LEMMA SeatCount ==
  ASSUME S!StaffAssumption, S!TypeOK, NEW p \in People, NEW row \in S!User \cup {S!NoUser},
         user' = [user EXCEPT ![p] = row]
  PROVE  /\ S!Seats \in Nat /\ S!Seats' \in Nat /\ S!Seats' <= S!Seats + 1
         /\ (Billable(row) => Billable(user[p])) => S!Seats' <= S!Seats
<1> DEFINE Seated == {q \in People : Billable(user[q])}
<1>1. S!Seats = S!Cardinality(Seated) /\ S!Seats' = S!Cardinality(Seated')
  BY DEF S!Seats, Billable
<1>2. S!IsFiniteSet(Seated) /\ S!IsFiniteSet(Seated') /\ S!IsFiniteSet(Seated \cup {p})
  <2>1. S!IsFiniteSet(People) /\ Seated \subseteq People /\ Seated' \subseteq People
    BY DEF S!StaffAssumption
  <2>2. Seated \cup {p} \subseteq People
    BY <2>1
  <2> HIDE DEF Seated
  <2> QED
    BY <2>1, <2>2, FS_Subset, StaffFinite
<1>3. \A q \in People \ {p} : user'[q] = user[q]
  BY DEF S!TypeOK
<1>4. user'[p] = row
  BY DEF S!TypeOK
<1>5. Seated' \subseteq Seated \cup {p}
  BY <1>3 DEF Billable
<1>6. (Billable(row) => Billable(user[p])) => Seated' \subseteq Seated
  BY <1>3, <1>4 DEF Billable
<1> HIDE DEF Seated
<1>7. S!Seats \in Nat /\ S!Seats' \in Nat
  BY <1>1, <1>2, FS_CardinalityType, StaffFinite
<1>8. S!Cardinality(Seated \cup {p}) <= S!Cardinality(Seated) + 1
  <2>1. S!Cardinality(Seated \cup {p}) =
          IF p \in Seated THEN S!Cardinality(Seated) ELSE S!Cardinality(Seated) + 1
    BY <1>2, FS_AddElement, StaffFinite
  <2> QED
    BY <1>1, <1>7, <2>1
<1>9. /\ S!Cardinality(Seated') <= S!Cardinality(Seated \cup {p})
      /\ S!Cardinality(Seated \cup {p}) \in Nat
  BY <1>2, <1>5, FS_Subset, FS_CardinalityType, StaffFinite
<1>10. Seated' \subseteq Seated => S!Cardinality(Seated') <= S!Cardinality(Seated)
  BY <1>2, FS_Subset, StaffFinite
<1> QED
  BY <1>1, <1>6, <1>7, <1>8, <1>9, <1>10

LEMMA CountedFrame ==
  ASSUME Counted, NEW w \in Workers, UNCHANGED <<user, stale>>,
         \A v \in Workers \ {w} : staffTask'[v] = staffTask[v],
         ~stale /\ Wants(w)' => S!Seats < MaxUsers
  PROVE  Counted'
<1>1. S!Seats' = S!Seats
  BY DEF S!Seats
<1>2. \A v \in Workers \ {w} : Wants(v)' <=> Wants(v)
  BY DEF Wants, S!Exists
<1> QED
  BY <1>1, <1>2 DEF Counted

LEMMA EmptyFrame ==
  ASSUME Empty, NEW w \in Workers, UNCHANGED <<work, late>>,
         \A b \in Branches : branch[b] # "none" => branch'[b] # "none",
         work \subseteq Branches,
         \A v \in Workers \ {w} : staffTask'[v] = staffTask[v],
         staffTask'[w].at = "drop" => staffTask'[w].branch \notin work \/ staffTask'[w].branch \in late
  PROVE  Empty'
BY DEF Empty, S!WorkHasBranch

-----------------------------------------------------------------------------
(* Attendance: what is kept of the clock when rows only go.                *)

RowsGo ==
  \A r \in Rows :
    attendance'[r] = attendance[r] \/ (attendance[r] # S!NoRow /\ attendance'[r] = S!GoneRow)

LEMMA ClockFrame ==
  ASSUME S!StaffAssumption, S!AttendanceTypeOK, Clock, RowsGo, UNCHANGED <<punch, disturbed>>
  PROVE  Clock'
<1>1. S!GoneRow.staff = None /\ ~(S!GoneRow.in /\ ~S!GoneRow.out)
  BY DEF S!GoneRow, S!NoRow
<1>2. \A p \in People : p # None
  BY DEF S!StaffAssumption
<1>3. Alone'
  BY DEF Clock, Alone
<1>4. Once'
  BY <1>1, <1>2 DEF Clock, Once, RowsGo, S!IsOpen
<1>5. ASSUME NEW t \in Terminals
      PROVE  Owned(t)' /\ Held(t)'
  <2>1. punch[t] \in S!Punch
    BY DEF S!AttendanceTypeOK
  <2>2. Owned(t)'
    BY <2>1 DEF Clock, Owned, RowsGo, S!Punch
  <2>3. Held(t)'
    <3> SUFFICES ASSUME punch[t].at = "write", punch[t].row = None \/ ~punch[t].next.out
                 PROVE  Held(t)'
      BY DEF Held
    <3>1. punch[t].staff \in People
      BY DEF Clock, Owned
    <3> QED
      BY <1>1, <1>2, <3>1 DEF Clock, Held, S!Of, S!IsOpen, RowsGo
  <2> QED
    BY <2>2, <2>3
<1> QED
  BY <1>3, <1>4, <1>5 DEF Clock

LEMMA RowsStay ==
  ASSUME S!StaffAssumption, S!AttendanceTypeOK, Clock, UNCHANGED <<attendance, punch, disturbed>>
  PROVE  Clock'
BY ClockFrame DEF RowsGo

-----------------------------------------------------------------------------
(* Attendance: the steps of Staff.                                         *)

\* Requests that look, and write no row: what they go on with is left to show.
LEMMA LookFrame ==
  ASSUME DutyInv, NEW w \in Workers,
         UNCHANGED <<user, branch, work, attendance, staffToken, stale, late>>,
         staffRequests' \in 0..MaxRequests, staffTask' \in [Workers -> S!Task],
         \A v \in Workers \ {w} : staffTask'[v] = staffTask[v],
         Formed(w)', ~stale /\ Wants(w)' => S!Seats < MaxUsers,
         staffTask'[w].at = "drop" => staffTask'[w].branch \notin work \/ staffTask'[w].branch \in late
  PROVE  S!TypeOK' /\ Duty' /\ RowsGo
<1>1. S!TypeOK'
  BY DEF DutyInv, S!AttendanceTypeOK, S!TypeOK, S!Exists
<1>2. Counted'
  BY CountedFrame DEF DutyInv, Duty
<1>3. Empty'
  BY EmptyFrame DEF DutyInv, Duty, S!AttendanceTypeOK, S!TypeOK
<1>4. \A v \in Workers : Formed(v)'
  BY DEF DutyInv, Duty, Formed
<1> QED
  BY <1>1, <1>2, <1>3, <1>4 DEF Duty, RowsGo

LEMMA RequestIn ==
  ASSUME S!StaffAssumption, S!TypeOK, NEW w \in Workers, S!Request(w)
  PROVE  staffRequests' \in 0..MaxRequests
BY DEF S!StaffAssumption, S!TypeOK, S!Request

LEMMA LoginKeeps ==
  ASSUME S!StaffAssumption, DutyInv, NEW p \in People, S!Login(p)
  PROVE  S!TypeOK' /\ Duty' /\ RowsGo
<1>1. user[p] \in S!User
  <2>1. S!NoUser.isActive = FALSE /\ user[p] \in S!User \cup {S!NoUser}
    BY DEF S!NoUser, DutyInv, S!AttendanceTypeOK, S!TypeOK
  <2> QED
    BY <2>1 DEF S!Login
<1>2. S!TypeOK'
  BY <1>1 DEF DutyInv, S!AttendanceTypeOK, S!TypeOK, S!Login, S!Exists, S!User
<1>3. S!Seats' = S!Seats
  BY DEF S!Seats, S!Login
<1>4. Duty'
  BY <1>3 DEF DutyInv, Duty, Formed, Counted, Wants, S!Exists, Empty, S!WorkHasBranch, S!Login
<1> QED
  BY <1>2, <1>4 DEF RowsGo, S!Login

LEMMA PostUserKeeps ==
  ASSUME S!StaffAssumption, DutyInv, NEW w \in Workers, NEW actor \in People, NEW p \in People,
         NEW new \in S!User, S!PostUser(w, actor, p, new)
  PROVE  S!TypeOK' /\ Duty' /\ RowsGo
<1>1. new \in S!Patch
  BY DEF S!User, S!Patch
<1>2. /\ staffTask' \in [Workers -> S!Task] /\ staffTask'[w].at = "create" /\ staffTask'[w].person = p
      /\ staffTask'[w].patch = new
      /\ \A v \in Workers \ {w} : staffTask'[v] = staffTask[v]
  BY <1>1, BeginIn DEF DutyInv, S!AttendanceTypeOK, S!PostUser
<1>3. staffRequests' \in 0..MaxRequests
  BY RequestIn DEF DutyInv, S!AttendanceTypeOK, S!PostUser
<1>4. Formed(w)'
  BY <1>2 DEF Formed
<1>5. Wants(w)' => S!Seats < MaxUsers
  BY <1>2 DEF Wants, Billable, S!PostUser, S!canCreateWithLimit
<1> QED
  BY <1>2, <1>3, <1>4, <1>5, LookFrame DEF S!PostUser

LEMMA PutUserKeeps ==
  ASSUME S!StaffAssumption, DutyInv, NEW w \in Workers, NEW actor \in People, NEW p \in People,
         NEW patch \in S!Patch, S!PutUser(w, actor, p, patch)
  PROVE  S!TypeOK' /\ Duty' /\ RowsGo
<1>1. /\ staffTask' \in [Workers -> S!Task] /\ staffTask'[w].at = "edit" /\ staffTask'[w].person = p
      /\ \A v \in Workers \ {w} : staffTask'[v] = staffTask[v]
  BY BeginIn DEF DutyInv, S!AttendanceTypeOK, S!PutUser
<1>2. staffRequests' \in 0..MaxRequests
  BY RequestIn DEF DutyInv, S!AttendanceTypeOK, S!PutUser
<1>3. Formed(w)' /\ ~Wants(w)'
  BY <1>1 DEF Formed, Wants
<1> QED
  BY <1>1, <1>2, <1>3, LookFrame DEF S!PutUser

LEMMA CheckUserKeeps ==
  ASSUME S!StaffAssumption, DutyInv, NEW w \in Workers, S!CheckUser(w)
  PROVE  S!TypeOK' /\ Duty' /\ RowsGo
<1> DEFINE p == staffTask[w].person
           patch == staffTask[w].patch
           Passes == /\ S!Exists(p) /\ S!KnownBranch(patch)
                     /\ S!TakesSeat(user[p], S!Patched(user[p], patch)) => S!canCreateWithLimit(S!Seats, MaxUsers)
<1>1. staffRequests' \in 0..MaxRequests /\ p \in People
  BY DEF DutyInv, S!AttendanceTypeOK, S!TypeOK, Duty, Formed, S!CheckUser, S!At
<1>2. CASE Passes
  <2>1. staffTask' = [staffTask EXCEPT ![w].at = "save"]
    BY <1>2 DEF S!CheckUser
  <2>2. /\ staffTask' \in [Workers -> S!Task] /\ staffTask'[w].at = "save" /\ staffTask'[w].person = p
        /\ staffTask'[w].patch = patch
        /\ \A v \in Workers \ {w} : staffTask'[v] = staffTask[v]
    BY <2>1, GoesOn DEF DutyInv, S!AttendanceTypeOK
  <2>3. Formed(w)'
    BY <1>1, <2>2 DEF Formed
  <2>4. Wants(w)' => S!Seats < MaxUsers
    BY <1>2, <2>2 DEF Wants, S!Exists, S!canCreateWithLimit, S!CheckUser
  <2> QED
    BY <1>1, <2>2, <2>3, <2>4, LookFrame DEF S!CheckUser
<1>3. CASE ~Passes
  <2>1. S!Return(w)
    BY <1>3 DEF S!CheckUser
  <2>2. /\ staffTask' \in [Workers -> S!Task] /\ staffTask'[w].at = "idle"
        /\ \A v \in Workers \ {w} : staffTask'[v] = staffTask[v]
    BY <2>1, EndIn DEF DutyInv, S!AttendanceTypeOK
  <2>3. Formed(w)' /\ ~Wants(w)'
    BY <2>2 DEF Formed, Wants
  <2> QED
    BY <1>1, <2>2, <2>3, LookFrame DEF S!CheckUser
<1> QED
  BY <1>2, <1>3

LEMMA DeleteUserKeeps ==
  ASSUME S!StaffAssumption, DutyInv, NEW w \in Workers, NEW actor \in People, NEW p \in People,
         S!DeleteUser(w, actor, p)
  PROVE  S!TypeOK' /\ Duty' /\ RowsGo
<1>1. S!NoPatch \in S!Patch
  BY DEF S!NoPatch, S!Patch
<1>2. /\ staffTask' \in [Workers -> S!Task] /\ staffTask'[w].at = "forget" /\ staffTask'[w].person = p
      /\ \A v \in Workers \ {w} : staffTask'[v] = staffTask[v]
  BY <1>1, BeginIn DEF DutyInv, S!AttendanceTypeOK, S!DeleteUser
<1>3. staffRequests' \in 0..MaxRequests
  BY RequestIn DEF DutyInv, S!AttendanceTypeOK, S!DeleteUser
<1>4. Formed(w)' /\ ~Wants(w)'
  BY <1>2 DEF Formed, Wants
<1> QED
  BY <1>2, <1>3, <1>4, LookFrame DEF S!DeleteUser

LEMMA PostBranchKeeps ==
  ASSUME S!StaffAssumption, DutyInv, NEW w \in Workers, NEW actor \in People, NEW b \in Branches,
         S!PostBranch(w, actor, b) \/ S!DeleteBranch(w, actor, b)
  PROVE  S!TypeOK' /\ Duty' /\ RowsGo
<1>1. S!NoPatch \in S!Patch
  BY DEF S!NoPatch, S!Patch
<1>2. PICK step \in {"branch", "again"} : S!Request(w) /\ S!Begin(w, step, None, b, S!NoPatch)
  BY DEF S!PostBranch, S!DeleteBranch
<1>3. /\ staffTask' \in [Workers -> S!Task] /\ staffTask'[w].at = step /\ staffTask'[w].branch = b
      /\ \A v \in Workers \ {w} : staffTask'[v] = staffTask[v]
  BY <1>1, <1>2, BeginIn DEF DutyInv, S!AttendanceTypeOK
<1>4. staffRequests' \in 0..MaxRequests
  BY <1>2, RequestIn DEF DutyInv, S!AttendanceTypeOK
<1>5. Formed(w)' /\ ~Wants(w)'
  BY <1>2, <1>3 DEF Formed, Wants
<1> QED
  BY <1>2, <1>3, <1>4, <1>5, LookFrame DEF S!PostBranch, S!DeleteBranch

LEMMA LookAgainKeeps ==
  ASSUME S!StaffAssumption, DutyInv, NEW w \in Workers, S!LookAgain(w)
  PROVE  S!TypeOK' /\ Duty' /\ RowsGo
<1>1. staffRequests' \in 0..MaxRequests /\ staffTask[w].branch \in Branches
  BY DEF DutyInv, S!AttendanceTypeOK, S!TypeOK, Duty, Formed, S!LookAgain, S!At
<1>2. CASE staffTask' = [staffTask EXCEPT ![w].at = "drop"] /\ ~S!Blocked(staffTask[w].branch)
  <2>1. /\ staffTask' \in [Workers -> S!Task] /\ staffTask'[w].at = "drop" /\ staffTask'[w].branch = staffTask[w].branch
        /\ \A v \in Workers \ {w} : staffTask'[v] = staffTask[v]
    BY <1>2, GoesOn DEF DutyInv, S!AttendanceTypeOK
  <2>2. Formed(w)' /\ ~Wants(w)'
    BY <1>1, <2>1 DEF Formed, Wants
  <2>3. staffTask[w].branch \notin work
    BY <1>2 DEF S!Blocked
  <2> QED
    BY <1>1, <2>1, <2>2, <2>3, LookFrame DEF S!LookAgain
<1>3. CASE S!Return(w)
  <2>1. /\ staffTask' \in [Workers -> S!Task] /\ staffTask'[w].at = "idle"
        /\ \A v \in Workers \ {w} : staffTask'[v] = staffTask[v]
    BY <1>3, EndIn DEF DutyInv, S!AttendanceTypeOK
  <2>2. Formed(w)' /\ ~Wants(w)'
    BY <2>1 DEF Formed, Wants
  <2> QED
    BY <1>1, <2>1, <2>2, LookFrame DEF S!LookAgain
<1> QED
  BY <1>2, <1>3 DEF S!LookAgain

-----------------------------------------------------------------------------
(* Attendance: the steps of Staff that write a row.                        *)

\* A user is written whole, as a row whose branch there is.
LEMMA UserWritten ==
  ASSUME S!StaffAssumption, DutyInv, NEW w \in Workers, NEW p \in People, NEW row \in S!User,
         user' = [user EXCEPT ![p] = row], branch[row.branch] # "none",
         stale' = (stale \/ S!Overtakes(w)),
         ~stale /\ Billable(row) => Billable(user[p]) \/ S!Seats < MaxUsers,
         S!Return(w), UNCHANGED <<branch, work, attendance, staffToken, late, staffRequests>>
  PROVE  S!TypeOK' /\ Duty' /\ RowsGo
<1>1. /\ staffTask' \in [Workers -> S!Task] /\ staffTask'[w].at = "idle"
      /\ \A v \in Workers \ {w} : staffTask'[v] = staffTask[v]
  BY EndIn DEF DutyInv, S!AttendanceTypeOK
<1>2. /\ user' \in [People -> S!User \cup {S!NoUser}] /\ user'[p] = row
      /\ \A q \in People \ {p} : user'[q] = user[q]
  BY DEF DutyInv, S!AttendanceTypeOK, S!TypeOK
<1>3. row # S!NoUser
  BY UserRows
<1>4. S!TypeOK'
  <2>1. stale' \in BOOLEAN
    BY DEF DutyInv, S!AttendanceTypeOK, S!TypeOK, S!Overtakes
  <2>2. \A q \in People : S!Exists(q)' => branch'[user'[q].branch] # "none"
    BY <1>2 DEF DutyInv, S!AttendanceTypeOK, S!TypeOK, S!Exists
  <2>3. \A r \in Rows : attendance'[r] \in S!Row =>
          S!Exists(attendance[r].staff)' /\ branch'[attendance'[r].branch] # "none"
    <3> SUFFICES ASSUME NEW r \in Rows, attendance[r] \in S!Row
                 PROVE  S!Exists(attendance[r].staff)' /\ branch[attendance[r].branch] # "none"
      OBVIOUS
    <3>1. /\ S!Exists(attendance[r].staff) /\ branch[attendance[r].branch] # "none"
          /\ attendance[r].staff \in People
      BY DEF DutyInv, S!AttendanceTypeOK, S!TypeOK, S!Row
    <3> QED
      BY <1>2, <1>3, <3>1 DEF S!Exists
  <2> QED
    BY <1>1, <1>2, <2>1, <2>2, <2>3 DEF DutyInv, S!AttendanceTypeOK, S!TypeOK
<1>5. Counted'
  <2> SUFFICES ASSUME ~stale'
               PROVE  S!Seats' <= MaxUsers /\ \A v \in Workers : ~Wants(v)'
    BY DEF Counted
  <2>1. ~stale /\ ~S!Overtakes(w) /\ S!Seats <= MaxUsers
    BY DEF DutyInv, Duty, Counted
  <2>2. S!Seats' <= MaxUsers
    <3>1. MaxUsers \in Nat
      BY DEF S!StaffAssumption
    <3>2. /\ S!Seats \in Nat /\ S!Seats' \in Nat /\ S!Seats' <= S!Seats + 1
          /\ (Billable(row) => Billable(user[p])) => S!Seats' <= S!Seats
      BY SeatCount DEF DutyInv, S!AttendanceTypeOK
    <3> QED
      BY <2>1, <3>1, <3>2
  <2>3. \A v \in Workers : ~Wants(v)'
    BY <1>1, <2>1 DEF Wants, S!Overtakes
  <2> QED
    BY <2>2, <2>3
<1>6. Empty'
  BY <1>1, EmptyFrame DEF DutyInv, Duty, S!AttendanceTypeOK, S!TypeOK
<1>7. \A v \in Workers : Formed(v)'
  BY <1>1 DEF DutyInv, Duty, Formed
<1> QED
  BY <1>4, <1>5, <1>6, <1>7 DEF Duty, RowsGo

\* Nothing is written, and the request ends.
LEMMA NothingWritten ==
  ASSUME S!StaffAssumption, DutyInv, NEW w \in Workers, S!Return(w),
         UNCHANGED <<user, branch, work, attendance, staffToken, stale, late, staffRequests>>
  PROVE  S!TypeOK' /\ Duty' /\ RowsGo
<1>1. /\ staffTask' \in [Workers -> S!Task] /\ staffTask'[w].at = "idle"
      /\ \A v \in Workers \ {w} : staffTask'[v] = staffTask[v]
  BY EndIn DEF DutyInv, S!AttendanceTypeOK
<1>2. Formed(w)' /\ ~Wants(w)' /\ staffRequests' \in 0..MaxRequests
  BY <1>1 DEF Formed, Wants, DutyInv, S!AttendanceTypeOK, S!TypeOK
<1> QED
  BY <1>1, <1>2, LookFrame

LEMMA CreateUserKeeps ==
  ASSUME S!StaffAssumption, DutyInv, NEW w \in Workers, S!CreateUser(w)
  PROVE  S!TypeOK' /\ Duty' /\ RowsGo
<1> DEFINE p == staffTask[w].person
<1>1. staffTask[w].at = "create" /\ p \in People /\ staffTask[w].patch \in S!User
  BY DEF S!CreateUser, S!At, DutyInv, Duty, Formed
<1>2. CASE S!Exists(p) \/ branch[staffTask[w].patch.branch] = "none"
  BY <1>2, NothingWritten DEF S!CreateUser
<1>3. CASE ~(S!Exists(p) \/ branch[staffTask[w].patch.branch] = "none")
  <2>1. ~stale /\ Billable(staffTask[w].patch) => S!Seats < MaxUsers
    BY <1>1 DEF DutyInv, Duty, Counted, Wants
  <2> QED
    BY <1>1, <1>3, <2>1, UserWritten DEF S!CreateUser
<1> QED
  BY <1>2, <1>3

LEMMA SaveUserKeeps ==
  ASSUME S!StaffAssumption, DutyInv, NEW w \in Workers, S!SaveUser(w)
  PROVE  S!TypeOK' /\ Duty' /\ RowsGo
<1> DEFINE p == staffTask[w].person
           patch == staffTask[w].patch
           row == S!Patched(user[p], patch)
<1>1. staffTask[w].at = "save" /\ p \in People /\ patch \in S!Patch
  BY DEF S!SaveUser, S!At, DutyInv, Duty, Formed, S!AttendanceTypeOK, S!TypeOK, S!Task
<1>2. CASE ~(S!Exists(p) /\ S!KnownBranch(patch))
  BY <1>2, NothingWritten DEF S!SaveUser
<1>3. CASE S!Exists(p) /\ S!KnownBranch(patch)
  <2>1. user[p] \in S!User
    BY <1>1, <1>3 DEF DutyInv, S!AttendanceTypeOK, S!TypeOK, S!Exists
  <2>2. row \in S!User /\ row.branch = IF patch.branch = None THEN user[p].branch ELSE patch.branch
    BY <1>1, <2>1, UserRows
  <2>3. branch[row.branch] # "none"
    BY <1>1, <1>3, <2>2 DEF S!KnownBranch, DutyInv, S!AttendanceTypeOK, S!TypeOK
  <2>4. user' = [user EXCEPT ![p] = row]
    BY <1>1, <1>3 DEF S!SaveUser, DutyInv, S!AttendanceTypeOK, S!TypeOK
  <2>5. S!TakesSeat(user[p], row) <=> Billable(row) /\ ~Billable(user[p])
    BY DEF S!TakesSeat, Billable
  <2>6. ~stale /\ Billable(row) => Billable(user[p]) \/ S!Seats < MaxUsers
    BY <1>1, <1>3, <2>5 DEF DutyInv, Duty, Counted, Wants
  <2> HIDE DEF p, row
  <2> QED
    BY <1>1, <1>3, <2>2, <2>3, <2>4, <2>6, UserWritten DEF S!SaveUser, p
<1> QED
  BY <1>2, <1>3

LEMMA WithoutGoes ==
  ASSUME S!StaffAssumption, S!TypeOK, NEW p \in People, attendance' = S!Without(p)
  PROVE  /\ RowsGo /\ attendance' \in [Rows -> S!Row \cup {S!NoRow, S!GoneRow}]
         /\ \A r \in Rows : attendance'[r] \in S!Row => attendance'[r] = attendance[r] /\ attendance[r].staff # p
<1>1. S!NoRow.staff = None /\ p # None /\ S!GoneRow.staff = None
  BY DEF S!NoRow, S!GoneRow, S!StaffAssumption
<1>2. S!GoneRow \notin S!Row
  BY <1>1 DEF S!Row, S!StaffAssumption
<1> QED
  BY <1>1, <1>2 DEF S!TypeOK, S!Without, RowsGo

LEMMA ForgetUserKeeps ==
  ASSUME S!StaffAssumption, DutyInv, NEW w \in Workers, S!ForgetUser(w)
  PROVE  S!TypeOK' /\ Duty' /\ RowsGo
<1>1. staffTask[w].at = "forget" /\ staffTask[w].person \in People
  BY DEF S!ForgetUser, S!At, DutyInv, Duty, Formed
<1>2. /\ RowsGo /\ attendance' \in [Rows -> S!Row \cup {S!NoRow, S!GoneRow}]
      /\ \A r \in Rows : attendance'[r] \in S!Row => attendance'[r] = attendance[r]
  BY <1>1, WithoutGoes DEF DutyInv, S!AttendanceTypeOK, S!ForgetUser
<1>3. /\ staffTask' \in [Workers -> S!Task] /\ staffTask'[w].at = "remove" /\ staffTask'[w].person = staffTask[w].person
      /\ \A v \in Workers \ {w} : staffTask'[v] = staffTask[v]
  BY GoesOn DEF DutyInv, S!AttendanceTypeOK, S!ForgetUser
<1>4. S!TypeOK'
  BY <1>2, <1>3 DEF DutyInv, S!AttendanceTypeOK, S!TypeOK, S!ForgetUser, S!Exists
<1>5. ~Wants(w)' /\ \A v \in Workers : Formed(v)'
  BY <1>1, <1>3 DEF DutyInv, Duty, Formed, Wants
<1>6. Counted'
  BY <1>3, <1>5, CountedFrame DEF DutyInv, Duty, S!ForgetUser
<1>7. Empty'
  BY <1>3, EmptyFrame DEF DutyInv, Duty, S!AttendanceTypeOK, S!TypeOK, S!ForgetUser
<1> QED
  BY <1>2, <1>4, <1>5, <1>6, <1>7 DEF Duty

\* A user who goes leaves a seat, and takes the rows of the clock along.
LEMMA RemoveUserKeeps ==
  ASSUME S!StaffAssumption, DutyInv, NEW w \in Workers, S!RemoveUser(w)
  PROVE  S!TypeOK' /\ Duty' /\ RowsGo
<1>1. PICK p \in People : p = staffTask[w].person
  BY DEF S!RemoveUser, S!At, DutyInv, Duty, Formed
<1>2. /\ RowsGo /\ attendance' \in [Rows -> S!Row \cup {S!NoRow, S!GoneRow}]
      /\ \A r \in Rows : attendance'[r] \in S!Row => attendance'[r] = attendance[r] /\ attendance[r].staff # p
  BY <1>1, WithoutGoes DEF DutyInv, S!AttendanceTypeOK, S!RemoveUser
<1>3. /\ staffTask' \in [Workers -> S!Task] /\ staffTask'[w].at = "idle"
      /\ \A v \in Workers \ {w} : staffTask'[v] = staffTask[v]
  BY EndIn DEF DutyInv, S!AttendanceTypeOK, S!RemoveUser
<1>4. /\ user' = [user EXCEPT ![p] = S!NoUser]
      /\ user' \in [People -> S!User \cup {S!NoUser}] /\ user'[p] = S!NoUser
      /\ \A q \in People \ {p} : user'[q] = user[q]
  BY <1>1 DEF DutyInv, S!AttendanceTypeOK, S!TypeOK, S!RemoveUser
<1>5. S!TypeOK'
  <2>1. \A q \in People : S!Exists(q)' => branch'[user'[q].branch] # "none"
    BY <1>4 DEF DutyInv, S!AttendanceTypeOK, S!TypeOK, S!Exists, S!RemoveUser
  <2>2. \A r \in Rows : attendance'[r] \in S!Row =>
          S!Exists(attendance[r].staff)' /\ branch'[attendance'[r].branch] # "none"
    BY <1>2, <1>4 DEF DutyInv, S!AttendanceTypeOK, S!TypeOK, S!Exists, S!Row, S!RemoveUser
  <2> QED
    BY <1>2, <1>3, <1>4, <2>1, <2>2 DEF DutyInv, S!AttendanceTypeOK, S!TypeOK, S!RemoveUser
<1>6. Counted'
  <2>1. S!Seats \in Nat /\ S!Seats' \in Nat /\ S!Seats' <= S!Seats
    BY <1>4, SeatCount, UserRows DEF DutyInv, S!AttendanceTypeOK
  <2>2. \A v \in Workers : Wants(v)' => Wants(v)
    <3> SUFFICES ASSUME NEW v \in Workers, Wants(v)'
                 PROVE  Wants(v)
      OBVIOUS
    <3>1. v # w /\ staffTask'[v] = staffTask[v]
      BY <1>3 DEF Wants
    <3>2. CASE staffTask[v].at = "create"
      BY <3>1, <3>2 DEF Wants
    <3>3. CASE staffTask[v].at = "save"
      <4>1. staffTask[v].person \in People /\ user'[staffTask[v].person] # S!NoUser
        BY <3>1, <3>3 DEF Wants, S!Exists, DutyInv, Duty, Formed
      <4>2. user'[staffTask[v].person] = user[staffTask[v].person]
        BY <1>4, <4>1
      <4> QED
        BY <3>1, <3>3, <4>2 DEF Wants, S!Exists
    <3> QED
      BY <3>1, <3>2, <3>3 DEF Wants
  <2> QED
    BY <2>1, <2>2 DEF DutyInv, Duty, Counted, S!RemoveUser, S!StaffAssumption
<1>7. Empty'
  BY <1>3, EmptyFrame DEF DutyInv, Duty, S!AttendanceTypeOK, S!TypeOK, S!RemoveUser
<1>8. \A v \in Workers : Formed(v)'
  BY <1>3 DEF DutyInv, Duty, Formed
<1> QED
  BY <1>2, <1>5, <1>6, <1>7, <1>8 DEF Duty

\* Branches are written; those that users and rows refer to stay.
LEMMA BranchWritten ==
  ASSUME S!StaffAssumption, DutyInv, NEW w \in Workers,
         branch' \in [Branches -> {"none", "active", "inactive"}],
         \A p \in People : S!Exists(p) => branch'[user[p].branch] # "none",
         \A r \in Rows : attendance[r] \in S!Row => branch'[attendance[r].branch] # "none",
         \A b \in Branches : branch'[b] = "none" => branch[b] = "none" \/ b \notin work \/ b \in late,
         staffRequests' \in 0..MaxRequests,
         staffTask' \in [Workers -> S!Task], staffTask'[w].at = "idle",
         \A v \in Workers \ {w} : staffTask'[v] = staffTask[v],
         UNCHANGED <<user, work, attendance, staffToken, stale, late>>
  PROVE  S!TypeOK' /\ Duty' /\ RowsGo
<1>1. S!TypeOK'
  BY DEF DutyInv, S!AttendanceTypeOK, S!TypeOK, S!Exists
<1>2. ~Wants(w)' /\ \A v \in Workers : Formed(v)'
  BY DEF DutyInv, Duty, Formed, Wants
<1>3. Counted'
  BY <1>2, CountedFrame DEF DutyInv, Duty
<1>4. Empty'
  BY DEF DutyInv, S!AttendanceTypeOK, S!TypeOK, Duty, Empty, S!WorkHasBranch
<1> QED
  BY <1>1, <1>2, <1>3, <1>4 DEF Duty, RowsGo

\* Users and rows of the clock name branches by their foreign keys.
LEMMA Named ==
  ASSUME S!StaffAssumption, DutyInv
  PROVE  /\ \A p \in People : S!Exists(p) => user[p].branch \in Branches /\ branch[user[p].branch] # "none"
         /\ \A r \in Rows : attendance[r] \in S!Row =>
              attendance[r].branch \in Branches /\ branch[attendance[r].branch] # "none"
BY DEF DutyInv, S!AttendanceTypeOK, S!TypeOK, S!Exists, S!User, S!Row

LEMMA UpsertBranchKeeps ==
  ASSUME S!StaffAssumption, DutyInv, NEW w \in Workers, S!UpsertBranch(w)
  PROVE  S!TypeOK' /\ Duty' /\ RowsGo
<1>1. /\ staffTask' \in [Workers -> S!Task] /\ staffTask'[w].at = "idle"
      /\ \A v \in Workers \ {w} : staffTask'[v] = staffTask[v]
  BY EndIn DEF DutyInv, S!AttendanceTypeOK, S!UpsertBranch
<1>2. /\ branch' \in [Branches -> {"none", "active", "inactive"}]
      /\ \A b \in Branches : branch'[b] = branch[b] \/ branch'[b] = "active"
      /\ staffRequests' \in 0..MaxRequests
  BY DEF DutyInv, S!AttendanceTypeOK, S!TypeOK, S!UpsertBranch
<1> QED
  BY <1>1, <1>2, Named, BranchWritten DEF S!UpsertBranch

LEMMA PutBranchKeeps ==
  ASSUME S!StaffAssumption, DutyInv, NEW w \in Workers, NEW actor \in People, NEW b \in Branches,
         S!PutBranch(w, actor, b)
  PROVE  S!TypeOK' /\ Duty' /\ RowsGo
<1>1. /\ branch' \in [Branches -> {"none", "active", "inactive"}]
      /\ \A c \in Branches : branch'[c] = branch[c] \/ branch'[c] \in {"active", "inactive"}
  BY DEF DutyInv, S!AttendanceTypeOK, S!TypeOK, S!PutBranch
<1>2. staffRequests' \in 0..MaxRequests /\ staffTask' \in [Workers -> S!Task] /\ staffTask'[w].at = "idle"
  BY RequestIn DEF DutyInv, S!AttendanceTypeOK, S!TypeOK, S!PutBranch, S!Request, S!At
<1> QED
  BY <1>1, <1>2, Named, BranchWritten DEF S!PutBranch

\* The second look has found no documents; what came since is late.
LEMMA DropBranchKeeps ==
  ASSUME S!StaffAssumption, DutyInv, NEW w \in Workers, S!DropBranch(w)
  PROVE  S!TypeOK' /\ Duty' /\ RowsGo
<1>1. PICK b \in Branches : b = staffTask[w].branch
  BY DEF S!DropBranch, S!At, DutyInv, Duty, Formed
<1>2. /\ staffTask' \in [Workers -> S!Task] /\ staffTask'[w].at = "idle"
      /\ \A v \in Workers \ {w} : staffTask'[v] = staffTask[v]
  BY EndIn DEF DutyInv, S!AttendanceTypeOK, S!DropBranch
<1>3. b \notin work \/ b \in late
  BY <1>1 DEF S!DropBranch, S!At, DutyInv, Duty, Empty
<1>4. /\ branch' \in [Branches -> {"none", "active", "inactive"}]
      /\ \A c \in Branches \ {b} : branch'[c] = branch[c]
      /\ staffRequests' \in 0..MaxRequests
  BY <1>1 DEF DutyInv, S!AttendanceTypeOK, S!TypeOK, S!DropBranch
<1>5. CASE branch' = branch
  BY <1>2, <1>4, <1>5, Named, BranchWritten DEF S!DropBranch
<1>6. CASE ~(\E p \in People : user[p].branch = b) /\ ~(\E r \in Rows : attendance[r].branch = b)
  BY <1>2, <1>3, <1>4, <1>6, Named, BranchWritten DEF S!DropBranch
<1> QED
  BY <1>1, <1>5, <1>6 DEF S!DropBranch

LEMMA StoreKeeps ==
  ASSUME S!StaffAssumption, DutyInv, NEW w \in Workers, NEW b \in Branches, S!Store(w, b) \/ S!Clear(w, b)
  PROVE  S!TypeOK' /\ Duty' /\ RowsGo
<1>1. staffRequests' \in 0..MaxRequests
  BY RequestIn DEF DutyInv, S!AttendanceTypeOK, S!Store, S!Clear
<1>2. work' \subseteq Branches /\ late' \subseteq Branches
  BY DEF DutyInv, S!AttendanceTypeOK, S!TypeOK, S!Store, S!Clear
<1>3. S!TypeOK'
  BY <1>1, <1>2 DEF DutyInv, S!AttendanceTypeOK, S!TypeOK, S!Store, S!Clear, S!Exists
<1>4. Counted' /\ \A v \in Workers : Formed(v)'
  BY DEF DutyInv, Duty, Counted, Wants, S!Seats, S!Exists, Formed, S!Store, S!Clear
<1>5. Empty'
  <2>1. CASE S!Store(w, b)
    BY <2>1 DEF DutyInv, Duty, Empty, S!WorkHasBranch, S!Store
  <2>2. CASE S!Clear(w, b)
    BY <2>2 DEF DutyInv, Duty, Empty, S!WorkHasBranch, S!Clear
  <2> QED
    BY <2>1, <2>2
<1> QED
  BY <1>3, <1>4, <1>5 DEF Duty, RowsGo, S!Store, S!Clear

-----------------------------------------------------------------------------
(* Attendance: the steps of the clock.                                     *)

LEMMA PunchIn ==
  ASSUME S!AttendanceTypeOK, NEW t \in Terminals, NEW x \in S!Punch, punch' = [punch EXCEPT ![t] = x]
  PROVE  /\ punch' \in [Terminals -> S!Punch] /\ punch'[t] = x
         /\ \A v \in Terminals \ {t} : punch'[v] = punch[v]
BY DEF S!AttendanceTypeOK

\* The clock writes no row that Staff looks at.
LEMMA DutyStays ==
  ASSUME DutyInv, UNCHANGED <<user, branch, work, staffTask, stale, late>>
  PROVE  Duty'
BY DEF DutyInv, Duty, Formed, Counted, Wants, S!Seats, S!Exists, Empty, S!WorkHasBranch

LEMMA TerminalRequestKeeps ==
  ASSUME S!StaffAssumption, DutyInv, NEW t \in Terminals, NEW p \in People, NEW x \in S!Punch,
         S!TerminalRequest(t, p, x), x.staff = p, x.branch \in Branches,
         \/ x.at = "look"
         \/ /\ x.at = "enter"
            /\ x.next \in S!Row /\ x.next.staff = p /\ x.next.branch = x.branch
            /\ x.row # None => attendance[x.row].staff = p
  PROVE  DutyInv'
<1>1. /\ punch' \in [Terminals -> S!Punch] /\ punch'[t] = x
      /\ \A v \in Terminals \ {t} : punch'[v] = punch[v]
  BY PunchIn DEF DutyInv, S!TerminalRequest
<1>2. /\ disturbed' \subseteq People /\ disturbed \subseteq disturbed'
      /\ (\E v \in Terminals \ {t} : punch[v].staff = p) => p \in disturbed'
  BY DEF DutyInv, S!AttendanceTypeOK, S!TerminalRequest, S!Disturbing
<1>3. staffRequests' \in 0..MaxRequests
  BY DEF DutyInv, S!AttendanceTypeOK, S!TypeOK, S!StaffAssumption, S!TerminalRequest
<1>4. S!AttendanceTypeOK'
  BY <1>1, <1>2, <1>3 DEF DutyInv, S!AttendanceTypeOK, S!TypeOK, S!TerminalRequest, S!Exists
<1>5. Duty'
  BY DutyStays DEF S!TerminalRequest
<1>6. Alone'
  BY <1>1, <1>2 DEF DutyInv, Clock, Alone
<1>7. Once'
  BY <1>2 DEF DutyInv, Clock, Once, S!IsOpen, S!TerminalRequest
<1>8. ASSUME NEW v \in Terminals
      PROVE  Owned(v)' /\ Held(v)'
  <2>1. CASE v = t
    BY <1>1, <2>1 DEF Owned, Held, S!TerminalRequest
  <2>2. CASE v # t
    BY <1>1, <1>2, <2>2 DEF DutyInv, Clock, Owned, Held, S!Of, S!IsOpen, S!TerminalRequest
  <2> QED
    BY <2>1, <2>2
<1> QED
  BY <1>4, <1>5, <1>6, <1>7, <1>8 DEF DutyInv, Clock

LEMMA PostPunchKeeps ==
  ASSUME S!StaffAssumption, DutyInv, NEW t \in Terminals, NEW p \in People, NEW b \in Branches,
         S!PostPunch(t, p, b)
  PROVE  DutyInv'
<1> DEFINE x == [S!NoPunch EXCEPT !.at = "look", !.staff = p, !.branch = b]
<1>1. x \in S!Punch /\ x.at = "look" /\ x.staff = p /\ x.branch = b
  BY DEF S!NoPunch, S!Punch
<1>2. S!TerminalRequest(t, p, x)
  BY DEF S!PostPunch
<1> HIDE DEF x
<1> QED
  BY <1>1, <1>2, TerminalRequestKeeps

LEMMA PostEntryKeeps ==
  ASSUME S!StaffAssumption, DutyInv, NEW t \in Terminals, NEW p \in People,
         NEW in \in BOOLEAN, NEW out \in BOOLEAN, S!PostEntry(t, p, in, out)
  PROVE  DutyInv'
<1> DEFINE next == [staff |-> p, branch |-> user[p].branch, in |-> in, out |-> out]
           x(row) == [at |-> "enter", staff |-> p, branch |-> user[p].branch, row |-> row, next |-> next]
<1>1. PICK row \in Rows \cup {None} :
        S!TerminalRequest(t, p, x(row)) /\ (row # None => attendance[row].staff = p)
  BY DEF S!PostEntry
<1>2. user[p].branch \in Branches
  BY DEF S!PostEntry, DutyInv, S!AttendanceTypeOK, S!TypeOK, S!Exists, S!User
<1>3. next \in S!Row /\ next.staff = p /\ next.branch = user[p].branch
  BY <1>2 DEF S!Row
<1> HIDE DEF next
<1>4. /\ x(row) \in S!Punch /\ x(row).at = "enter" /\ x(row).staff = p
      /\ x(row).branch = user[p].branch /\ x(row).row = row /\ x(row).next = next
  BY <1>2, <1>3 DEF S!Punch
<1> HIDE DEF x
<1> QED
  BY <1>1, <1>2, <1>3, <1>4, TerminalRequestKeeps

\* What a punch finds: an open row, which it closes, or none that is open.
LEMMA LookForRowKeeps ==
  ASSUME S!StaffAssumption, DutyInv, NEW t \in Terminals, S!LookForRow(t)
  PROVE  DutyInv'
<1> DEFINE p == punch[t].staff
           b == punch[t].branch
           open == S!OpenRows(p, b)
           blank == {r \in S!Of(p, b) : S!IsBlank(r)}
           next == [staff |-> p, branch |-> b, in |-> TRUE, out |-> open # {}]
<1>1. PICK row \in CASE open # {} -> S!Newest(open)
                     [] open = {} /\ blank # {} -> S!Newest(blank)
                     [] open = {} /\ blank = {} -> {None} :
        punch' = [punch EXCEPT ![t].at = "write", ![t].row = row, ![t].next = next]
  BY DEF S!LookForRow
<1>2. p \in People /\ b \in Branches /\ punch[t] \in S!Punch
  BY DEF DutyInv, S!AttendanceTypeOK, Clock, Owned, S!LookForRow, S!PunchAt
<1>3. /\ row \in Rows \cup {None}
      /\ row # None => attendance[row].staff = p /\ attendance[row].branch = b
      /\ row = None => open = {}
  <2>1. S!Newest(open) \subseteq S!Of(p, b) /\ S!Newest(blank) \subseteq S!Of(p, b) /\ S!Of(p, b) \subseteq Rows
    BY DEF S!Newest, S!OpenRows, S!Of
  <2>2. \A r \in S!Of(p, b) : attendance[r].staff = p /\ attendance[r].branch = b
    BY DEF S!Of
  <2>3. None \notin Rows
    BY DEF S!StaffAssumption
  <2> QED
    BY <1>1, <2>1, <2>2, <2>3
<1> DEFINE x == [punch[t] EXCEPT !.at = "write", !.row = row, !.next = next]
<1>4. next \in S!Row /\ next.staff = p /\ next.branch = b /\ (next.out <=> open # {})
  BY <1>2 DEF S!Row
<1> HIDE DEF next
<1>5. /\ x \in S!Punch /\ x.at = "write" /\ x.staff = p /\ x.branch = b
      /\ x.row = row /\ x.next = next
  BY <1>2, <1>3, <1>4 DEF S!Punch
<1>6. punch' = [punch EXCEPT ![t] = x]
  BY <1>1
<1> HIDE DEF x
<1>7. /\ punch' \in [Terminals -> S!Punch] /\ punch'[t] = x
      /\ \A v \in Terminals \ {t} : punch'[v] = punch[v]
  BY <1>5, <1>6, PunchIn DEF DutyInv
<1>8. S!AttendanceTypeOK'
  BY <1>7 DEF DutyInv, S!AttendanceTypeOK, S!TypeOK, S!LookForRow, S!staffVars, S!Exists
<1>9. Duty'
  BY DutyStays DEF S!LookForRow, S!staffVars
<1>10. Alone'
  BY <1>5, <1>7 DEF DutyInv, Clock, Alone, S!LookForRow
<1>11. Once'
  BY DEF DutyInv, Clock, Once, S!IsOpen, S!LookForRow, S!staffVars
<1>12. ASSUME NEW v \in Terminals
       PROVE  Owned(v)' /\ Held(v)'
  <2>1. CASE v = t
    <3>1. Owned(t)'
      BY <1>2, <1>3, <1>4, <1>5, <1>7 DEF Owned, S!LookForRow, S!staffVars
    <3>2. open = {} => \A r \in S!Of(p, b) : ~S!IsOpen(r)
      BY DEF S!OpenRows
    <3>3. Held(t)'
      BY <1>3, <1>4, <1>5, <1>7, <3>2 DEF Held, S!Of, S!IsOpen, S!LookForRow, S!staffVars
    <3> QED
      BY <2>1, <3>1, <3>3
  <2>2. CASE v # t
    BY <1>7, <2>2 DEF DutyInv, Clock, Owned, Held, S!Of, S!IsOpen, S!LookForRow, S!staffVars
  <2> QED
    BY <2>1, <2>2
<1> QED
  BY <1>8, <1>9, <1>10, <1>11, <1>12 DEF DutyInv, Clock

\* One row of the clock is written: it was of the member and branch of the
\* request, or is a new one, and is so afterwards.
Writes(t, r) ==
  /\ attendance'[r].staff = punch[t].staff
  /\ attendance'[r] \in S!Row
  /\ \/ attendance[r] = S!NoRow
     \/ attendance[r].staff = attendance'[r].staff /\ attendance[r].branch = attendance'[r].branch
  /\ \A other \in Rows \ {r} : attendance'[other] = attendance[other]

LEMMA RowKinds ==
  ASSUME S!StaffAssumption
  PROVE  /\ S!NoRow.staff = None /\ S!GoneRow.staff = None /\ S!NoRow # S!GoneRow
         /\ S!NoRow \notin S!Row /\ S!GoneRow \notin S!Row
         /\ \A row \in S!Row : row.staff # None
BY DEF S!NoRow, S!GoneRow, S!Row, S!StaffAssumption

\* The request that ends leaves the others alone; which rows are open is left to show.
LEMMA WriteFrame ==
  ASSUME S!StaffAssumption, DutyInv, NEW t \in Terminals, NEW r \in Rows, Writes(t, r),
         punch[t].at \in {"write", "enter"}, S!PunchReturn(t), S!AttendanceTypeOK',
         disturbed \subseteq disturbed', Once',
         UNCHANGED <<user, branch, work, staffTask, stale, late>>
  PROVE  DutyInv'
<1>1. /\ punch'[t] = S!NoPunch /\ S!NoPunch.staff = None /\ S!NoPunch.at = "idle"
      /\ \A v \in Terminals \ {t} : punch'[v] = punch[v]
  BY DEF DutyInv, S!AttendanceTypeOK, S!PunchReturn, S!NoPunch
<1>2. Alone'
  BY <1>1 DEF DutyInv, Clock, Alone
<1>3. punch[t].staff \in People /\ punch[t].staff # None
  BY DEF DutyInv, Clock, Owned, S!StaffAssumption
<1>4. ASSUME NEW v \in Terminals
      PROVE  Owned(v)' /\ Held(v)'
  <2>1. CASE v = t
    BY <1>1, <2>1 DEF Owned, Held
  <2>2. CASE v # t
    <3>1. punch'[v] = punch[v] /\ punch[v] \in S!Punch /\ Owned(v) /\ Held(v)
      BY <1>1, <2>2 DEF DutyInv, Clock, S!AttendanceTypeOK
    <3>2. Owned(v)'
      <4> SUFFICES ASSUME punch[v].at \in {"write", "enter"}, punch[v].row # None
                   PROVE  \/ attendance'[punch[v].row] = S!GoneRow
                          \/ /\ attendance'[punch[v].row].staff = punch[v].next.staff
                             /\ punch[v].at = "write" =>
                                  attendance'[punch[v].row].branch = punch[v].next.branch
        BY <3>1 DEF Owned
      <4>1. /\ punch[v].row \in Rows /\ punch[v].next \in S!Row
            /\ \/ attendance[punch[v].row] = S!GoneRow
               \/ /\ attendance[punch[v].row].staff = punch[v].next.staff
                  /\ punch[v].at = "write" =>
                       attendance[punch[v].row].branch = punch[v].next.branch
        BY <3>1 DEF Owned, S!Punch
      <4>2. CASE punch[v].row # r
        BY <4>1, <4>2 DEF Writes
      <4>3. CASE punch[v].row = r
        <5>1. attendance[r].staff = attendance'[r].staff /\ attendance[r].branch = attendance'[r].branch
          BY <1>3, <4>1, <4>3, RowKinds DEF Writes
        <5>2. attendance[r] # S!GoneRow
          BY <1>3, <5>1, RowKinds DEF Writes
        <5> QED
          BY <4>1, <4>3, <5>1, <5>2
      <4> QED
        BY <4>2, <4>3
    <3>3. Held(v)'
      <4> SUFFICES ASSUME punch[v].at = "write", punch[v].row = None \/ ~punch[v].next.out,
                          punch[v].staff \notin disturbed',
                          NEW other \in Rows, attendance'[other].staff = punch[v].staff,
                          attendance'[other].branch = punch[v].branch
                   PROVE  ~S!IsOpen(other)'
        BY <3>1 DEF Held, S!Of
      <4>1. punch[v].staff # None /\ punch[v].staff \notin disturbed
        BY <3>1 DEF Owned, S!StaffAssumption
      <4>2. punch[v].staff # punch[t].staff
        BY <2>2, <4>1 DEF DutyInv, Clock, Alone
      <4>3. other # r /\ attendance'[other] = attendance[other]
        BY <4>2 DEF Writes
      <4> QED
        BY <3>1, <4>1, <4>3 DEF Held, S!Of, S!IsOpen
    <3> QED
      BY <3>2, <3>3
  <2> QED
    BY <2>1, <2>2
<1>5. Duty'
  BY DutyStays
<1> QED
  BY <1>2, <1>4, <1>5 DEF DutyInv, Clock

\* The request ends and no row is written.
LEMMA NothingEntered ==
  ASSUME S!StaffAssumption, DutyInv, NEW t \in Terminals, S!PunchReturn(t),
         disturbed \subseteq disturbed', disturbed' \subseteq People,
         UNCHANGED <<user, branch, work, attendance, staffToken, staffTask, stale, late, staffRequests>>
  PROVE  DutyInv'
<1>1. /\ punch'[t] = S!NoPunch /\ S!NoPunch.staff = None /\ S!NoPunch.at = "idle"
      /\ punch' \in [Terminals -> S!Punch]
      /\ \A v \in Terminals \ {t} : punch'[v] = punch[v]
  BY DEF DutyInv, S!AttendanceTypeOK, S!PunchReturn, S!NoPunch, S!Punch
<1>2. S!AttendanceTypeOK'
  BY <1>1 DEF DutyInv, S!AttendanceTypeOK, S!TypeOK, S!Exists
<1>3. Alone' /\ Once'
  BY <1>1 DEF DutyInv, Clock, Alone, Once, S!IsOpen
<1>4. ASSUME NEW v \in Terminals
      PROVE  Owned(v)' /\ Held(v)'
  <2>1. CASE v = t
    BY <1>1, <2>1 DEF Owned, Held
  <2>2. CASE v # t
    BY <1>1, <2>2 DEF DutyInv, Clock, Owned, Held, S!Of, S!IsOpen
  <2> QED
    BY <2>1, <2>2
<1>5. Duty'
  BY DutyStays
<1> QED
  BY <1>2, <1>3, <1>4, <1>5 DEF DutyInv, Clock

\* A row is updated, or a new one created, and the request ends.
LEMMA RowWritten ==
  ASSUME S!StaffAssumption, DutyInv, NEW t \in Terminals, NEW r \in Rows, NEW row \in S!Row,
         punch[t].at \in {"write", "enter"}, S!PunchReturn(t),
         attendance' = [attendance EXCEPT ![r] = row],
         row.staff = punch[t].staff, S!Exists(row.staff), branch[row.branch] # "none",
         \/ attendance[r] = S!NoRow
         \/ attendance[r].staff = row.staff /\ attendance[r].branch = row.branch,
         disturbed \subseteq disturbed', disturbed' \subseteq People,
         \* an open row of a member whose requests come one by one is the only one
         row.in /\ ~row.out /\ row.staff \notin disturbed' =>
           \A other \in S!Of(row.staff, row.branch) : other = r \/ ~S!IsOpen(other),
         UNCHANGED <<user, branch, work, staffToken, staffTask, stale, late, staffRequests>>
  PROVE  DutyInv'
<1>1. /\ attendance' \in [Rows -> S!Row \cup {S!NoRow, S!GoneRow}] /\ attendance'[r] = row
      /\ \A other \in Rows \ {r} : attendance'[other] = attendance[other]
  BY DEF DutyInv, S!AttendanceTypeOK, S!TypeOK
<1>2. Writes(t, r)
  BY <1>1 DEF Writes
<1>3. S!AttendanceTypeOK'
  <2>1. punch' \in [Terminals -> S!Punch]
    BY DEF DutyInv, S!AttendanceTypeOK, S!PunchReturn, S!NoPunch, S!Punch
  <2>2. \A other \in Rows : attendance'[other] \in S!Row =>
          S!Exists(attendance[other].staff)' /\ branch'[attendance'[other].branch] # "none"
    BY <1>1 DEF DutyInv, S!AttendanceTypeOK, S!TypeOK, S!Exists
  <2> QED
    BY <1>1, <2>1, <2>2 DEF DutyInv, S!AttendanceTypeOK, S!TypeOK, S!Exists
<1>4. Once'
  <2> SUFFICES ASSUME NEW p \in People \ disturbed', NEW a \in Rows, NEW b \in Rows,
                      attendance'[a].staff = p, attendance'[b].staff = p,
                      attendance'[a].branch = attendance'[b].branch,
                      S!IsOpen(a)', S!IsOpen(b)', a # b
               PROVE  FALSE
    BY DEF Once
  <2>1. CASE a # r /\ b # r
    BY <1>1, <2>1 DEF DutyInv, Clock, Once, S!IsOpen
  <2>2. CASE a = r
    BY <1>1, <2>2 DEF S!Of, S!IsOpen
  <2>3. CASE b = r
    BY <1>1, <2>3 DEF S!Of, S!IsOpen
  <2> QED
    BY <2>1, <2>2, <2>3
<1> QED
  BY <1>2, <1>3, <1>4, WriteFrame

\* attendance.create: the row is new, if there is one.
LEMMA CreatesRow ==
  ASSUME S!StaffAssumption, DutyInv, NEW next \in S!Row, S!Creates(next)
  PROVE  \/ attendance' = attendance
         \/ \E r \in Rows : /\ attendance[r] = S!NoRow
                            /\ attendance' = [attendance EXCEPT ![r] = next]
                            /\ S!Exists(next.staff) /\ branch[next.branch] # "none"
<1>1. PICK r \in Rows :
        /\ \A other \in Rows : attendance[other] = S!NoRow <=> other >= r
        /\ attendance' = IF S!Exists(next.staff) /\ branch[next.branch] # "none"
                           THEN [attendance EXCEPT ![r] = next] ELSE attendance
  BY DEF S!Creates
<1>2. attendance[r] = S!NoRow
  <2>1. r \in Nat
    BY DEF S!StaffAssumption
  <2> QED
    BY <1>1, <2>1
<1> QED
  BY <1>1, <1>2

\* attendance.update: the row is still of the member, if it is there.
LEMMA UpdatesRow ==
  ASSUME S!StaffAssumption, DutyInv, NEW r \in Rows, NEW in \in BOOLEAN, NEW out \in BOOLEAN,
         S!Updates(r, in, out), attendance[r] = S!GoneRow \/ attendance[r].staff \in People
  PROVE  \/ attendance' = attendance
         \/ \E row \in S!Row :
              /\ attendance' = [attendance EXCEPT ![r] = row]
              /\ row.staff = attendance[r].staff /\ row.branch = attendance[r].branch
              /\ row.in = in /\ row.out = out
              /\ S!Exists(row.staff) /\ branch[row.branch] # "none"
<1>1. CASE attendance[r] = S!GoneRow
  BY <1>1 DEF S!Updates
<1>2. CASE attendance[r] # S!GoneRow
  <2>1. attendance[r] \in S!Row
    BY <1>2, RowKinds DEF DutyInv, S!AttendanceTypeOK, S!TypeOK, S!StaffAssumption
  <2> DEFINE row == [attendance[r] EXCEPT !.in = in, !.out = out]
  <2>2. /\ row \in S!Row /\ row.staff = attendance[r].staff /\ row.branch = attendance[r].branch
        /\ row.in = in /\ row.out = out
    BY <2>1 DEF S!Row
  <2>3. attendance' = [attendance EXCEPT ![r] = row]
    BY <1>2 DEF S!Updates
  <2>4. S!Exists(attendance[r].staff) /\ branch[attendance[r].branch] # "none"
    BY <2>1 DEF DutyInv, S!AttendanceTypeOK, S!TypeOK
  <2> HIDE DEF row
  <2> QED
    BY <2>2, <2>3, <2>4
<1> QED
  BY <1>1, <1>2

LEMMA WriteRowKeeps ==
  ASSUME S!StaffAssumption, DutyInv, NEW t \in Terminals, S!WriteRow(t)
  PROVE  DutyInv'
<1> DEFINE r == punch[t].row
           next == punch[t].next
<1>1. /\ punch[t].at = "write" /\ punch[t] \in S!Punch /\ Owned(t) /\ Held(t)
      /\ S!PunchReturn(t) /\ disturbed \subseteq People
  BY DEF S!WriteRow, S!PunchAt, DutyInv, S!AttendanceTypeOK, Clock
<1>2. /\ next \in S!Row /\ next.staff = punch[t].staff /\ next.branch = punch[t].branch
      /\ r \in Rows \cup {None} /\ next.out \in BOOLEAN /\ next.staff \in People
  BY <1>1 DEF Owned, S!Punch, S!Row
<1>3. next.staff \notin disturbed /\ (r = None \/ ~next.out) =>
        \A other \in S!Of(next.staff, next.branch) : ~S!IsOpen(other)
  BY <1>1, <1>2 DEF Held
<1>4. CASE attendance' = attendance
  BY <1>1, <1>4, NothingEntered DEF S!WriteRow
<1>5. CASE r = None
  <2>1. S!Creates(next)
    BY <1>5 DEF S!WriteRow
  <2>2. CASE attendance' # attendance
    <3>1. PICK new \in Rows : /\ attendance[new] = S!NoRow
                              /\ attendance' = [attendance EXCEPT ![new] = next]
                              /\ S!Exists(next.staff) /\ branch[next.branch] # "none"
      BY <1>2, <2>1, <2>2, CreatesRow
    <3> HIDE DEF next
    <3> QED
      BY <1>1, <1>2, <1>3, <1>5, <3>1, RowWritten DEF S!WriteRow
  <2> QED
    BY <1>4, <2>2
<1>6. CASE r # None
  <2>1. /\ attendance[r] = S!GoneRow \/ (attendance[r].staff = next.staff /\ attendance[r].branch = next.branch)
        /\ r \in Rows
    BY <1>1, <1>2, <1>6 DEF Owned
  <2>2. S!Updates(r, attendance[r].in \/ ~next.out, next.out)
    BY <1>6 DEF S!WriteRow
  <2>3. CASE attendance' # attendance
    <3> DEFINE in == attendance[r].in \/ ~next.out
    <3>a. in \in BOOLEAN /\ (attendance[r] = S!GoneRow \/ attendance[r].staff \in People)
      BY <1>2, <2>1
    <3>b. S!Updates(r, in, next.out)
      BY <2>2
    <3> HIDE DEF in
    <3>1. PICK row \in S!Row :
            /\ attendance' = [attendance EXCEPT ![r] = row]
            /\ row.staff = attendance[r].staff /\ row.branch = attendance[r].branch
            /\ row.out = next.out
            /\ S!Exists(row.staff) /\ branch[row.branch] # "none"
      BY <1>2, <2>1, <2>3, <3>a, <3>b, UpdatesRow
    <3>2. attendance[r].staff = next.staff /\ attendance[r].branch = next.branch
      BY <2>1, <2>2, <2>3 DEF S!Updates
    <3> HIDE DEF next, r
    <3> QED
      BY <1>1, <1>2, <1>3, <1>6, <2>1, <3>1, <3>2, RowWritten DEF S!WriteRow
  <2> QED
    BY <1>4, <2>3
<1> QED
  BY <1>5, <1>6

\* An entry by hand that opens a row is noticed.
LEMMA EnterRowKeeps ==
  ASSUME S!StaffAssumption, DutyInv, NEW t \in Terminals, S!EnterRow(t)
  PROVE  DutyInv'
<1> DEFINE r == punch[t].row
           next == punch[t].next
<1>1. punch[t].at = "enter" /\ punch[t] \in S!Punch /\ Owned(t) /\ S!PunchReturn(t)
  BY DEF S!EnterRow, S!PunchAt, DutyInv, S!AttendanceTypeOK, Clock
<1>2. /\ next \in S!Row /\ next.staff = punch[t].staff
      /\ r \in Rows \cup {None} /\ next.in \in BOOLEAN /\ next.out \in BOOLEAN /\ next.staff \in People
  BY <1>1 DEF Owned, S!Punch, S!Row
<1>3. /\ disturbed \subseteq disturbed' /\ disturbed' \subseteq People
      /\ next.in /\ ~next.out => next.staff \in disturbed'
  BY <1>2 DEF S!EnterRow, DutyInv, S!AttendanceTypeOK
<1>4. CASE attendance' = attendance
  BY <1>1, <1>3, <1>4, NothingEntered DEF S!EnterRow
<1>5. CASE r = None
  <2>1. S!Creates(next)
    BY <1>5 DEF S!EnterRow
  <2>2. CASE attendance' # attendance
    <3>1. PICK new \in Rows : /\ attendance[new] = S!NoRow
                              /\ attendance' = [attendance EXCEPT ![new] = next]
                              /\ S!Exists(next.staff) /\ branch[next.branch] # "none"
      BY <1>2, <2>1, <2>2, CreatesRow
    <3> HIDE DEF next
    <3> QED
      BY <1>1, <1>2, <1>3, <3>1, RowWritten DEF S!EnterRow
  <2> QED
    BY <1>4, <2>2
<1>6. CASE r # None
  <2>1. /\ attendance[r] = S!GoneRow \/ attendance[r].staff = next.staff
        /\ r \in Rows
    BY <1>1, <1>2, <1>6 DEF Owned
  <2>2. S!Updates(r, next.in, next.out)
    BY <1>6 DEF S!EnterRow
  <2>3. CASE attendance' # attendance
    <3>1. PICK row \in S!Row :
            /\ attendance' = [attendance EXCEPT ![r] = row]
            /\ row.staff = attendance[r].staff /\ row.branch = attendance[r].branch
            /\ row.in = next.in /\ row.out = next.out
            /\ S!Exists(row.staff) /\ branch[row.branch] # "none"
      BY <1>2, <2>1, <2>2, <2>3, UpdatesRow
    <3>2. attendance[r].staff = next.staff
      BY <2>1, <2>2, <2>3 DEF S!Updates
    <3> HIDE DEF next, r
    <3> QED
      BY <1>1, <1>2, <1>3, <2>1, <3>1, <3>2, RowWritten DEF S!EnterRow
  <2> QED
    BY <1>4, <2>3
<1> QED
  BY <1>5, <1>6

LEMMA ResetKeeps ==
  ASSUME S!StaffAssumption, DutyInv, S!Reset
  PROVE  DutyInv'
<1>1. /\ attendance' \in [Rows -> S!Row \cup {S!NoRow, S!GoneRow}]
      /\ \A r \in Rows : attendance'[r] \notin S!Row
      /\ RowsGo
  BY RowKinds DEF DutyInv, S!AttendanceTypeOK, S!TypeOK, RowsGo, S!Reset
<1>2. staffRequests' \in 0..MaxRequests
  BY DEF DutyInv, S!AttendanceTypeOK, S!TypeOK, S!StaffAssumption, S!Reset
<1>3. S!AttendanceTypeOK'
  BY <1>1, <1>2 DEF DutyInv, S!AttendanceTypeOK, S!TypeOK, S!Exists, S!Reset
<1>4. Clock'
  BY <1>1, ClockFrame DEF DutyInv, S!Reset
<1>5. Duty'
  BY DutyStays DEF S!Reset
<1> QED
  BY <1>3, <1>4, <1>5 DEF DutyInv

-----------------------------------------------------------------------------
(* Attendance: every step keeps the invariant.                             *)

LEMMA DutyInit ==
  ASSUME S!StaffAssumption, S!AttendanceInit
  PROVE  DutyInv
<1>1. /\ S!NoTask \in S!Task /\ S!NoTask.at = "idle" /\ S!NoPunch \in S!Punch /\ S!NoPunch.at = "idle"
      /\ S!NoPunch.staff = None
  BY DEF S!NoTask, S!Task, S!NoPatch, S!Patch, S!NoPunch, S!Punch
<1>2. user[Owner] \in S!User /\ \A p \in People \ {Owner} : user[p] = S!NoUser
  BY DEF S!AttendanceInit, S!Init, S!StaffAssumption, S!User, S!Roles
<1>3. S!AttendanceTypeOK
  <2>1. \A p \in People : S!Exists(p) => p = Owner /\ branch[user[p].branch] # "none"
    BY <1>2 DEF S!AttendanceInit, S!Init, S!Exists, S!StaffAssumption
  <2>2. user \in [People -> S!User \cup {S!NoUser}]
    BY <1>2 DEF S!AttendanceInit, S!Init
  <2>3. 0 \in 0..MaxRequests
    BY DEF S!StaffAssumption
  <2> QED
    BY <1>1, <2>1, <2>2, <2>3, RowKinds DEF S!AttendanceInit, S!Init, S!AttendanceTypeOK, S!TypeOK
<1>4. Counted
  <2>1. S!Seats <= 1 /\ S!Seats \in Nat
    <3> DEFINE Seated == {p \in People : Billable(user[p])}
    <3>1. Seated \subseteq {Owner}
      BY <1>2 DEF Billable, S!NoUser
    <3>2. S!Seats = S!Cardinality(Seated)
      BY DEF S!Seats, Billable
    <3> HIDE DEF Seated
    <3>3. S!IsFiniteSet({Owner}) /\ S!Cardinality({Owner}) = 1
      BY FS_Singleton, StaffFinite
    <3> QED
      BY <3>1, <3>2, <3>3, FS_Subset, FS_CardinalityType, StaffFinite
  <2>2. MaxUsers >= 1 /\ MaxUsers \in Nat
    BY DEF S!StaffAssumption
  <2>3. \A w \in Workers : ~Wants(w)
    BY <1>1 DEF S!AttendanceInit, S!Init, Wants
  <2> QED
    BY <2>1, <2>2, <2>3 DEF Counted
<1>5. Empty /\ \A w \in Workers : Formed(w)
  BY <1>1 DEF S!AttendanceInit, S!Init, Empty, S!WorkHasBranch, Formed
<1>6. Alone /\ \A t \in Terminals : Owned(t) /\ Held(t)
  BY <1>1 DEF S!AttendanceInit, Alone, Owned, Held
<1>7. Once
  BY RowKinds DEF S!AttendanceInit, S!Init, Once, S!StaffAssumption
<1> QED
  BY <1>3, <1>4, <1>5, <1>6, <1>7 DEF DutyInv, Duty, Clock

LEMMA StaffStepKeeps ==
  ASSUME S!StaffAssumption, DutyInv, S!StaffNext, UNCHANGED <<punch, disturbed>>
  PROVE  DutyInv'
<1>1. CASE \E p \in People : S!Login(p)
  <2>1. S!TypeOK' /\ Duty' /\ RowsGo
    BY <1>1, LoginKeeps
  <2> QED
    BY <2>1, ClockFrame DEF DutyInv, S!AttendanceTypeOK
<1>2. CASE \E w \in Workers : ~\E p \in People : S!Login(p)
  <2>1. S!TypeOK' /\ Duty' /\ RowsGo
    <3>1. PICK w \in Workers :
       \/ \E actor, p \in People :
            \/ \E new \in S!User : S!PostUser(w, actor, p, new)
            \/ \E patch \in S!Patch \ {S!NoPatch} : S!PutUser(w, actor, p, patch)
            \/ S!DeleteUser(w, actor, p)
       \/ S!CreateUser(w) \/ S!CheckUser(w) \/ S!SaveUser(w) \/ S!ForgetUser(w) \/ S!RemoveUser(w)
       \/ \E b \in Branches :
            \/ \E actor \in People : S!PostBranch(w, actor, b) \/ S!PutBranch(w, actor, b)
                                       \/ S!DeleteBranch(w, actor, b)
            \/ S!Store(w, b) \/ S!Clear(w, b)
       \/ S!UpsertBranch(w) \/ S!LookAgain(w) \/ S!DropBranch(w)
      BY <1>2 DEF S!StaffNext
    <3>2. CASE \E actor, p \in People :
                 \/ \E new \in S!User : S!PostUser(w, actor, p, new)
                 \/ \E patch \in S!Patch \ {S!NoPatch} : S!PutUser(w, actor, p, patch)
                 \/ S!DeleteUser(w, actor, p)
      BY <3>2, PostUserKeeps, PutUserKeeps, DeleteUserKeeps
    <3>3. CASE S!CreateUser(w) \/ S!CheckUser(w) \/ S!SaveUser(w) \/ S!ForgetUser(w) \/ S!RemoveUser(w)
      BY <3>3, CreateUserKeeps, CheckUserKeeps, SaveUserKeeps, ForgetUserKeeps, RemoveUserKeeps
    <3>4. CASE \E b \in Branches :
                 \/ \E actor \in People : S!PostBranch(w, actor, b) \/ S!PutBranch(w, actor, b)
                                            \/ S!DeleteBranch(w, actor, b)
                 \/ S!Store(w, b) \/ S!Clear(w, b)
      BY <3>4, PostBranchKeeps, PutBranchKeeps, StoreKeeps
    <3>5. CASE S!UpsertBranch(w) \/ S!LookAgain(w) \/ S!DropBranch(w)
      BY <3>5, UpsertBranchKeeps, LookAgainKeeps, DropBranchKeeps
    <3> QED
      BY <3>1, <3>2, <3>3, <3>4, <3>5
  <2> QED
    BY <2>1, ClockFrame DEF DutyInv, S!AttendanceTypeOK
<1> QED
  BY <1>1, <1>2 DEF S!StaffNext

LEMMA DutyNext ==
  ASSUME S!StaffAssumption, DutyInv, [S!AttendanceNext]_(S!vars)
  PROVE  DutyInv'
<1>1. CASE S!StaffNext /\ UNCHANGED <<punch, disturbed>>
  BY <1>1, StaffStepKeeps
<1>2. CASE \E t \in Terminals :
             \/ \E p \in People, b \in Branches : S!PostPunch(t, p, b)
             \/ \E p \in People, in, out \in BOOLEAN : S!PostEntry(t, p, in, out)
  BY <1>2, PostPunchKeeps, PostEntryKeeps
<1>3. CASE \E t \in Terminals : S!LookForRow(t) \/ S!WriteRow(t) \/ S!EnterRow(t)
  BY <1>3, LookForRowKeeps, WriteRowKeeps, EnterRowKeeps
<1>4. CASE S!Reset
  BY <1>4, ResetKeeps
<1>5. CASE UNCHANGED S!vars
  <2>1. S!AttendanceTypeOK'
    BY <1>5 DEF S!vars, S!staffVars, DutyInv, S!AttendanceTypeOK, S!TypeOK, S!Exists
  <2>2. Duty'
    BY <1>5, DutyStays DEF S!vars, S!staffVars
  <2>3. Clock'
    BY <1>5, ClockFrame DEF S!vars, S!staffVars, RowsGo, DutyInv
  <2> QED
    BY <2>1, <2>2, <2>3 DEF DutyInv
<1> QED
  BY <1>1, <1>2, <1>3, <1>4, <1>5 DEF S!AttendanceNext

\* The inductive invariant holds of every state: what users, branches and the clock
\* leave of a check between two of their queries.
THEOREM DutyInvariance ==
  ASSUME S!StaffAssumption
  PROVE  S!Spec => []DutyInv
<1>1. S!AttendanceInit => DutyInv
  BY DutyInit
<1>2. DutyInv /\ [S!AttendanceNext]_(S!vars) => DutyInv'
  BY DutyNext
<1> QED
  BY <1>1, <1>2, PTL DEF S!Spec

-----------------------------------------------------------------------------
(* Attendance: what the invariant says.                                    *)

\* The rows and requests keep their types, and the foreign keys of users and of
\* attendance hold.
THEOREM DutyTyped ==
  ASSUME S!StaffAssumption
  PROVE  S!Spec => []S!AttendanceTypeOK
<1>1. DutyInv => S!AttendanceTypeOK
  BY DEF DutyInv
<1> QED
  BY <1>1, DutyInvariance, PTL

\* The plan's users are never exceeded, but where two requests went by one count.
THEOREM SeatsHold ==
  /\ S!Spec => []S!SeatsAreSold
  /\ PeopleSpec => []SeatsAreSold
<1>1. DutyInv => S!SeatsAreSold
  BY DEF DutyInv, Duty, Counted, S!SeatsAreSold
<1>2. S!Spec => []DutyInv
  BY PeopleAssumption, DutyInvariance, PTL DEF PeopleAssumption
<1>3. S!SeatsAreSold => SeatsAreSold
  BY DEF SeatsAreSold
<1> QED
  BY <1>1, <1>2, <1>3, EachPartRuns, PTL

\* A branch is not deleted under its documents, but for one stored meanwhile.
THEOREM BranchesStay ==
  /\ S!Spec => []S!WorkHasBranch
  /\ PeopleSpec => []WorkHasBranch
<1>1. DutyInv => S!WorkHasBranch
  BY DEF DutyInv, Duty, Empty
<1>2. S!Spec => []DutyInv
  BY PeopleAssumption, DutyInvariance, PTL DEF PeopleAssumption
<1>3. S!WorkHasBranch => WorkHasBranch
  BY DEF WorkHasBranch
<1> QED
  BY <1>1, <1>2, <1>3, EachPartRuns, PTL

\* Punches one after the other leave a member in at most once at a branch.
THEOREM InOnce ==
  /\ S!Spec => []S!InAtMostOnce
  /\ PeopleSpec => []InAtMostOnce
<1>1. DutyInv => S!InAtMostOnce
  <2> SUFFICES ASSUME DutyInv, NEW p \in People \ disturbed, NEW b \in Branches
               PROVE  S!Cardinality({r \in S!Of(p, b) : S!IsOpen(r)}) <= 1
    BY DEF S!InAtMostOnce
  <2> DEFINE open == {r \in S!Of(p, b) : S!IsOpen(r)}
  <2>1. \A r, other \in open : r = other
    BY DEF DutyInv, Clock, Once, S!Of
  <2> HIDE DEF open
  <2>2. CASE open = {}
    BY <2>2, FS_EmptySet, StaffFinite DEF open
  <2>3. CASE open # {}
    <3>1. PICK r \in open : open = {r}
      BY <2>1, <2>3
    <3> QED
      BY <3>1, FS_Singleton, StaffFinite DEF open
  <2> QED
    BY <2>2, <2>3
<1>2. S!Spec => []DutyInv
  BY PeopleAssumption, DutyInvariance, PTL DEF PeopleAssumption
<1>3. S!InAtMostOnce => InAtMostOnce
  BY DEF InAtMostOnce
<1> QED
  BY <1>1, <1>2, <1>3, EachPartRuns, PTL

-----------------------------------------------------------------------------
(* Access.                                                                 *)

\* The keys are as the level the form has set last leaves them.
Levelled ==
  level # None =>
    /\ {"BASE", "DELETE"} \cap held = {}
    /\ level = "withoutEditAccess" => "EDIT" \notin held
    /\ level = "withEditAccess" /\ {"CREATE", "VIEW"} \cap held # {} => "EDIT" \in held

AccessInv == K!AccessAssumption /\ K!TypeOK /\ Levelled

\* A level leaves neither the legacy key nor the one to delete.
LEMMA LevelKeys ==
  ASSUME NEW keys \in SUBSET K!Keys, NEW access \in K!Levels
  PROVE  LET perms == K!permissionsForStaffAccessLevel(keys, access) IN
         /\ perms \subseteq K!Keys /\ {"BASE", "DELETE"} \cap perms = {}
         /\ access = "withoutEditAccess" => "EDIT" \notin perms
         /\ access = "withEditAccess" /\ {"CREATE", "VIEW"} \cap perms # {} => "EDIT" \in perms
BY DEF K!permissionsForStaffAccessLevel, K!expandLegacyBaseKeys, K!Keys, K!Levels

LEMMA AccessInit ==
  ASSUME K!AccessAssumption, K!Init
  PROVE  AccessInv
<1>1. PICK perms \in SUBSET K!Keys, access \in K!Levels :
        /\ held = K!resolvePermissionsOnCreate(role, perms, access)
        /\ level = IF perms = {} /\ held # {} THEN access ELSE None
  BY DEF K!Init
<1>2. CASE perms = {} /\ held # {}
  <2>1. held = K!permissionsForStaffAccessLevel({"CREATE", "VIEW"}, access) /\ level = access
    BY <1>1, <1>2 DEF K!resolvePermissionsOnCreate
  <2>2. {"CREATE", "VIEW"} \in SUBSET K!Keys
    BY DEF K!Keys
  <2> QED
    BY <2>1, <2>2, LevelKeys DEF K!Init, AccessInv, K!TypeOK, Levelled
<1>3. CASE perms # {} \/ held = {}
  <2>1. held \subseteq K!Keys /\ level = None
    BY <1>1, <1>3 DEF K!resolvePermissionsOnCreate
  <2> QED
    BY <2>1 DEF K!Init, AccessInv, K!TypeOK, Levelled
<1> QED
  BY <1>2, <1>3

LEMMA AccessNext ==
  ASSUME AccessInv, [K!Next]_(K!vars)
  PROVE  AccessInv'
<1>1. CASE K!SetPermissions
  BY <1>1 DEF K!SetPermissions, AccessInv, K!TypeOK, Levelled
<1>2. CASE K!SetAccessLevel
  <2>1. PICK access \in K!Levels, base \in SUBSET K!Keys :
          held' = K!permissionsForStaffAccessLevel(base, access) /\ level' = access
    BY <1>2 DEF K!SetAccessLevel
  <2> QED
    BY <1>2, <2>1, LevelKeys DEF K!SetAccessLevel, AccessInv, K!TypeOK, Levelled
<1>3. CASE K!SetRole
  BY <1>3 DEF K!SetRole, AccessInv, K!TypeOK, Levelled, K!Roles
<1>4. CASE K!MoveBranch
  BY <1>4 DEF K!MoveBranch, AccessInv, K!TypeOK, Levelled
<1>5. CASE UNCHANGED K!vars
  BY <1>5 DEF K!vars, AccessInv, K!TypeOK, Levelled
<1> QED
  BY <1>1, <1>2, <1>3, <1>4, <1>5 DEF K!Next

\* A level decides what the stored keys allow.
LEMMA LevelDecides ==
  ASSUME AccessInv
  PROVE  K!LevelDecidesEdits
<1> SUFFICES ASSUME role # "ADMIN", level # None
             PROVE  /\ level = "withEditAccess" /\ (K!Allowed("GET") \/ K!Allowed("POST")) =>
                         K!Allowed("PUT")
                    /\ level = "withoutEditAccess" /\ kind # "simple" =>
                         (K!Allowed("PUT") => kind = "upsert" /\ K!Allowed("POST"))
                    /\ kind # "simple" => ~K!Allowed("DELETE")
  BY DEF K!LevelDecidesEdits
<1>1. /\ K!Allowed("GET") <=> "VIEW" \in held \/ (kind = "simple" /\ held # {})
      /\ K!Allowed("POST") <=> "CREATE" \in held \/ (kind = "simple" /\ held # {})
      /\ K!Allowed("PUT") <=> \/ "EDIT" \in held \/ (kind = "upsert" /\ "CREATE" \in held)
                              \/ kind = "simple" /\ held # {}
      /\ K!Allowed("DELETE") <=> kind = "simple" /\ held # {}
  BY DEF AccessInv, Levelled, K!Allowed, K!hasPermissionForMethod, K!actionFromHttpMethod
<1> QED
  BY <1>1 DEF AccessInv, Levelled

\* Asking for a branch leaves a part of the scope.
LEMMA AskedIsWithin ==
  ASSUME K!AccessAssumption
  PROVE  K!QueryNarrows
<1> SUFFICES ASSUME NEW query \in {Home, Elsewhere}, NEW doc \in K!Documents,
                    K!isPayloadInBranchScope(doc, K!intersectQueryBranchId(K!Scope(role), query))
             PROVE  K!isPayloadInBranchScope(doc, K!intersectQueryBranchId(K!Scope(role), None))
  BY DEF K!QueryNarrows, K!Shown
<1> DEFINE allowed == K!Scope(role)
<1>1. K!intersectQueryBranchId(allowed, None) = allowed
  BY DEF K!intersectQueryBranchId
<1>2. CASE allowed = None
  BY <1>1, <1>2 DEF K!isPayloadInBranchScope
<1>3. CASE allowed # None
  <2>1. allowed \in SUBSET {Home, Elsewhere}
    BY <1>3 DEF K!Scope
  <2>2. K!intersectQueryBranchId(allowed, query) \in SUBSET {Home, Elsewhere}
    BY <2>1 DEF K!intersectQueryBranchId
  <2>3. K!intersectQueryBranchId(allowed, query) \subseteq allowed
    BY <1>3, <2>1 DEF K!intersectQueryBranchId
  <2>4. K!intersectQueryBranchId(allowed, query) # None
    BY <2>2, Zenon DEF K!AccessAssumption
  <2> QED
    BY <1>1, <1>3, <2>3, <2>4 DEF K!isPayloadInBranchScope
<1> QED
  BY <1>2, <1>3

\* The keys stay as the level set last has left them.
THEOREM AccessInvariance ==
  ASSUME K!AccessAssumption
  PROVE  K!Spec => []AccessInv
BY AccessInit, AccessNext, PTL DEF K!Spec

\* The level set last decides what the routes let a member edit, whatever keys it was
\* applied to (permissionsForStaffAccessLevel), and a list of one branch shows
\* nothing that the whole list hides (intersectQueryBranchId).
THEOREM AccessBounded ==
  /\ K!Spec => [](K!TypeOK /\ K!LevelDecidesEdits /\ K!QueryNarrows)
  /\ PeopleSpec => []AccessIsBounded
<1>1. AccessInv => K!TypeOK /\ K!LevelDecidesEdits /\ K!QueryNarrows
  BY LevelDecides, AskedIsWithin, PeopleAssumption DEF AccessInv, PeopleAssumption
<1>2. K!Spec => []AccessInv
  BY PeopleAssumption, AccessInvariance, PTL DEF PeopleAssumption
<1>3. K!LevelDecidesEdits /\ K!QueryNarrows => AccessIsBounded
  BY DEF AccessIsBounded
<1> QED
  BY <1>1, <1>2, <1>3, EachPartRuns, PTL

-----------------------------------------------------------------------------
(* Parties: the inductive invariant.                                       *)

\* What a row is about fits its id.
RowFits(i, r) ==
  /\ r \in Q!Row
  /\ i[1] = "c" => r.kind = "customer" /\ r.customer \in {i[2], None}
  /\ i[1] \in {"v", ""} => r.kind = "supplier"
  /\ r.customer # None => r.kind = "customer"
  /\ i[1] = "v" /\ i[2] \in Names /\ r.vendorKey # None => Q!Same(i[2], r.vendorKey)

RowsFit == \A i \in Q!Stored : RowFits(i, partyRows[i])

PartiesInv ==
  /\ Q!TypeOK /\ RowsFit
  /\ \A w \in Workers :
       /\ partyTask[w].at # "idle" => partyTask[w].id \in Q!Ids
       /\ partyTask[w].at = "store" => RowFits(partyTask[w].id, partyTask[w].row)

LEMMA PartiesInit == ASSUME Q!PartiesAssumption PROVE Q!Init => PartiesInv
BY DEF Q!Init, PartiesInv, Q!TypeOK, Q!Task, Q!Idle, RowsFit, Q!Stored, Q!PartiesAssumption

LEMMA FitsLike ==
  ASSUME NEW i, NEW r, NEW s \in Q!Row, RowFits(i, r), s.kind = r.kind, s.customer = r.customer,
         s.vendorKey = r.vendorKey
  PROVE  RowFits(i, s)
BY DEF RowFits

-----------------------------------------------------------------------------
(* Parties: names and ids.                                                 *)

LEMMA SameProfiles ==
  ASSUME NEW n, NEW m, Q!Same(n, m)
  PROVE  /\ Q!ProfileOf(n) = Q!ProfileOf(m)
         /\ (CHOOSE p \in Q!ProfileOf(n) : TRUE) = (CHOOSE p \in Q!ProfileOf(m) : TRUE)
<1>1. Q!ProfileOf(n) = Q!ProfileOf(m)
  BY DEF Q!ProfileOf, Q!Same
<1> QED
  BY <1>1

LEMMA Spelled ==
  ASSUME NEW n, Q!ProfileOf(n) # {}, Q!TypeOK
  PROVE  /\ Q!Same(n, Q!Spelling(n)) /\ Q!Spelling(n) \in Names
         /\ Q!Spelling(Q!Spelling(n)) = Q!Spelling(n)
         /\ Q!ProfileOf(Q!Spelling(n)) = Q!ProfileOf(n)
         /\ Q!CanonicalId(Q!Spelling(n)) = Q!CanonicalId(n)
         /\ Q!Spelling(n) \in Q!VendorNames
<1> DEFINE p == CHOOSE q \in Q!ProfileOf(n) : TRUE
<1>1. p \in Q!ProfileOf(n) /\ Q!Spelling(n) = directory[p]
  BY DEF Q!Spelling
<1>2. p \in Profiles /\ Q!Listed(p) /\ Q!Same(n, directory[p]) /\ directory[p] \in Names
  BY <1>1 DEF Q!ProfileOf, Q!Listed, Q!TypeOK
<1>3. /\ Q!ProfileOf(directory[p]) = Q!ProfileOf(n)
      /\ (CHOOSE q \in Q!ProfileOf(directory[p]) : TRUE) = p
  BY <1>2, SameProfiles
<1>4. Q!Spelling(directory[p]) = directory[p] /\ Q!CanonicalId(directory[p]) = Q!CanonicalId(n)
  BY <1>3 DEF Q!Spelling, Q!CanonicalId
<1>5. directory[p] \in Q!VendorNames
  BY <1>2, <1>4 DEF Q!VendorNames
<1> QED
  BY <1>1, <1>2, <1>3, <1>4, <1>5

LEMMA VendorName ==
  ASSUME Q!TypeOK, Q!PartiesAssumption, NEW n \in Q!VendorNames
  PROVE  /\ n \in Names
         /\ \/ /\ Q!ProfileOf(n) # {} /\ n = Q!Spelling(n)
               /\ \E p \in Q!ProfileOf(n) : Q!CanonicalId(n) = <<"v", p>> /\ directory[p] = n
            \/ Q!ProfileOf(n) = {} /\ n \in spent /\ Q!CanonicalId(n) = <<"v", n>>
<1>1. CASE n \in spent /\ Q!ProfileOf(n) = {}
  BY <1>1 DEF Q!CanonicalId, Q!vendorPartyId, Q!TypeOK
<1>2. CASE \E p \in Profiles : Q!Listed(p) /\ n = Q!Spelling(directory[p])
  <2>1. PICK p \in Profiles : Q!Listed(p) /\ n = Q!Spelling(directory[p])
    BY <1>2
  <2>2. p \in Q!ProfileOf(directory[p])
    BY <2>1 DEF Q!ProfileOf, Q!Same, Q!Listed, Q!TypeOK
  <2>3. /\ n \in Names /\ Q!Spelling(n) = n /\ Q!ProfileOf(n) = Q!ProfileOf(directory[p])
    BY <2>1, <2>2, Spelled
  <2>4. Q!ProfileOf(n) # {}
    BY <2>2, <2>3
  <2> QED
    BY <2>3, <2>4 DEF Q!CanonicalId, Q!vendorPartyId, Q!Spelling
<1> QED
  BY <1>1, <1>2 DEF Q!VendorNames

LEMMA CanonicalApart ==
  ASSUME Q!TypeOK, Q!PartiesAssumption, NEW m \in Q!VendorNames, NEW n \in Q!VendorNames,
         Q!CanonicalId(m) = Q!CanonicalId(n)
  PROVE  m = n
BY VendorName DEF Q!PartiesAssumption, Q!ProfileOf

-----------------------------------------------------------------------------
(* Parties: the parties of the list.                                       *)

Fields(p) == [kind |-> p.kind, customer |-> p.customer, vendorKey |-> p.vendorKey,
              opening |-> p.opening]

LEMMA MergeIs ==
  ASSUME NEW key, NEW id, NEW side, NEW client, NEW vendorKey, NEW from
  PROVE  LET p == Q!Merge(key, id, side, client, vendorKey, from)
         IN  /\ p.id = id
             /\ from = {} => /\ p.kind = side /\ p.customer = client /\ p.vendorKey = vendorKey
                             /\ p.opening = 0 /\ p.row = None
             /\ from # {} => /\ p.row \in from
                             /\ p.kind = partyRows[p.row].kind /\ p.opening = partyRows[p.row].opening
                             /\ p.customer = IF partyRows[p.row].customer # None
                                               THEN partyRows[p.row].customer ELSE client
                             /\ p.vendorKey = IF partyRows[p.row].vendorKey # None
                                                THEN partyRows[p.row].vendorKey ELSE vendorKey
<1> DEFINE i == CHOOSE r \in from : TRUE
<1>1. CASE from = {}
  BY <1>1 DEF Q!Merge
<1>2. CASE from # {}
  <2>1. i \in from
    BY <1>2
  <2>2. Q!Merge(key, id, side, client, vendorKey, from) =
          [key |-> key, id |-> id, kind |-> partyRows[i].kind,
           customer |-> IF partyRows[i].customer # None THEN partyRows[i].customer ELSE client,
           vendorKey |-> IF partyRows[i].vendorKey # None THEN partyRows[i].vendorKey ELSE vendorKey,
           opening |-> partyRows[i].opening, row |-> i]
    BY <1>2 DEF Q!Merge
  <2> HIDE DEF i
  <2> QED
    BY <1>2, <2>1, <2>2
<1> QED
  BY <1>1, <1>2

CustomerParty(c) ==
  Q!Merge(Q!customerPartyId(c), Q!customerPartyId(c), "customer", c, None, Q!RowsOfCustomer(c))
VendorParty(n) ==
  Q!Merge(Q!CanonicalId(n), Q!CanonicalId(n), "supplier", None, n, Q!RowsForName(n))
OtherParty(k) ==
  Q!Merge(k, Q!RowAt(k), partyRows[Q!RowAt(k)].kind, None, None, {Q!RowAt(k)})

\* The rows a customer is listed with.
LEMMA CustomerRows ==
  ASSUME Q!PartiesAssumption, NEW c \in Customers, NEW i
  PROVE  i \in Q!RowsOfCustomer(c) <=>
           i \in Q!Stored /\ (i = <<"c", c>> \/ partyRows[i].customer = c)
<1>1. c # None
  BY DEF Q!PartiesAssumption
<1>2. ASSUME NEW d PROVE <<"c", d>> = <<"c", c>> <=> d = c
  OBVIOUS
<1>3. <<"c", c>> \in Q!CustomerIdOf(i) <=> partyRows[i].customer = c
  BY <1>1, <1>2 DEF Q!CustomerIdOf, Q!customerPartyId
<1> QED
  BY <1>3 DEF Q!RowsOfCustomer, Q!RowsAt, Q!customerPartyId

\* The row of a key has it as its id or is of its customer.
LEMMA KeyIs ==
  ASSUME NEW k \in Q!Keys
  PROVE  /\ Q!RowAt(k) \in Q!Stored
         /\ \/ k = Q!RowAt(k)
            \/ /\ partyRows[Q!RowAt(k)].customer # None
               /\ k = <<"c", partyRows[Q!RowAt(k)].customer>>
<1>1. \E i \in Q!Stored : k \in {i} \cup Q!CustomerIdOf(i)
  BY DEF Q!Keys
<1>2. Q!RowAt(k) \in Q!RowsAt(k)
  BY <1>1 DEF Q!RowAt, Q!RowsAt
<1> QED
  BY <1>2 DEF Q!RowsAt, Q!CustomerIdOf, Q!customerPartyId

\* The id of a row that is no customer's is the key of that row.
LEMMA OwnKey ==
  ASSUME NEW i \in Q!Stored, i[1] # "c"
  PROVE  i \in Q!Keys /\ Q!RowAt(i) = i
<1>1. i \in Q!Keys
  BY DEF Q!Keys
<1>2. ASSUME NEW d PROVE i # <<"c", d>>
  <2>1. <<"c", d>>[1] = "c"
    OBVIOUS
  <2> QED
    BY <2>1
<1> QED
  BY <1>1, <1>2, KeyIs

LEMMA CustomerIs ==
  ASSUME Q!TypeOK, RowsFit, Q!PartiesAssumption, NEW c \in Customers
  PROVE  LET p == CustomerParty(c)
         IN  /\ p.id = <<"c", c>> /\ p.kind = "customer" /\ p.customer = c
             /\ RowFits(p.id, Fields(p))
             /\ \/ Q!RowsOfCustomer(c) = {} /\ p.row = None
                \/ p.row \in Q!RowsOfCustomer(c)
<1> DEFINE p == CustomerParty(c)
<1>1. CASE Q!RowsOfCustomer(c) = {}
  <2>1. /\ p.id = <<"c", c>> /\ p.kind = "customer" /\ p.customer = c /\ p.vendorKey = None
        /\ p.opening = 0 /\ p.row = None
    BY <1>1, MergeIs DEF CustomerParty, Q!customerPartyId
  <2> HIDE DEF p
  <2>2. Fields(p) = [kind |-> "customer", customer |-> c, vendorKey |-> None, opening |-> 0]
    BY <2>1 DEF Fields
  <2>3. RowFits(<<"c", c>>,
                [kind |-> "customer", customer |-> c, vendorKey |-> None, opening |-> 0])
    BY DEF RowFits, Q!Row, Q!PartiesAssumption
  <2> QED
    BY <1>1, <2>1, <2>2, <2>3 DEF p
<1>2. CASE Q!RowsOfCustomer(c) # {}
  <2>1. /\ p.id = <<"c", c>> /\ p.row \in Q!RowsOfCustomer(c)
        /\ p.kind = partyRows[p.row].kind /\ p.opening = partyRows[p.row].opening
        /\ p.customer = IF partyRows[p.row].customer # None THEN partyRows[p.row].customer ELSE c
        /\ p.vendorKey = IF partyRows[p.row].vendorKey # None THEN partyRows[p.row].vendorKey ELSE None
    BY <1>2, MergeIs DEF CustomerParty, Q!customerPartyId
  <2> HIDE DEF p
  <2>2. PICK i \in Q!Stored : i = p.row /\ RowFits(i, partyRows[i])
                                  /\ (i = <<"c", c>> \/ partyRows[i].customer = c)
    BY <2>1, CustomerRows DEF RowsFit
  <2>3. partyRows[i].kind = "customer" /\ partyRows[i].customer \in {c, None} /\ partyRows[i] \in Q!Row
    <3>1. CASE i = <<"c", c>>
      <4>1. i[1] = "c" /\ i[2] = c
        BY <3>1
      <4> QED
        BY <2>2, <4>1 DEF RowFits
    <3>2. CASE partyRows[i].customer = c
      <4>1. c # None
        BY DEF Q!PartiesAssumption
      <4> QED
        BY <2>2, <3>2, <4>1 DEF RowFits
    <3> QED
      BY <2>2, <3>1, <3>2
  <2>4. p.kind = "customer" /\ p.customer = c /\ p.vendorKey \in Names \cup {None}
        /\ p.opening \in 0..MaxOpening
    BY <2>1, <2>2, <2>3 DEF Q!Row
  <2>5. RowFits(<<"c", c>>, Fields(p))
    BY <2>4 DEF RowFits, Q!Row, Fields
  <2> QED
    BY <1>2, <2>1, <2>4, <2>5 DEF p
<1> QED
  BY <1>1, <1>2

LEMMA VendorIs ==
  ASSUME Q!TypeOK, RowsFit, Q!PartiesAssumption, NEW n \in Q!VendorNames
  PROVE  LET p == VendorParty(n)
         IN  /\ p.id = Q!CanonicalId(n) /\ p.kind = "supplier" /\ p.customer = None
             /\ p.vendorKey \in Names
             /\ RowFits(p.id, Fields(p))
             /\ \/ Q!RowsForName(n) = {} /\ p.row = None /\ p.vendorKey = n
                \/ /\ p.row \in Q!RowsForName(n)
                   /\ p.vendorKey \in {n, partyRows[p.row].vendorKey}
                   /\ partyRows[p.row].vendorKey # None => p.vendorKey = partyRows[p.row].vendorKey
<1> DEFINE p == VendorParty(n)
<1>0. n \in Names /\ n # None
  BY VendorName DEF Q!PartiesAssumption
<1>n. Q!CanonicalId(n)[1] = "v" /\ (Q!CanonicalId(n)[2] \in Names => Q!CanonicalId(n) = <<"v", n>>)
  BY VendorName DEF Q!PartiesAssumption, Q!ProfileOf
<1>1. CASE Q!RowsForName(n) = {}
  <2>1. /\ p.id = Q!CanonicalId(n) /\ p.kind = "supplier" /\ p.customer = None /\ p.vendorKey = n
        /\ p.opening = 0 /\ p.row = None
    BY <1>1, MergeIs DEF VendorParty
  <2> HIDE DEF p
  <2>2. Fields(p) = [kind |-> "supplier", customer |-> None, vendorKey |-> n, opening |-> 0]
    BY <2>1 DEF Fields
  <2>3. RowFits(Q!CanonicalId(n),
                [kind |-> "supplier", customer |-> None, vendorKey |-> n, opening |-> 0])
    BY <1>0, <1>n DEF RowFits, Q!Row, Q!PartiesAssumption, Q!Same
  <2> QED
    BY <1>0, <1>1, <2>1, <2>2, <2>3 DEF p
<1>2. CASE Q!RowsForName(n) # {}
  <2>1. /\ p.id = Q!CanonicalId(n) /\ p.row \in Q!RowsForName(n)
        /\ p.kind = partyRows[p.row].kind /\ p.opening = partyRows[p.row].opening
        /\ p.customer = IF partyRows[p.row].customer # None THEN partyRows[p.row].customer ELSE None
        /\ p.vendorKey = IF partyRows[p.row].vendorKey # None THEN partyRows[p.row].vendorKey ELSE n
    BY <1>2, MergeIs DEF VendorParty
  <2> HIDE DEF p
  <2>2. PICK i \in Q!Stored : /\ i = p.row /\ RowFits(i, partyRows[i])
                              /\ \/ i = Q!CanonicalId(n)
                                 \/ partyRows[i].kind = "supplier" /\ Q!Same(n, partyRows[i].vendorKey)
    BY <2>1 DEF Q!RowsForName, Q!RowsOfVendor, RowsFit
  <2>3. partyRows[i].kind = "supplier" /\ partyRows[i].customer = None /\ partyRows[i] \in Q!Row
    BY <1>n, <2>2 DEF RowFits
  <2>4. p.kind = "supplier" /\ p.customer = None /\ p.vendorKey \in Names
        /\ p.opening \in 0..MaxOpening
    BY <1>0, <2>1, <2>2, <2>3 DEF Q!Row
  <2>5. Q!CanonicalId(n) = <<"v", n>> => Q!Same(n, p.vendorKey)
    <3> SUFFICES ASSUME Q!CanonicalId(n) = <<"v", n>> PROVE Q!Same(n, p.vendorKey)
      OBVIOUS
    <3>1. CASE partyRows[i].vendorKey = None
      BY <1>0, <2>1, <2>2, <3>1 DEF Q!Same
    <3>2. CASE partyRows[i].vendorKey # None
      <4>1. p.vendorKey = partyRows[i].vendorKey
        BY <2>1, <2>2, <3>2
      <4>2. CASE i = Q!CanonicalId(n)
        <5>1. i[1] = "v" /\ i[2] = n
          BY <4>2
        <5> QED
          BY <1>0, <2>2, <3>2, <4>1, <5>1 DEF RowFits
      <4> QED
        BY <2>2, <4>1, <4>2
    <3> QED
      BY <3>1, <3>2
  <2>6. RowFits(Q!CanonicalId(n), Fields(p))
    <3>1. Fields(p) \in Q!Row /\ Fields(p).kind = "supplier" /\ Fields(p).customer = None
          /\ Fields(p).vendorKey = p.vendorKey
      BY <2>4 DEF Q!Row, Fields
    <3>2. Q!CanonicalId(n)[2] \in Names => Q!Same(Q!CanonicalId(n)[2], p.vendorKey)
      BY <1>n, <2>5
    <3> QED
      BY <1>n, <3>1, <3>2 DEF RowFits
  <2> QED
    BY <1>2, <2>1, <2>2, <2>4, <2>6 DEF p
<1> QED
  BY <1>1, <1>2

LEMMA OtherIs ==
  ASSUME Q!TypeOK, RowsFit, Q!PartiesAssumption, NEW k \in Q!Keys
  PROVE  LET p == OtherParty(k)
             i == Q!RowAt(k)
         IN  /\ p.id = i /\ p.row = i /\ p.kind = partyRows[i].kind /\ p.customer = partyRows[i].customer
             /\ p.vendorKey = partyRows[i].vendorKey /\ RowFits(p.id, Fields(p))
<1> DEFINE p == OtherParty(k)
           i == Q!RowAt(k)
<1>1. /\ p.id = i /\ p.row = i /\ p.kind = partyRows[i].kind /\ p.opening = partyRows[i].opening
      /\ p.customer = partyRows[i].customer /\ p.vendorKey = partyRows[i].vendorKey
  BY MergeIs DEF OtherParty
<1>0. i \in Q!Stored
  BY KeyIs
<1> HIDE DEF p, i
<1>2. RowFits(i, partyRows[i]) /\ partyRows[i] \in Q!Row
  BY <1>0 DEF RowsFit, RowFits
<1>3. Fields(p) = partyRows[i]
  BY <1>1, <1>2 DEF Fields, Q!Row
<1> QED
  BY <1>1, <1>2, <1>3 DEF p, i

LEMMA RestIs ==
  ASSUME NEW rest \in Q!Leftovers
  PROVE  /\ rest \subseteq Q!Free(Q!Taken) /\ rest \subseteq Q!Keys
         /\ \A k \in Q!Free(Q!Taken) \ rest : Q!VendorIdOf(Q!RowAt(k)) \cap (rest \ {k}) # {}
         /\ \A k \in rest : /\ k \notin Q!Taken
                            /\ Q!VendorIdOf(Q!RowAt(k)) \cap Q!Taken = {}
                            /\ Q!CustomerIdOf(Q!RowAt(k)) \cap Q!Taken = {}
<1>1. rest \subseteq Q!Free(Q!Taken)
  BY DEF Q!Leftovers
<1>2. \A k \in Q!Free(Q!Taken) \ rest : Q!VendorIdOf(Q!RowAt(k)) \cap (rest \ {k}) # {}
  BY DEF Q!Leftovers
<1> QED
  BY <1>1, <1>2 DEF Q!Free

\* The list has three kinds of parties.
LEMMA PartiesAre ==
  ASSUME Q!TypeOK, RowsFit, Q!PartiesAssumption, NEW rest \in Q!Leftovers
  PROVE  /\ \A p \in Q!AllParties(rest) :
              \/ \E c \in customers : p = CustomerParty(c)
              \/ \E n \in Q!VendorNames : p = VendorParty(n)
              \/ \E k \in rest : p = OtherParty(k)
         /\ \A c \in customers : CustomerParty(c) \in Q!AllParties(rest)
         /\ \A n \in Q!VendorNames : VendorParty(n) \in Q!AllParties(rest)
         /\ \A k \in rest : OtherParty(k) \in Q!AllParties(rest)
<1>1. Q!CustomerParties = {CustomerParty(c) : c \in customers}
  BY DEF Q!CustomerParties, CustomerParty
<1>2. Q!VendorParties = {VendorParty(n) : n \in Q!VendorNames}
  BY DEF Q!VendorParties, VendorParty
<1>3. Q!OtherParties(rest) = {OtherParty(k) : k \in rest}
  BY DEF Q!OtherParties, OtherParty
<1> QED
  BY <1>1, <1>2, <1>3 DEF Q!AllParties

LEMMA TakenIs ==
  ASSUME Q!TypeOK, RowsFit, Q!PartiesAssumption
  PROVE  \A i : i \in Q!Taken <=> \/ \E c \in customers : i = <<"c", c>>
                                 \/ \E n \in Q!VendorNames : i = Q!CanonicalId(n)
<1>1. Q!CustomerParties = {CustomerParty(c) : c \in customers}
  BY DEF Q!CustomerParties, CustomerParty
<1>2. Q!VendorParties = {VendorParty(n) : n \in Q!VendorNames}
  BY DEF Q!VendorParties, VendorParty
<1>3. /\ \A c \in customers : CustomerParty(c).id = <<"c", c>>
      /\ \A n \in Q!VendorNames : VendorParty(n).id = Q!CanonicalId(n)
  BY CustomerIs, VendorIs DEF Q!TypeOK
<1>4. ASSUME NEW i
      PROVE  i \in Q!Taken <=> \/ \E c \in customers : i = <<"c", c>>
                               \/ \E n \in Q!VendorNames : i = Q!CanonicalId(n)
  <2>1. i \in Q!Taken <=> \/ \E c \in customers : i = CustomerParty(c).id
                          \/ \E n \in Q!VendorNames : i = VendorParty(n).id
    BY <1>1, <1>2 DEF Q!Taken
  <2> QED
    BY <1>3, <2>1
<1> QED
  BY <1>4

\* What a party says fits its id.
LEMMA PartyFits ==
  ASSUME Q!TypeOK, RowsFit, Q!PartiesAssumption, NEW rest \in Q!Leftovers,
         NEW p \in Q!AllParties(rest)
  PROVE  RowFits(p.id, Fields(p))
<1>1. CASE \E c \in customers : p = CustomerParty(c)
  BY <1>1, CustomerIs DEF Q!TypeOK
<1>2. CASE \E n \in Q!VendorNames : p = VendorParty(n)
  BY <1>2, VendorIs
<1>3. CASE \E k \in rest : p = OtherParty(k)
  BY <1>3, OtherIs, RestIs
<1> QED
  BY <1>1, <1>2, <1>3, PartiesAre

\* A row that is listed for itself is stored and no customer's or name's.
LEMMA OtherApart ==
  ASSUME Q!TypeOK, RowsFit, Q!PartiesAssumption, NEW rest \in Q!Leftovers, NEW k \in rest
  PROVE  Q!RowAt(k) \in Q!Stored /\ Q!RowAt(k) \notin Q!Taken
<1> DEFINE i == Q!RowAt(k)
<1>1. /\ i \in Q!Stored /\ RowFits(i, partyRows[i]) /\ k \notin Q!Taken
      /\ k = i \/ (partyRows[i].customer # None /\ k = <<"c", partyRows[i].customer>>)
  BY KeyIs, RestIs DEF RowsFit
<1> HIDE DEF i
<1>2. CASE k = i
  BY <1>1, <1>2 DEF i
<1>3. CASE k # i /\ partyRows[i].customer # None /\ k = <<"c", partyRows[i].customer>>
  <2>1. i[1] \notin {"v", ""}
    BY <1>1, <1>3 DEF RowFits
  <2>2. ASSUME NEW n \in Q!VendorNames, i = Q!CanonicalId(n) PROVE FALSE
    <3>1. Q!CanonicalId(n)[1] = "v"
      BY VendorName
    <3> QED
      BY <2>1, <2>2, <3>1
  <2>3. ASSUME NEW c \in customers, i = <<"c", c>> PROVE FALSE
    <3>1. i[1] = "c" /\ i[2] = c
      BY <2>3
    <3>2. partyRows[i].customer = c
      BY <1>1, <1>3, <3>1 DEF RowFits
    <3> QED
      BY <1>3, <2>3, <3>2
  <2>4. i \notin Q!Taken
    BY <2>2, <2>3, TakenIs
  <2> QED
    BY <1>1, <2>4 DEF i
<1> QED
  BY <1>1, <1>2, <1>3

\* Two parties of one id are one, or of the row of a customer who is gone.
LEMMA IdsAreOne ==
  ASSUME Q!TypeOK, RowsFit, Q!PartiesAssumption, NEW rest \in Q!Leftovers,
         NEW p \in Q!AllParties(rest), NEW q \in Q!AllParties(rest), p.id = q.id
  PROVE  p.kind = q.kind /\ (p = q \/ p.id \in Q!Strays)
<1>1. ASSUME NEW n \in Q!VendorNames PROVE Q!CanonicalId(n)[1] = "v"
  BY <1>1, VendorName
<1>2. ASSUME NEW c \in Customers PROVE <<"c", c>>[1] = "c" /\ <<"c", c>>[2] = c
  OBVIOUS
<1>3. ASSUME NEW r \in Q!AllParties(rest)
      PROVE  \/ \E c \in customers : r = CustomerParty(c) /\ r.id = <<"c", c>> /\ r.id \in Q!Taken
             \/ \E n \in Q!VendorNames :
                  r = VendorParty(n) /\ r.id = Q!CanonicalId(n) /\ r.id \in Q!Taken
             \/ \E k \in rest : r = OtherParty(k) /\ r.id = Q!RowAt(k) /\ r.id \notin Q!Taken
  <2>1. CASE \E c \in customers : r = CustomerParty(c)
    BY <2>1, CustomerIs, TakenIs DEF Q!TypeOK
  <2>2. CASE \E n \in Q!VendorNames : r = VendorParty(n)
    BY <2>2, VendorIs, TakenIs
  <2>3. CASE \E k \in rest : r = OtherParty(k)
    BY <2>3, OtherIs, OtherApart, RestIs
  <2> QED
    BY <2>1, <2>2, <2>3, PartiesAre
<1>4. CASE p.id \notin Q!Taken
  <2>1. PICK k \in rest, l \in rest : /\ p = OtherParty(k) /\ q = OtherParty(l)
                                      /\ p.id = Q!RowAt(k) /\ p.id = Q!RowAt(l)
    BY <1>3, <1>4
  <2> DEFINE i == p.id
  <2>2. /\ k \in Q!Keys /\ l \in Q!Keys /\ i \in Q!Stored
        /\ Q!CustomerIdOf(i) \cap Q!Taken = {}
    BY <2>1, RestIs, OtherApart
  <2>3. p.kind = q.kind
    BY <2>1, <2>2, OtherIs
  <2>4. CASE k # l
    <3>1. /\ partyRows[i].customer # None
          /\ i # <<"c", partyRows[i].customer>>
      BY <2>1, <2>2, <2>4, KeyIs
    <3>2. <<"c", partyRows[i].customer>> \notin Q!Taken
      BY <2>2, <3>1 DEF Q!CustomerIdOf, Q!customerPartyId
    <3>3. partyRows[i].customer \notin customers
      BY <3>2, TakenIs
    <3> QED
      BY <2>2, <2>3, <3>1, <3>3 DEF Q!Strays, Q!customerPartyId
  <2> QED
    BY <2>1, <2>3, <2>4
<1>5. CASE p.id \in Q!Taken
  <2>1. CASE \E c \in customers : p = CustomerParty(c) /\ p.id = <<"c", c>>
    <3>1. PICK c \in customers : p = CustomerParty(c) /\ p.id = <<"c", c>>
      BY <2>1
    <3>2. p.id[1] = "c" /\ p.id[2] = c
      BY <3>1
    <3>3. PICK d \in customers : q = CustomerParty(d) /\ q.id = <<"c", d>>
      BY <1>1, <1>3, <1>5, <3>2
    <3>4. q.id[2] = d
      BY <3>3
    <3> QED
      BY <3>1, <3>2, <3>3, <3>4
  <2>2. CASE \E n \in Q!VendorNames : p = VendorParty(n) /\ p.id = Q!CanonicalId(n)
    <3>1. PICK n \in Q!VendorNames : p = VendorParty(n) /\ p.id = Q!CanonicalId(n)
      BY <2>2
    <3>2. p.id[1] = "v"
      BY <1>1, <3>1
    <3>3. ASSUME NEW d \in customers, q.id = <<"c", d>> PROVE FALSE
      <4>1. q.id[1] = "c"
        BY <3>3
      <4> QED
        BY <3>2, <4>1
    <3>4. PICK m \in Q!VendorNames : q = VendorParty(m) /\ q.id = Q!CanonicalId(m)
      BY <1>3, <1>5, <3>3
    <3>5. m = n
      BY <3>1, <3>4, CanonicalApart
    <3> QED
      BY <3>1, <3>4, <3>5
  <2> QED
    BY <1>3, <1>5, <2>1, <2>2
<1> QED
  BY <1>4, <1>5

\* The kind a party is listed with does not depend on the order of the rows.
LEMMA KindOfId ==
  ASSUME Q!TypeOK, RowsFit, Q!PartiesAssumption, NEW rest \in Q!Leftovers,
         NEW after \in Q!Leftovers, NEW p \in Q!AllParties(rest), NEW q \in Q!AllParties(after),
         p.id = q.id
  PROVE  p.kind = q.kind
<1>1. CASE p \in Q!CustomerParties \cup Q!VendorParties
  <2>1. p \in Q!AllParties(after)
    BY <1>1 DEF Q!AllParties
  <2> QED
    BY <2>1, IdsAreOne
<1>2. CASE q \in Q!CustomerParties \cup Q!VendorParties
  <2>1. q \in Q!AllParties(rest)
    BY <1>2 DEF Q!AllParties
  <2> QED
    BY <2>1, IdsAreOne
<1>3. CASE p \in Q!OtherParties(rest) /\ q \in Q!OtherParties(after)
  <2>1. PICK k \in rest, l \in after : p = OtherParty(k) /\ q = OtherParty(l)
    BY <1>3 DEF Q!OtherParties, OtherParty
  <2>2. k \in Q!Keys /\ l \in Q!Keys
    BY RestIs
  <2> QED
    BY <2>1, <2>2, OtherIs
<1> QED
  BY <1>1, <1>2, <1>3 DEF Q!AllParties

-----------------------------------------------------------------------------
(* Parties: every step.                                                    *)

LEMMA NewRowFits ==
  ASSUME Q!PartiesAssumption, NEW i, NEW side \in {"customer", "supplier"},
         NEW client \in Customers \cup {None}, NEW vendorKey \in Names \cup {None},
         \/ i[1] = "c" /\ side = "customer" /\ client = i[2]
         \/ i[1] = "v" /\ side = "supplier" /\ client = None /\ vendorKey = i[2]
         \/ i[1] = "p" /\ client = None
  PROVE  RowFits(i, [kind |-> side, customer |-> client, vendorKey |-> vendorKey, opening |-> 0])
<1> DEFINE r == [kind |-> side, customer |-> client, vendorKey |-> vendorKey, opening |-> 0]
<1>1. r \in Q!Row /\ r.kind = side /\ r.customer = client /\ r.vendorKey = vendorKey
  BY DEF Q!Row, Q!PartiesAssumption
<1> HIDE DEF r
<1>2. RowFits(i, r)
  BY <1>1 DEF RowFits, Q!Same, Q!PartiesAssumption
<1> QED
  BY <1>2 DEF r

LEMMA SavedFits ==
  ASSUME Q!TypeOK, RowsFit, Q!PartiesAssumption, NEW id, NEW side \in {"customer", "supplier"},
         NEW client \in Customers \cup {None}, NEW vendorKey \in Names \cup {None},
         NEW opening \in 0..MaxOpening \cup {None}, NEW rest \in Q!Leftovers,
         NEW found, found \subseteq Q!getPartyById(id, rest),
         found # {} => \A p \in found : p.kind = side,
         RowFits(id, [kind |-> side, customer |-> client, vendorKey |-> vendorKey, opening |-> 0])
  PROVE  RowFits(id, Q!SavedRow(side, client, vendorKey, opening, found))
<1> DEFINE stored == Q!SavedRow(side, client, vendorKey, opening, found)
<1>0. 0 \in 0..MaxOpening
  BY DEF Q!PartiesAssumption
<1>1. CASE found = {}
  <2>1. stored = [kind |-> side, customer |-> client, vendorKey |-> vendorKey,
                  opening |-> IF opening = None THEN 0 ELSE opening]
    BY <1>1 DEF Q!SavedRow, Q!Given, Q!Opening
  <2>2. (IF opening = None THEN 0 ELSE opening) \in 0..MaxOpening
    BY <1>0
  <2>3. /\ stored \in Q!Row /\ stored.kind = side /\ stored.customer = client
        /\ stored.vendorKey = vendorKey
    BY <2>1, <2>2 DEF Q!Row
  <2> HIDE DEF stored
  <2>4. RowFits(id, stored)
    BY <2>3, FitsLike
  <2> QED
    BY <2>4 DEF stored
<1>2. CASE found # {}
  <2>1. PICK p \in found : p = CHOOSE q \in found : TRUE
    BY <1>2
  <2>2. p \in Q!AllParties(rest) /\ p.id = id /\ p.kind = side
    BY <2>1 DEF Q!getPartyById, Q!listParties
  <2>3. RowFits(id, Fields(p))
    BY <2>2, PartyFits
  <2>4. stored = [kind |-> side,
                  customer |-> IF client # None THEN client ELSE p.customer,
                  vendorKey |-> IF vendorKey # None THEN vendorKey ELSE p.vendorKey,
                  opening |-> IF opening # None THEN opening ELSE p.opening]
    BY <1>2, <2>1 DEF Q!SavedRow, Q!Given, Q!Opening
  <2>5. /\ p.customer \in Customers \cup {None} /\ p.vendorKey \in Names \cup {None}
        /\ p.opening \in 0..MaxOpening
    BY <2>3 DEF RowFits, Fields, Q!Row
  <2>6. stored \in Q!Row
    BY <2>4, <2>5 DEF Q!Row
  <2>7. /\ stored.kind = side /\ stored.customer \in {client, p.customer}
        /\ stored.vendorKey \in {vendorKey, p.vendorKey}
    BY <2>4
  <2>8. /\ id[1] = "c" => side = "customer" /\ {client, p.customer} \subseteq {id[2], None}
        /\ id[1] \in {"v", ""} => side = "supplier"
        /\ client # None \/ p.customer # None => side = "customer"
        /\ id[1] = "v" /\ id[2] \in Names => \A key \in {vendorKey, p.vendorKey} :
             key # None => Q!Same(id[2], key)
    BY <2>2, <2>3 DEF RowFits, Fields
  <2> HIDE DEF stored
  <2>9. RowFits(id, stored)
    BY <2>6, <2>7, <2>8 DEF RowFits
  <2> QED
    BY <2>9 DEF stored
<1> QED
  BY <1>1, <1>2

LEMMA BeginSaveStep ==
  ASSUME PartiesInv, Q!PartiesAssumption, NEW w \in Workers, NEW id \in Q!Ids,
         NEW side \in {"customer", "supplier"},
         NEW client \in Customers \cup {None}, NEW vendorKey \in Names \cup {None},
         Q!BeginSave(w, id, side, client, vendorKey),
         \A rest \in Q!Leftovers : \A p \in Q!getPartyById(id, rest) : p.kind = side,
         RowFits(id, [kind |-> side, customer |-> client, vendorKey |-> vendorKey, opening |-> 0])
  PROVE  PartiesInv'
<1>1. PICK opening \in 0..MaxOpening \cup {None}, rest \in Q!Leftovers :
        Q!Begin(w, [at |-> "store", id |-> id, opening |-> opening,
                    row |-> Q!SavedRow(side, client, vendorKey, opening, Q!getPartyById(id, rest))])
  BY DEF Q!BeginSave
<1>2. PICK stored : /\ RowFits(id, stored)
                    /\ Q!Begin(w, [at |-> "store", id |-> id, opening |-> opening, row |-> stored])
  BY <1>1, SavedFits DEF PartiesInv
<1> DEFINE t == [at |-> "store", id |-> id, opening |-> opening, row |-> stored]
<1>3. t \in Q!Task /\ t.at = "store" /\ t.id = id /\ t.row = stored
  BY <1>2 DEF Q!Task, RowFits
<1> HIDE DEF t
<1>4. /\ partyTask' \in [Workers -> Q!Task] /\ writes' \in 0..MaxWrites
      /\ \A v \in Workers : partyTask'[v] = IF v = w THEN t ELSE partyTask[v]
  BY <1>2, <1>3 DEF Q!Begin, Q!Write, Q!MayWrite, PartiesInv, Q!TypeOK, Q!PartiesAssumption, t
<1>5. UNCHANGED <<partyRows, hidden, customers, directory, spent>>
  BY DEF Q!BeginSave, Q!UnchangedSources
<1>6. Q!TypeOK' /\ RowsFit'
  BY <1>4, <1>5 DEF PartiesInv, Q!TypeOK, RowsFit, Q!Stored
<1> QED
  BY <1>2, <1>3, <1>4, <1>6 DEF PartiesInv

LEMMA PostPartyStep ==
  ASSUME PartiesInv, Q!PartiesAssumption, NEW w \in Workers, Q!PostParty(w)
  PROVE  PartiesInv'
<1> USE DEF PartiesInv
<1>1. ASSUME NEW id, NEW rest \in Q!Leftovers, NEW p \in Q!getPartyById(id, rest)
      PROVE  (id[1] = "c" => p.kind = "customer") /\ (id[1] = "v" => p.kind = "supplier")
  <2>1. RowFits(id, Fields(p))
    BY PartyFits DEF Q!getPartyById, Q!listParties
  <2>2. p.kind = Fields(p).kind
    BY DEF Fields
  <2> QED
    BY <2>1, <2>2 DEF RowFits
<1>2. ASSUME NEW c \in Customers, Q!BeginSave(w, Q!customerPartyId(c), "customer", c, None)
      PROVE PartiesInv'
  <2>1. /\ Q!customerPartyId(c) \in Q!Ids /\ Q!customerPartyId(c)[1] = "c"
        /\ Q!customerPartyId(c)[2] = c
    BY DEF Q!Ids, Q!customerPartyId
  <2>2. \A rest \in Q!Leftovers : \A p \in Q!getPartyById(Q!customerPartyId(c), rest) : p.kind = "customer"
    BY <1>1, <2>1
  <2>3. RowFits(Q!customerPartyId(c),
                [kind |-> "customer", customer |-> c, vendorKey |-> None, opening |-> 0])
    BY <2>1, NewRowFits
  <2> QED
    BY <1>2, <2>1, <2>2, <2>3, BeginSaveStep
<1>3. ASSUME NEW n \in Names, Q!BeginSave(w, Q!vendorPartyId(n), "supplier", None, n)
      PROVE PartiesInv'
  <2>1. Q!vendorPartyId(n) \in Q!Ids /\ Q!vendorPartyId(n)[1] = "v" /\ Q!vendorPartyId(n)[2] = n
    BY DEF Q!Ids, Q!vendorPartyId
  <2>2. \A rest \in Q!Leftovers : \A p \in Q!getPartyById(Q!vendorPartyId(n), rest) : p.kind = "supplier"
    BY <1>1, <2>1
  <2>3. RowFits(Q!vendorPartyId(n),
                [kind |-> "supplier", customer |-> None, vendorKey |-> n, opening |-> 0])
    BY <2>1, NewRowFits
  <2> QED
    BY <1>3, <2>1, <2>2, <2>3, BeginSaveStep
<1>4. ASSUME NEW side \in {"customer", "supplier"}, Q!plainPartyId \notin Q!Stored,
             Q!BeginSave(w, Q!plainPartyId, side, None, None) PROVE PartiesInv'
  <2>1. Q!plainPartyId \in Q!Ids /\ Q!plainPartyId[1] = "p"
    BY DEF Q!Ids, Q!plainPartyId
  <2>2. ASSUME NEW rest \in Q!Leftovers PROVE Q!getPartyById(Q!plainPartyId, rest) = {}
    <3> SUFFICES ASSUME NEW p \in Q!AllParties(rest), p.id = Q!plainPartyId PROVE FALSE
      BY DEF Q!getPartyById, Q!listParties
    <3>1. p.id[1] = "p"
      BY <2>1
    <3>2. ASSUME NEW c \in customers PROVE p # CustomerParty(c)
      <4>1. CustomerParty(c).id = <<"c", c>> /\ <<"c", c>>[1] = "c"
        BY CustomerIs DEF Q!TypeOK
      <4> QED
        BY <3>1, <4>1
    <3>3. ASSUME NEW n \in Q!VendorNames PROVE p # VendorParty(n)
      <4>1. VendorParty(n).id = Q!CanonicalId(n) /\ Q!CanonicalId(n)[1] = "v"
        BY VendorIs, VendorName
      <4> QED
        BY <3>1, <4>1
    <3>4. ASSUME NEW k \in rest PROVE p # OtherParty(k)
      BY <1>4, OtherIs, KeyIs, RestIs
    <3> QED
      BY <3>2, <3>3, <3>4, PartiesAre
  <2>3. RowFits(Q!plainPartyId,
                [kind |-> side, customer |-> None, vendorKey |-> None, opening |-> 0])
    BY <2>1, NewRowFits
  <2> QED
    BY <1>4, <2>1, <2>2, <2>3, BeginSaveStep
<1> QED
  BY <1>2, <1>3, <1>4 DEF Q!PostParty

LEMMA PutPartyStep ==
  ASSUME PartiesInv, Q!PartiesAssumption, NEW w \in Workers, Q!PutParty(w)
  PROVE  PartiesInv'
<1>0. Q!TypeOK /\ RowsFit
  BY DEF PartiesInv
<1> DEFINE Saved(p, c) == /\ c # None => p.id = Q!plainPartyId /\ p.kind = "customer"
                          /\ Q!BeginSave(w, p.id, p.kind, c, None)
<1>p. PICK rest \in Q!Leftovers : \E p \in Q!AllParties(rest), c \in Customers \cup {None} : Saved(p, c)
  BY DEF Q!PutParty
<1>1. PICK p \in Q!AllParties(rest), c \in Customers \cup {None} : Saved(p, c)
  BY <1>p
<1>2. RowFits(p.id, Fields(p))
  BY <1>0, PartyFits
<1>3. p.id \in Q!Ids
  <2>1. ASSUME NEW d \in customers, p = CustomerParty(d) PROVE p.id \in Q!Ids
    <3>1. d \in Customers /\ p.id = <<"c", d>>
      BY <1>0, <2>1, CustomerIs DEF Q!TypeOK
    <3> QED
      BY <3>1 DEF Q!Ids, Q!customerPartyId
  <2>2. ASSUME NEW n \in Q!VendorNames, p = VendorParty(n) PROVE p.id \in Q!Ids
    <3>1. p.id = Q!CanonicalId(n)
      BY <1>0, <2>2, VendorIs
    <3>2. \E x \in Names \cup Profiles : Q!CanonicalId(n) = <<"v", x>>
      BY <1>0, VendorName DEF Q!ProfileOf
    <3> QED
      BY <3>1, <3>2 DEF Q!Ids, Q!vendorPartyId
  <2>3. ASSUME NEW k \in rest, p = OtherParty(k) PROVE p.id \in Q!Ids
    BY <1>0, <2>3, OtherIs, KeyIs, RestIs DEF Q!Stored
  <2> QED
    BY <1>0, <2>1, <2>2, <2>3, PartiesAre
<1>4. \A after \in Q!Leftovers : \A q \in Q!getPartyById(p.id, after) : q.kind = p.kind
  <2> SUFFICES ASSUME NEW after \in Q!Leftovers, NEW q \in Q!AllParties(after), q.id = p.id
               PROVE  q.kind = p.kind
    BY DEF Q!getPartyById, Q!listParties
  <2> QED
    BY <1>0, KindOfId
<1>5. p.kind \in {"customer", "supplier"} /\ RowFits(p.id, Fields(p)) /\ Fields(p).kind = p.kind
  BY <1>2 DEF RowFits, Fields, Q!Row
<1>6. RowFits(p.id, [kind |-> p.kind, customer |-> c, vendorKey |-> None, opening |-> 0])
  <2>1. [kind |-> p.kind, customer |-> c, vendorKey |-> None, opening |-> 0] \in Q!Row
    BY <1>5 DEF Q!Row, Q!PartiesAssumption
  <2>2. Q!plainPartyId[1] = "p"
    BY DEF Q!plainPartyId
  <2> QED
    BY <1>1, <1>5, <2>1, <2>2 DEF RowFits
<1> QED
  BY <1>1, <1>3, <1>4, <1>5, <1>6, BeginSaveStep

LEMMA upsertPartyStep ==
  ASSUME PartiesInv, Q!PartiesAssumption, NEW w \in Workers, Q!upsertParty(w)
  PROVE  PartiesInv'
<1> DEFINE t == partyTask[w]
<1>1. /\ t.at = "store" /\ RowFits(t.id, t.row) /\ t.id \in Q!Ids /\ t.row \in Q!Row
      /\ UNCHANGED <<hidden, writes, customers, directory, spent>>
  BY DEF Q!upsertParty, PartiesInv, RowFits, Q!UnchangedSources
<1>2. /\ Q!Idle \in Q!Task /\ Q!Idle.at = "idle"
      /\ partyTask' \in [Workers -> Q!Task]
      /\ \A v \in Workers : partyTask'[v] = IF v = w THEN Q!Idle ELSE partyTask[v]
  <2>1. Q!Idle \in Q!Task /\ Q!Idle.at = "idle"
    BY DEF Q!Idle, Q!Task
  <2> QED
    BY <2>1 DEF Q!upsertParty, PartiesInv, Q!TypeOK
<1>3. /\ partyRows' \in [Q!Ids -> Q!Row \cup {None}]
      /\ \A i \in Q!Ids : partyRows'[i] = partyRows[i] \/ (i = t.id /\ partyRows'[i] = t.row)
  BY <1>1 DEF Q!upsertParty, PartiesInv, Q!TypeOK
<1>4. Q!TypeOK'
  BY <1>1, <1>2, <1>3 DEF PartiesInv, Q!TypeOK
<1>5. RowsFit'
  <2> SUFFICES ASSUME NEW i \in Q!Ids, partyRows'[i] # None PROVE RowFits(i, partyRows'[i])
    BY DEF RowsFit, Q!Stored
  <2>1. CASE partyRows'[i] = partyRows[i]
    BY <2>1 DEF PartiesInv, RowsFit, Q!Stored
  <2>2. CASE i = t.id /\ partyRows'[i] = t.row
    BY <1>1, <2>2
  <2> QED
    BY <1>3, <2>1, <2>2
<1> QED
  BY <1>2, <1>4, <1>5 DEF PartiesInv

LEMMA BeginHideStep ==
  ASSUME PartiesInv, Q!PartiesAssumption, NEW w \in Workers, Q!BeginHide(w)
  PROVE  PartiesInv'
<1>0. Q!TypeOK /\ RowsFit
  BY DEF PartiesInv
<1>p. PICK rest \in Q!Leftovers :
        \E p \in Q!AllParties(rest) : Q!Begin(w, [Q!Idle EXCEPT !.at = "hide", !.id = p.id])
  BY DEF Q!BeginHide, Q!listParties
<1>1. PICK p \in Q!AllParties(rest) : Q!Begin(w, [Q!Idle EXCEPT !.at = "hide", !.id = p.id])
  BY <1>p
<1>2. p.id \in Q!Ids
  <2>1. ASSUME NEW d \in customers, p = CustomerParty(d) PROVE p.id \in Q!Ids
    <3>1. d \in Customers /\ p.id = <<"c", d>>
      BY <1>0, <2>1, CustomerIs DEF Q!TypeOK
    <3> QED
      BY <3>1 DEF Q!Ids, Q!customerPartyId
  <2>2. ASSUME NEW n \in Q!VendorNames, p = VendorParty(n) PROVE p.id \in Q!Ids
    <3>1. p.id = Q!CanonicalId(n)
      BY <1>0, <2>2, VendorIs
    <3>2. \E x \in Names \cup Profiles : Q!CanonicalId(n) = <<"v", x>>
      BY <1>0, VendorName DEF Q!ProfileOf
    <3> QED
      BY <3>1, <3>2 DEF Q!Ids, Q!vendorPartyId
  <2>3. ASSUME NEW k \in rest, p = OtherParty(k) PROVE p.id \in Q!Ids
    BY <1>0, <2>3, OtherIs, KeyIs, RestIs DEF Q!Stored
  <2> QED
    BY <1>0, <2>1, <2>2, <2>3, PartiesAre
<1> DEFINE t == [Q!Idle EXCEPT !.at = "hide", !.id = p.id]
<1>3. t \in Q!Task /\ t.at = "hide" /\ t.id = p.id
  BY <1>2 DEF Q!Task, Q!Idle
<1> HIDE DEF t
<1>4. /\ partyTask' \in [Workers -> Q!Task] /\ writes' \in 0..MaxWrites
      /\ \A v \in Workers : partyTask'[v] = IF v = w THEN t ELSE partyTask[v]
  BY <1>1, <1>3 DEF Q!Begin, Q!Write, Q!MayWrite, PartiesInv, Q!TypeOK, Q!PartiesAssumption, t
<1>5. UNCHANGED <<partyRows, hidden, customers, directory, spent>>
  BY DEF Q!BeginHide, Q!UnchangedSources
<1>6. Q!TypeOK' /\ RowsFit'
  BY <1>4, <1>5 DEF PartiesInv, Q!TypeOK, RowsFit, Q!Stored
<1> QED
  BY <1>2, <1>3, <1>4, <1>6 DEF PartiesInv

LEMMA hidePartyStep ==
  ASSUME PartiesInv, Q!PartiesAssumption, NEW w \in Workers, Q!hideParty(w)
  PROVE  PartiesInv'
<1>1. /\ UNCHANGED <<partyRows, writes, customers, directory, spent>>
      /\ hidden' = hidden \cup {partyTask[w].id} /\ partyTask[w].id \in Q!Ids
  BY DEF Q!hideParty, PartiesInv, Q!UnchangedSources
<1>2. /\ Q!Idle.at = "idle"
      /\ partyTask' \in [Workers -> Q!Task]
      /\ \A v \in Workers : partyTask'[v] = IF v = w THEN Q!Idle ELSE partyTask[v]
  <2>1. Q!Idle \in Q!Task /\ Q!Idle.at = "idle"
    BY DEF Q!Idle, Q!Task
  <2> QED
    BY <2>1 DEF Q!hideParty, PartiesInv, Q!TypeOK
<1>3. Q!TypeOK' /\ RowsFit'
  BY <1>1, <1>2 DEF PartiesInv, Q!TypeOK, RowsFit, Q!Stored
<1> QED
  BY <1>2, <1>3 DEF PartiesInv

\* A change of what the list is made of.
LEMMA SourceStep ==
  ASSUME PartiesInv, Q!PartiesAssumption, UNCHANGED <<partyRows, hidden, partyTask>>,
         writes' \in 0..MaxWrites,
         customers' \subseteq Customers, directory' \in [Profiles -> Names \cup {None}],
         spent' \subseteq Names
  PROVE  PartiesInv'
BY DEF PartiesInv, Q!TypeOK, RowsFit, Q!Stored

LEMMA MirrorVendorStep ==
  ASSUME PartiesInv, Q!PartiesAssumption, NEW p \in Profiles, Q!MirrorVendor(p)
  PROVE  PartiesInv'
<1> DEFINE id == Q!mirrorPartyId(p)
           key == MirrorKey[directory[p]]
           stored == [kind |-> "supplier", customer |-> None, vendorKey |-> key, opening |-> 0]
<1>1. /\ partyRows' = [partyRows EXCEPT ![id] = stored] /\ writes' \in 0..MaxWrites
      /\ UNCHANGED <<hidden, partyTask, customers, directory, spent>>
  BY DEF Q!MirrorVendor, Q!Write, Q!MayWrite, Q!UnchangedSources, PartiesInv, Q!TypeOK, Q!PartiesAssumption
<1>2. key \in Names
  BY DEF Q!MirrorVendor, Q!Listed, PartiesInv, Q!TypeOK, Q!PartiesAssumption
<1>3. stored \in Q!Row /\ stored.kind = "supplier" /\ stored.customer = None
  BY <1>2 DEF Q!Row, Q!PartiesAssumption
<1>4. id \in Q!Ids /\ id[1] = ""
  BY DEF Q!Ids, Q!mirrorPartyId
<1> HIDE DEF stored, id
<1>5. RowFits(id, stored)
  BY <1>3, <1>4 DEF RowFits
<1>6. /\ partyRows' \in [Q!Ids -> Q!Row \cup {None}]
      /\ \A i \in Q!Ids : partyRows'[i] = IF i = id THEN stored ELSE partyRows[i]
  BY <1>1, <1>3, <1>4 DEF PartiesInv, Q!TypeOK
<1>7. Q!TypeOK'
  BY <1>1, <1>6 DEF PartiesInv, Q!TypeOK
<1>8. RowsFit'
  BY <1>5, <1>6 DEF PartiesInv, RowsFit, Q!Stored
<1> QED
  BY <1>1, <1>7, <1>8 DEF PartiesInv

LEMMA PartiesNext == ASSUME Q!PartiesAssumption PROVE PartiesInv /\ [Q!Next]_(Q!vars) => PartiesInv'
<1> SUFFICES ASSUME PartiesInv, [Q!Next]_(Q!vars) PROVE PartiesInv'
  OBVIOUS
<1>1. CASE UNCHANGED Q!vars
  BY <1>1, SourceStep DEF Q!vars, PartiesInv, Q!TypeOK
<1>2. ASSUME NEW p \in Profiles, Q!SaveDirectory(p) PROVE PartiesInv'
  BY <1>2, SourceStep
  DEF Q!SaveDirectory, Q!Write, Q!MayWrite, Q!UnchangedRows, PartiesInv, Q!TypeOK, Q!PartiesAssumption
<1>3. ASSUME NEW n \in Names, Q!SaveExpense(n) PROVE PartiesInv'
  BY <1>3, SourceStep
  DEF Q!SaveExpense, Q!Write, Q!MayWrite, Q!UnchangedRows, PartiesInv, Q!TypeOK, Q!PartiesAssumption
<1>4. ASSUME NEW c \in Customers, Q!SaveCustomer(c) PROVE PartiesInv'
  BY <1>4, SourceStep
  DEF Q!SaveCustomer, Q!Write, Q!MayWrite, Q!UnchangedRows, PartiesInv, Q!TypeOK, Q!PartiesAssumption
<1> QED
  BY <1>1, <1>2, <1>3, <1>4, PostPartyStep, PutPartyStep, upsertPartyStep, BeginHideStep,
     hidePartyStep, MirrorVendorStep DEF Q!Next

\* What a row of the Party table is about fits its id, and so does every row about
\* to be stored (upsertParty, mirrorVendorsToPartyTable).
THEOREM PartiesInvariance == ASSUME Q!PartiesAssumption PROVE Q!Spec => []PartiesInv
BY PartiesInit, PartiesNext, PTL DEF Q!Spec

-----------------------------------------------------------------------------
(* Parties: everything is counted once.                                    *)

Fitting == Q!TypeOK /\ RowsFit /\ Q!PartiesAssumption

LEMMA OneIs ==
  ASSUME NEW these, NEW x \in these, \A y \in these : y = x
  PROVE  Q!One(these)
BY DEF Q!One

LEMMA CustomerOnce ==
  ASSUME Fitting, NEW rest \in Q!Leftovers, NEW c \in customers
  PROVE  Q!One({p \in Q!AllParties(rest) : p.kind = "customer" /\ p.customer = c})
<1> USE DEF Fitting
<1>0. c \in Customers /\ c # None
  BY DEF Q!TypeOK, Q!PartiesAssumption
<1> DEFINE these == {p \in Q!AllParties(rest) : p.kind = "customer" /\ p.customer = c}
<1>1. CustomerParty(c) \in these
  BY <1>0, PartiesAre, CustomerIs
<1>2. ASSUME NEW p \in these PROVE p = CustomerParty(c)
  <2>1. ASSUME NEW d \in customers, p = CustomerParty(d) PROVE d = c
    BY <1>0, <2>1, CustomerIs DEF Q!TypeOK
  <2>2. ASSUME NEW n \in Q!VendorNames, p = VendorParty(n) PROVE FALSE
    BY <2>2, VendorIs
  <2>3. ASSUME NEW k \in rest, p = OtherParty(k) PROVE FALSE
    <3>1. k \in Q!Keys /\ Q!CustomerIdOf(Q!RowAt(k)) \cap Q!Taken = {}
      BY RestIs
    <3>2. partyRows[Q!RowAt(k)].customer = c
      BY <2>3, <3>1, OtherIs
    <3>3. <<"c", c>> \in Q!Taken
      BY TakenIs
    <3> QED
      BY <1>0, <3>1, <3>2, <3>3 DEF Q!CustomerIdOf, Q!customerPartyId
  <2> QED
    BY <2>1, <2>2, <2>3, PartiesAre
<1> HIDE DEF these
<1>3. Q!One(these)
  BY <1>1, <1>2, OneIs
<1> QED
  BY <1>3 DEF these

\* A row that a name is listed with has no key or a key of the same spelling; it
\* has a key if a profile of the name has its id.
LEMMA KeyOfRow ==
  ASSUME Fitting, Q!Renamed = {}, NEW n \in Q!VendorNames, NEW i \in Q!RowsForName(n)
  PROVE  /\ i \in Q!Stored /\ partyRows[i].kind = "supplier" /\ partyRows[i] \in Q!Row
         /\ partyRows[i].vendorKey # None => Q!Same(n, partyRows[i].vendorKey)
         /\ partyRows[i].vendorKey = None => i = Q!CanonicalId(n)
<1> USE DEF Fitting
<1>1. CASE Q!CanonicalId(n) \in Q!Stored
  <2>1. i = Q!CanonicalId(n) /\ i \in Q!Stored /\ RowFits(i, partyRows[i])
    BY <1>1 DEF Q!RowsForName, RowsFit
  <2>2. n \in Names /\ n # None
    BY VendorName DEF Q!PartiesAssumption
  <2>3. CASE \E p \in Q!ProfileOf(n) : Q!CanonicalId(n) = <<"v", p>> /\ directory[p] = n
    <3>1. PICK p \in Q!ProfileOf(n) : Q!CanonicalId(n) = <<"v", p>> /\ directory[p] = n
      BY <2>3
    <3>2. p \in Profiles /\ Q!Listed(p) /\ i = Q!vendorPartyId(p) /\ i[1] = "v"
      BY <2>1, <3>1 DEF Q!ProfileOf, Q!vendorPartyId
    <3>3. Q!Same(n, partyRows[i].vendorKey)
      BY <2>1, <3>1, <3>2 DEF Q!Renamed
    <3> QED
      BY <2>1, <3>2, <3>3 DEF RowFits
  <2>4. CASE Q!CanonicalId(n) = <<"v", n>>
    <3>1. i[1] = "v" /\ i[2] = n
      BY <2>1, <2>4
    <3> QED
      BY <2>1, <2>2, <3>1 DEF RowFits
  <2> QED
    BY <2>3, <2>4, VendorName
<1>2. CASE Q!CanonicalId(n) \notin Q!Stored
  <2>1. i \in Q!Stored /\ partyRows[i].kind = "supplier" /\ Q!Same(n, partyRows[i].vendorKey)
    BY <1>2 DEF Q!RowsForName, Q!RowsOfVendor
  <2> QED
    BY <2>1 DEF RowsFit, RowFits, Q!Same
<1> QED
  BY <1>1, <1>2

LEMMA VendorOnce ==
  ASSUME Fitting, NEW rest \in Q!Leftovers, Q!Renamed = {}, NEW n \in spent, Q!Spellings(n) = {n}
  PROVE  Q!One({p \in Q!AllParties(rest) : p.kind = "supplier" /\ p.vendorKey = n})
<1> USE DEF Fitting
<1>0. n \in Names /\ n # None
  BY DEF Q!TypeOK, Q!PartiesAssumption
<1> DEFINE these == {p \in Q!AllParties(rest) : p.kind = "supplier" /\ p.vendorKey = n}
<1>1. n \in Q!VendorNames
  <2>1. CASE Q!ProfileOf(n) = {}
    BY <2>1 DEF Q!VendorNames
  <2>2. CASE Q!ProfileOf(n) # {}
    <3>1. Q!Same(n, Q!Spelling(n)) /\ Q!Spelling(n) \in Q!VendorNames
      BY <2>2, Spelled
    <3>2. Q!Spelling(n) = n
      BY <3>1 DEF Q!Spellings
    <3> QED
      BY <3>1, <3>2
  <2> QED
    BY <2>1, <2>2
\* A key that says n is a key of n.
<1>2. ASSUME NEW m \in Q!VendorNames, VendorParty(m).vendorKey = n PROVE m = n
  <2>1. CASE Q!RowsForName(m) = {}
    BY <1>2, <2>1, VendorIs
  <2>2. CASE Q!RowsForName(m) # {}
    <3> DEFINE i == VendorParty(m).row
    <3>1. i \in Q!RowsForName(m) /\ n \in {m, partyRows[i].vendorKey}
      BY <1>2, <2>2, VendorIs
    <3>2. CASE n = partyRows[i].vendorKey
      <4>1. Q!Same(m, n)
        BY <1>0, <3>1, <3>2, KeyOfRow
      <4>2. m \in Q!Spellings(n)
        BY <4>1 DEF Q!Spellings, Q!Same
      <4> QED
        BY <4>2
    <3> QED
      BY <3>1, <3>2
  <2> QED
    BY <2>1, <2>2
<1>3. VendorParty(n) \in these
  <2>1. VendorParty(n) \in Q!AllParties(rest) /\ VendorParty(n).kind = "supplier"
    BY <1>1, PartiesAre, VendorIs
  <2>2. VendorParty(n).vendorKey = n
    <3>1. CASE Q!RowsForName(n) = {}
      BY <1>1, <3>1, VendorIs
    <3>2. CASE Q!RowsForName(n) # {}
      <4> DEFINE i == VendorParty(n).row
      <4>1. /\ i \in Q!RowsForName(n) /\ VendorParty(n).vendorKey \in {n, partyRows[i].vendorKey}
            /\ VendorParty(n).vendorKey \in Names
        BY <1>1, <3>2, VendorIs
      <4>2. CASE VendorParty(n).vendorKey = partyRows[i].vendorKey
        <5>1. partyRows[i].vendorKey # None
          BY <4>1, <4>2 DEF Q!PartiesAssumption
        <5>2. Q!Same(n, partyRows[i].vendorKey) /\ i \in Q!Stored
          BY <1>1, <4>1, <5>1, KeyOfRow
        <5>3. partyRows[i].vendorKey \in Q!RowKeys
          BY <5>1, <5>2 DEF Q!RowKeys
        <5>4. partyRows[i].vendorKey \in Q!Spellings(n)
          BY <5>2, <5>3 DEF Q!Spellings
        <5> QED
          BY <4>2, <5>4
      <4> QED
        BY <4>1, <4>2
    <3> QED
      BY <3>1, <3>2
  <2> QED
    BY <2>1, <2>2
<1>4. ASSUME NEW p \in these PROVE p = VendorParty(n)
  <2>1. ASSUME NEW d \in customers, p = CustomerParty(d) PROVE FALSE
    BY <2>1, CustomerIs DEF Q!TypeOK
  <2>2. ASSUME NEW m \in Q!VendorNames, p = VendorParty(m) PROVE p = VendorParty(n)
    <3>1. m = n
      BY <1>2, <2>2
    <3> QED
      BY <2>2, <3>1
  <2>3. ASSUME NEW k \in rest, p = OtherParty(k) PROVE FALSE
    <3>1. k \in Q!Keys /\ Q!VendorIdOf(Q!RowAt(k)) \cap Q!Taken = {}
      BY RestIs
    <3>2. partyRows[Q!RowAt(k)].kind = "supplier" /\ partyRows[Q!RowAt(k)].vendorKey = n
      BY <2>3, <3>1, OtherIs
    <3>3. Q!CanonicalId(n) \in Q!Taken
      BY <1>1, TakenIs
    <3> QED
      BY <1>0, <3>1, <3>2, <3>3 DEF Q!VendorIdOf
  <2> QED
    BY <2>1, <2>2, <2>3, PartiesAre
<1> HIDE DEF these
<1>5. Q!One(these)
  BY <1>3, <1>4, OneIs
<1> QED
  BY <1>5 DEF these

\* A row of a customer.
LEMMA CustomerRowOnce ==
  ASSUME Fitting, NEW rest \in Q!Leftovers, NEW i \in Q!Stored, partyRows[i].kind = "customer",
         \A c \in Customers : i \in Q!RowsOfCustomer(c) => Q!RowsOfCustomer(c) = {i}, Q!Renamed = {}
  PROVE  LET these == {p \in Q!AllParties(rest) : p.row = i}
         IN  these # {} /\ (i \notin Q!Strays => Q!One(these))
<1> USE DEF Fitting
<1> DEFINE these == {p \in Q!AllParties(rest) : p.row = i}
<1>0. RowFits(i, partyRows[i]) /\ i # None /\ i[1] \notin {"v", ""}
  <2>1. RowFits(i, partyRows[i])
    BY DEF RowsFit
  <2>2. i # None
    BY DEF Q!Stored, Q!PartiesAssumption
  <2> QED
    BY <2>1, <2>2 DEF RowFits
<1>1. ASSUME NEW n \in Q!VendorNames PROVE VendorParty(n).row # i
  <2>1. VendorParty(n).row = None \/ VendorParty(n).row \in Q!RowsForName(n)
    BY VendorIs
  <2> QED
    BY <1>0, <2>1, KeyOfRow
<1>2. ASSUME NEW c \in Customers, i \in Q!RowsOfCustomer(c), NEW d \in Customers,
             i \in Q!RowsOfCustomer(d)
      PROVE  c = d
  <2>1. \A x \in Customers : <<"c", x>>[1] = "c" /\ <<"c", x>>[2] = x
    OBVIOUS
  <2>2. c # None /\ d # None
    BY DEF Q!PartiesAssumption
  <2>3. partyRows[i].customer = c \/ (i[1] = "c" /\ i[2] = c)
    BY <1>2, <2>1, CustomerRows
  <2>4. partyRows[i].customer = d \/ (i[1] = "c" /\ i[2] = d)
    BY <1>2, <2>1, CustomerRows
  <2> QED
    BY <1>0, <2>2, <2>3, <2>4 DEF RowFits
<1>n. /\ partyRows[i].customer \in Customers \cup {None}
      /\ Q!CustomerIdOf(i) = IF partyRows[i].customer = None THEN {} ELSE {<<"c", partyRows[i].customer>>}
      /\ Q!VendorIdOf(i) = {}
  BY <1>0 DEF RowFits, Q!Row, Q!CustomerIdOf, Q!customerPartyId, Q!VendorIdOf
<1>3. CASE \E c \in customers : i \in Q!RowsOfCustomer(c)
  <2>1. PICK c \in customers : i \in Q!RowsOfCustomer(c)
    BY <1>3
  <2>2. c \in Customers /\ Q!RowsOfCustomer(c) = {i}
    BY <2>1 DEF Q!TypeOK
  <2>3. CustomerParty(c) \in these
    BY <2>1, <2>2, CustomerIs, PartiesAre
  <2>4. ASSUME NEW p \in these PROVE p = CustomerParty(c)
    <3>1. ASSUME NEW d \in customers, p = CustomerParty(d) PROVE p = CustomerParty(c)
      <4>1. d \in Customers /\ i \in Q!RowsOfCustomer(d)
        BY <1>0, <3>1, CustomerIs DEF Q!TypeOK
      <4>2. d = c
        BY <1>2, <2>1, <2>2, <4>1
      <4> QED
        BY <3>1, <4>2
    <3>2. ASSUME NEW n \in Q!VendorNames, p = VendorParty(n) PROVE FALSE
      BY <1>1, <3>2
    <3>3. ASSUME NEW k \in rest, p = OtherParty(k) PROVE FALSE
      <4>1. Q!RowAt(k) = i
        BY <3>3, OtherIs, RestIs
      <4>2. <<"c", c>> \in Q!Taken /\ c # None
        BY <2>2, TakenIs DEF Q!PartiesAssumption
      <4>3. i = <<"c", c>> \/ partyRows[i].customer = c
        BY <2>1, <2>2, CustomerRows
      <4>4. i \notin Q!Taken /\ Q!CustomerIdOf(i) \cap Q!Taken = {}
        BY <4>1, OtherApart, RestIs
      <4> QED
        BY <1>n, <4>2, <4>3, <4>4
    <3> QED
      BY <3>1, <3>2, <3>3, PartiesAre
  <2> HIDE DEF these
  <2>5. Q!One(these)
    BY <2>3, <2>4, OneIs
  <2> QED
    BY <2>3, <2>5 DEF these
<1>4. CASE ~\E c \in customers : i \in Q!RowsOfCustomer(c)
\* It is at its own id, which nothing stands for.
  <2>1. i \in Q!Keys /\ Q!RowAt(i) = i
    <3>1. CASE i[1] = "c"
      <4>0. \A x : <<"v", x>>[1] = "v" /\ <<"", x>>[1] = "" /\ <<"p", x>>[1] = "p"
        OBVIOUS
      <4>1. PICK c \in Customers : i = <<"c", c>>
        BY <3>1, <4>0 DEF Q!Stored, Q!Ids, Q!customerPartyId, Q!mirrorPartyId, Q!vendorPartyId,
                          Q!plainPartyId
      <4>2. Q!RowsAt(i) = {i}
        <5>1. i \in Q!RowsOfCustomer(c)
          BY <4>1, CustomerRows
        <5> QED
          BY <4>1, <5>1 DEF Q!RowsOfCustomer, Q!customerPartyId
      <4> QED
        BY <4>2 DEF Q!Keys, Q!RowAt
    <3> QED
      BY <3>1, OwnKey
  <2>2. i \notin Q!Taken
    <3>1. ASSUME NEW c \in customers, i = <<"c", c>> PROVE FALSE
      <4>1. c \in Customers
        BY DEF Q!TypeOK
      <4> QED
        BY <1>4, <3>1, <4>1, CustomerRows
    <3>2. ASSUME NEW n \in Q!VendorNames, i = Q!CanonicalId(n) PROVE FALSE
      <4>1. Q!CanonicalId(n)[1] = "v"
        BY VendorName
      <4> QED
        BY <1>0, <3>2, <4>1
    <3> QED
      BY <3>1, <3>2, TakenIs
  <2>3. partyRows[i].customer \notin customers
    <3> SUFFICES ASSUME partyRows[i].customer \in customers PROVE FALSE
      OBVIOUS
    <3>1. partyRows[i].customer \in Customers
      BY DEF Q!TypeOK
    <3> QED
      BY <1>4, <3>1, CustomerRows
  <2>4. Q!CustomerIdOf(i) \cap Q!Taken = {}
    <3> SUFFICES ASSUME <<"c", partyRows[i].customer>> \in Q!Taken PROVE FALSE
      BY <1>n
    <3>1. ASSUME NEW c \in customers, <<"c", partyRows[i].customer>> = <<"c", c>> PROVE FALSE
      BY <2>3, <3>1
    <3>2. ASSUME NEW n \in Q!VendorNames, <<"c", partyRows[i].customer>> = Q!CanonicalId(n) PROVE FALSE
      <4>1. Q!CanonicalId(n)[1] = "v"
        BY VendorName
      <4> QED
        BY <3>2, <4>1
    <3> QED
      BY <3>1, <3>2, TakenIs
  <2>5. ASSUME NEW k \in Q!CustomerIdOf(i) \ {i}, k \in Q!Stored PROVE Q!RowAt(k) # i
    <3>1. PICK c \in Customers : c = partyRows[i].customer /\ k = <<"c", c>>
      BY <1>n, <2>5
    <3>2. i \in Q!RowsOfCustomer(c) /\ k \in Q!RowsOfCustomer(c)
      BY <2>5, <3>1, CustomerRows
    <3> QED
      BY <2>5, <3>2
  <2>6. i \in rest
    <3>1. i \in Q!Free(Q!Taken)
      BY <1>n, <2>1, <2>2, <2>4, <2>5 DEF Q!Free
    <3> QED
      BY <1>n, <2>1, <3>1, RestIs
  <2>7. OtherParty(i) \in these
    BY <2>1, <2>6, OtherIs, PartiesAre
  <2>8. ASSUME i \notin Q!Strays, NEW p \in these PROVE p = OtherParty(i)
    <3>1. ASSUME NEW d \in customers, p = CustomerParty(d) PROVE FALSE
      <4>1. d \in Customers /\ i \in Q!RowsOfCustomer(d)
        BY <1>0, <3>1, CustomerIs DEF Q!TypeOK
      <4> QED
        BY <1>4, <4>1
    <3>2. ASSUME NEW n \in Q!VendorNames, p = VendorParty(n) PROVE FALSE
      BY <1>1, <3>2
    <3>3. ASSUME NEW k \in rest, p = OtherParty(k) PROVE p = OtherParty(i)
      <4>1. Q!RowAt(k) = i /\ k \in Q!Keys
        BY <3>3, OtherIs, RestIs
      <4>2. k = i \/ (partyRows[i].customer # None /\ k = <<"c", partyRows[i].customer>>)
        BY <4>1, KeyIs
      <4>3. k = i
        BY <2>3, <2>8, <4>2 DEF Q!Strays, Q!customerPartyId
      <4> QED
        BY <3>3, <4>3
    <3> QED
      BY <3>1, <3>2, <3>3, PartiesAre
  <2> HIDE DEF these
  <2>9. i \notin Q!Strays => Q!One(these)
    BY <2>7, <2>8, OneIs
  <2> QED
    BY <2>7, <2>9 DEF these
<1> QED
  BY <1>3, <1>4

\* A row of a vendor whose key is of no other row's.
LEMMA VendorRowOnce ==
  ASSUME Fitting, NEW rest \in Q!Leftovers, NEW i \in Q!Stored, partyRows[i].kind = "supplier", Q!Renamed = {},
         LET key == partyRows[i].vendorKey
         IN  key # None => /\ Q!SameVendor(i) = {i}
                           /\ (Q!ProfileOf(key) # {} \/ Q!One(Q!Spellings(key)))
  PROVE  i \notin Q!Strays /\ Q!One({p \in Q!AllParties(rest) : p.row = i})
<1> USE DEF Fitting
<1> DEFINE these == {p \in Q!AllParties(rest) : p.row = i}
           key == partyRows[i].vendorKey
<1>0. /\ RowFits(i, partyRows[i]) /\ i # None /\ i[1] # "c" /\ partyRows[i].customer = None
      /\ key \in Names \cup {None} /\ None \notin Names
  <2>1. RowFits(i, partyRows[i])
    BY DEF RowsFit
  <2>2. i # None /\ None \notin Names
    BY DEF Q!Stored, Q!PartiesAssumption
  <2>3. i[1] # "c" /\ partyRows[i].customer = None /\ key \in Names \cup {None}
    BY <2>1 DEF RowFits, Q!Row
  <2> QED
    BY <2>1, <2>2, <2>3
<1>1. ASSUME NEW c \in customers PROVE CustomerParty(c).row # i
  <2>1. c \in Customers
    BY DEF Q!TypeOK
  <2>2. CustomerParty(c).row = None \/ CustomerParty(c).row \in Q!RowsOfCustomer(c)
    BY <2>1, CustomerIs
  <2>3. i \notin Q!RowsOfCustomer(c)
    <3>1. <<"c", c>>[1] = "c" /\ c # None
      BY <2>1 DEF Q!PartiesAssumption
    <3> QED
      BY <1>0, <2>1, <3>1, CustomerRows
  <2> QED
    BY <1>0, <2>2, <2>3
<1>2. ASSUME NEW n \in Q!VendorNames, VendorParty(n).row = i
      PROVE  /\ i \in Q!RowsForName(n)
             /\ key # None => Q!Same(n, key)
             /\ key = None => i = Q!CanonicalId(n)
  <2>1. i \in Q!RowsForName(n)
    BY <1>0, <1>2, VendorIs
  <2> QED
    BY <2>1, KeyOfRow
\* Its own id is its only key, and is left over unless something stands for it.
<1>e. /\ i \in Q!Keys /\ Q!RowAt(i) = i /\ Q!CustomerIdOf(i) = {}
      /\ Q!VendorIdOf(i) = IF key # None THEN {Q!CanonicalId(key)} ELSE {}
  BY <1>0, OwnKey DEF Q!CustomerIdOf, Q!VendorIdOf
<1>f. ASSUME NEW k \in rest, OtherParty(k).row = i PROVE k = i
  <2>1. k \in Q!Keys /\ Q!RowAt(k) = i
    BY <1>f, OtherIs, RestIs
  <2> QED
    BY <1>0, <2>1, KeyIs
<1> DEFINE Covered == i \in Q!Taken \/ (key # None /\ Q!CanonicalId(key) \in Q!Taken)
<1>g. i \in rest => ~Covered
  BY <1>e, RestIs
<1>h. ~Covered => i \in rest
  <2> SUFFICES ASSUME ~Covered, i \notin rest PROVE FALSE
    OBVIOUS
  <2>1. i \in Q!Free(Q!Taken)
    BY <1>e DEF Q!Free
  <2>2. key # None /\ Q!CanonicalId(key) \in rest \ {i}
    BY <1>e, <2>1, RestIs
  <2>3. Q!CanonicalId(key)[1] # "c"
    BY DEF Q!CanonicalId, Q!vendorPartyId
  <2>4. Q!CanonicalId(key) \in Q!Keys
    BY <2>2, RestIs
  <2>5. Q!CanonicalId(key) \in Q!Stored
    <3>1. <<"c", partyRows[Q!RowAt(Q!CanonicalId(key))].customer>>[1] = "c"
      OBVIOUS
    <3> QED
      BY <2>3, <2>4, <3>1, KeyIs
  <2>6. Q!CanonicalId(key) \in Q!SameVendor(i)
    BY <2>5 DEF Q!SameVendor, Q!RowsForName
  <2> QED
    BY <2>2, <2>6
<1>k. i \notin Q!Strays
  BY <1>0 DEF Q!Strays
<1> SUFFICES Q!One(these)
  BY <1>k
\* A name that is listed with this row: no other one is, and the row is not
\* listed by itself.
<1>3. ASSUME NEW m \in Q!VendorNames, VendorParty(m).row = i, Covered,
             \A n \in Q!VendorNames : VendorParty(n).row = i => n = m
      PROVE  Q!One(these)
  <2>1. VendorParty(m) \in these
    BY <1>3, PartiesAre
  <2>2. ASSUME NEW p \in these PROVE p = VendorParty(m)
    <3>1. ASSUME NEW d \in customers, p = CustomerParty(d) PROVE FALSE
      BY <1>1, <3>1
    <3>2. ASSUME NEW n \in Q!VendorNames, p = VendorParty(n) PROVE p = VendorParty(m)
      <4>1. n = m
        BY <1>3, <3>2
      <4> QED
        BY <3>2, <4>1
    <3>3. ASSUME NEW k \in rest, p = OtherParty(k) PROVE FALSE
      BY <1>3, <1>f, <1>g, <3>3
    <3> QED
      BY <3>1, <3>2, <3>3, PartiesAre
  <2> HIDE DEF these
  <2> QED
    BY <2>1, <2>2, OneIs
\* A row that is listed by itself.
<1>4. ASSUME ~Covered, \A n \in Q!VendorNames : VendorParty(n).row # i PROVE Q!One(these)
  <2>1. OtherParty(i) \in these
    BY <1>4, <1>e, <1>h, OtherIs, PartiesAre
  <2>2. ASSUME NEW p \in these PROVE p = OtherParty(i)
    <3>1. ASSUME NEW d \in customers, p = CustomerParty(d) PROVE FALSE
      BY <1>1, <3>1
    <3>2. ASSUME NEW n \in Q!VendorNames, p = VendorParty(n) PROVE FALSE
      BY <1>4, <3>2
    <3>3. ASSUME NEW k \in rest, p = OtherParty(k) PROVE p = OtherParty(i)
      BY <1>f, <3>3
    <3> QED
      BY <3>1, <3>2, <3>3, PartiesAre
  <2> HIDE DEF these
  <2> QED
    BY <2>1, <2>2, OneIs
<1>5. i \in Q!Taken <=> \E n \in Q!VendorNames : i = Q!CanonicalId(n)
  <2>1. ASSUME NEW c \in customers PROVE i # <<"c", c>>
    <3>1. <<"c", c>>[1] = "c"
      OBVIOUS
    <3> QED
      BY <1>0, <3>1
  <2> QED
    BY <2>1, TakenIs
<1>6. CASE key = None
  <2>1. Covered <=> i \in Q!Taken
    BY <1>6
  <2>2. CASE \E n \in Q!VendorNames : i = Q!CanonicalId(n)
    <3>1. PICK n \in Q!VendorNames : i = Q!CanonicalId(n)
      BY <2>2
    <3>2. Q!RowsForName(n) = {i}
      BY <3>1 DEF Q!RowsForName
    <3>3. VendorParty(n).row = i
      BY <3>2, VendorIs
    <3>4. \A m \in Q!VendorNames : VendorParty(m).row = i => m = n
      BY <1>2, <1>6, <3>1, CanonicalApart
    <3> QED
      BY <1>3, <1>5, <2>1, <2>2, <3>3, <3>4
  <2>3. CASE ~\E n \in Q!VendorNames : i = Q!CanonicalId(n)
    BY <1>2, <1>4, <1>5, <1>6, <2>1, <2>3
  <2> QED
    BY <2>2, <2>3
<1>7. CASE key # None
  <2>1. key \in Names /\ Q!SameVendor(i) = {i} /\ Q!Same(key, key) /\ key \in Q!RowKeys
    BY <1>0, <1>7 DEF Q!Same, Q!RowKeys
\* A name of the same spelling is listed with this row.
  <2>2. ASSUME NEW m \in Q!VendorNames, Q!Same(m, key), Q!CanonicalId(m) = Q!CanonicalId(key)
        PROVE  VendorParty(m).row = i
    <3>1. Q!RowsOfVendor(m) = Q!RowsOfVendor(key)
      BY <2>2 DEF Q!RowsOfVendor, Q!Same
    <3>2. Q!RowsForName(m) = Q!RowsForName(key)
      BY <2>2, <3>1 DEF Q!RowsForName
    <3>3. Q!RowsForName(key) \subseteq {i} /\ Q!RowsOfVendor(key) \subseteq {i}
      BY <2>1 DEF Q!SameVendor
    <3>4. Q!RowsForName(key) = {i}
      <4>1. i \in Q!RowsOfVendor(key)
        BY <2>1 DEF Q!RowsOfVendor
      <4>2. CASE Q!CanonicalId(key) \in Q!Stored
        BY <3>3, <4>2 DEF Q!RowsForName
      <4>3. CASE Q!CanonicalId(key) \notin Q!Stored
        BY <3>3, <4>1, <4>3 DEF Q!RowsForName
      <4> QED
        BY <4>2, <4>3
    <3> QED
      BY <3>2, <3>4, VendorIs
  <2>3. CASE Q!ProfileOf(key) # {}
    <3> DEFINE m == Q!Spelling(key)
    <3>1. /\ m \in Q!VendorNames /\ Q!Same(key, m) /\ Q!CanonicalId(m) = Q!CanonicalId(key)
          /\ Q!ProfileOf(m) = Q!ProfileOf(key)
      BY <2>3, Spelled
    <3>2. Q!Same(m, key)
      BY <3>1 DEF Q!Same
    <3>3. VendorParty(m).row = i
      BY <2>2, <3>1, <3>2
    <3>4. Covered
      <4>1. Q!CanonicalId(key) \in Q!Taken
        BY <3>1, TakenIs
      <4> QED
        BY <1>7, <4>1
    <3>5. ASSUME NEW n \in Q!VendorNames, VendorParty(n).row = i PROVE n = m
      <4>1. Q!Same(n, key)
        BY <1>2, <1>7, <3>5
      <4>2. /\ Q!ProfileOf(n) = Q!ProfileOf(key)
            /\ (CHOOSE p \in Q!ProfileOf(n) : TRUE) = (CHOOSE p \in Q!ProfileOf(key) : TRUE)
        BY <4>1, SameProfiles
      <4>3. n = Q!Spelling(n)
        BY <2>3, <4>2, VendorName
      <4> QED
        BY <4>2, <4>3 DEF Q!Spelling
    <3> HIDE DEF m, these, key
    <3>6. Q!One(these)
      BY <1>3, <3>1, <3>3, <3>4, <3>5
    <3> QED
      BY <3>6 DEF these
  <2>4. CASE Q!ProfileOf(key) = {}
    <3>1. Q!Spellings(key) = {key}
      <4>1. key \in Q!Spellings(key)
        BY <2>1 DEF Q!Spellings
      <4>2. Q!One(Q!Spellings(key))
        BY <1>7, <2>4
      <4> QED
        BY <4>1, <4>2 DEF Q!One
    <3>2. ASSUME NEW n \in Q!VendorNames, VendorParty(n).row = i PROVE n = key
      <4>1. Q!Same(n, key)
        BY <1>2, <1>7, <3>2
      <4>2. n \in Q!Spellings(key)
        BY <4>1 DEF Q!Spellings, Q!Same
      <4> QED
        BY <3>1, <4>2
    <3>3. CASE key \in Q!VendorNames
      <4>1. VendorParty(key).row = i
        BY <2>1, <2>2, <3>3
      <4>2. Q!CanonicalId(key) \in Q!Taken
        BY <3>3, TakenIs
      <4>3. Covered
        BY <1>7, <4>2
      <4> HIDE DEF these, key
      <4>4. Q!One(these)
        BY <1>3, <3>2, <3>3, <4>1, <4>3
      <4> QED
        BY <4>4 DEF these
    <3>4. CASE key \notin Q!VendorNames
      <4>1. \A n \in Q!VendorNames : VendorParty(n).row # i
        BY <3>2, <3>4
      <4>2. Q!CanonicalId(key) = <<"v", key>>
        BY <2>4 DEF Q!CanonicalId, Q!vendorPartyId
      <4>3. ASSUME NEW n \in Q!VendorNames, Q!CanonicalId(n) = <<"v", key>> PROVE FALSE
        <5>1. CASE Q!CanonicalId(n) = <<"v", n>>
          <6>1. n = key
            BY <4>3, <5>1
          <6> QED
            BY <3>4, <6>1
        <5>2. CASE \E p \in Q!ProfileOf(n) : Q!CanonicalId(n) = <<"v", p>>
          <6>1. key \in Profiles
            BY <4>3, <5>2 DEF Q!ProfileOf
          <6> QED
            BY <2>1, <6>1 DEF Q!PartiesAssumption
        <5> QED
          BY <5>1, <5>2, VendorName
      <4>4. Q!CanonicalId(key) \notin Q!Taken
        <5>1. ASSUME NEW c \in customers PROVE <<"v", key>> # <<"c", c>>
          OBVIOUS
        <5> QED
          BY <4>2, <4>3, <5>1, TakenIs
      <4>5. ASSUME NEW n \in Q!VendorNames, i = Q!CanonicalId(n) PROVE FALSE
        <5>1. Q!RowsForName(n) = {i}
          BY <4>5 DEF Q!RowsForName
        <5>2. VendorParty(n).row = i
          BY <5>1, VendorIs
        <5> QED
          BY <4>1, <5>2
      <4>6. ~Covered
        BY <1>5, <4>4, <4>5
      <4> QED
        BY <1>4, <4>1, <4>6
    <3> QED
      BY <3>3, <3>4
  <2> QED
    BY <2>3, <2>4
<1> QED
  BY <1>6, <1>7

\* The list has every customer, every vendor an expense names and every opening
\* balance once (listParties), whatever was written, renamed, mirrored or hidden
\* before, and with the provisos of EachCountedOnce.
THEOREM PartiesCountedOnce ==
  /\ Q!Spec => []Q!EachCountedOnce
  /\ PeopleSpec => []EachCountedOnce
<1>1. PartiesInv => Q!EachCountedOnce
  <2> SUFFICES ASSUME PartiesInv PROVE Q!EachCountedOnce
    OBVIOUS
  <2> USE DEF Q!EachCountedOnce
  <2>0. Q!PartiesAssumption /\ Fitting
    BY PeopleAssumption DEF PeopleAssumption, Fitting, PartiesInv
  <2> TAKE rest \in Q!Leftovers
  <2>1. \A p, q \in Q!AllParties(rest) : p.id = q.id => p = q \/ p.id \in Q!Strays
    BY <2>0, IdsAreOne DEF PartiesInv
  <2>2. \A c \in customers :
          Q!One({p \in Q!AllParties(rest) : p.kind = "customer" /\ p.customer = c})
    BY <2>0, CustomerOnce
  <2>3. Q!Renamed = {} => \A n \in spent : Q!Spellings(n) = {n} =>
          Q!One({p \in Q!AllParties(rest) : p.kind = "supplier" /\ p.vendorKey = n})
    BY <2>0, VendorOnce
  <2>4. ASSUME Q!Renamed = {}, NEW i \in Q!Stored,
               \A c \in Customers : i \in Q!RowsOfCustomer(c) => Q!RowsOfCustomer(c) = {i},
               LET key == partyRows[i].vendorKey
               IN  key # None => /\ Q!SameVendor(i) = {i}
                                 /\ (Q!ProfileOf(key) # {} \/ Q!One(Q!Spellings(key)))
        PROVE  LET these == {p \in Q!AllParties(rest) : p.row = i}
               IN  IF i \in Q!Strays THEN these # {} ELSE Q!One(these)
    <3>1. partyRows[i].kind \in {"customer", "supplier"}
      BY DEF PartiesInv, RowsFit, RowFits, Q!Row
    <3>2. CASE partyRows[i].kind = "customer"
      BY <2>0, <2>4, <3>2, CustomerRowOnce
    <3>3. CASE partyRows[i].kind = "supplier"
      BY <2>0, <2>4, <3>3, VendorRowOnce
    <3> QED
      BY <3>1, <3>2, <3>3
  <2> QED
    BY <2>1, <2>2, <2>3, <2>4
<1>2. Q!Spec => []PartiesInv
  BY PeopleAssumption, PartiesInvariance, PTL DEF PeopleAssumption
<1>3. Q!EachCountedOnce => EachCountedOnce
  BY DEF EachCountedOnce
<1> QED
  BY <1>1, <1>2, <1>3, EachPartRuns, PTL

-----------------------------------------------------------------------------
(* Ledger: the inductive invariant.                                        *)

\* A status says what has been paid: nothing, or all of it.
Fair(d) ==
  /\ paid[d].status = "PENDING" => paid[d].amount = 0 /\ paid[d].wallet = 0
  /\ paid[d].status = "PAID" => booked[d] # None /\ L!invoicePaidTotal(d) >= booked[d].total
  /\ booked[d] = None => paid[d].status = "PENDING"

LedgerInv == L!TypeOK /\ \A d \in Records : Fair(d)

LEMMA LedgerInit ==
  ASSUME L!StatementsAssumption, L!Init
  PROVE  LedgerInv
<1>1. L!Unpaid \in L!Paid
  BY DEF L!StatementsAssumption, L!Unpaid, L!Paid
<1>2. L!TypeOK
  BY <1>1 DEF L!Init, L!TypeOK
<1>3. \A d \in Records : Fair(d)
  BY DEF L!Init, Fair, L!Unpaid
<1> QED
  BY <1>2, <1>3 DEF LedgerInv

LEMMA BookKeeps ==
  ASSUME L!StatementsAssumption, LedgerInv, NEW d \in Records, L!Book(d)
  PROVE  LedgerInv'
<1>1. PICK document \in L!Document : booked' = [booked EXCEPT ![d] = document]
  BY DEF L!Book
<1>2. party' = party /\ paid' = paid /\ booked[d] = None
  BY DEF L!Book
<1>3. L!TypeOK'
  BY <1>1, <1>2 DEF LedgerInv, L!TypeOK, L!Party
<1>4. ASSUME NEW c \in Records
      PROVE  Fair(c)'
  <2>1. CASE c = d
    BY <1>1, <1>2, <2>1 DEF LedgerInv, L!TypeOK, Fair
  <2>2. CASE c # d
    <3>1. booked'[c] = booked[c]
      BY <1>1, <2>2 DEF LedgerInv, L!TypeOK
    <3> QED
      BY <1>2, <3>1 DEF LedgerInv, Fair, L!invoicePaidTotal
  <2> QED
    BY <2>1, <2>2
<1> QED
  BY <1>3, <1>4 DEF LedgerInv

LEMMA PayKeeps ==
  ASSUME L!StatementsAssumption, LedgerInv, NEW d \in Records, L!Pay(d)
  PROVE  LedgerInv'
<1>1. PICK amount \in 0..MaxAmount, wallet \in 0..MaxAmount, day \in Days \cup {None} :
        /\ amount + wallet > 0
        /\ paid' = [paid EXCEPT ![d] = [day |-> day, amount |-> amount, wallet |-> wallet,
                                        status |-> L!StatusOf(d, amount + wallet)]]
  BY DEF L!Pay
<1>2. party' = party /\ booked' = booked /\ booked[d] # None
  BY DEF L!Pay, L!Written
<1>3. amount \in Nat /\ wallet \in Nat
  BY DEF L!StatementsAssumption
<1>4. booked[d].total \in Int
  BY <1>2 DEF LedgerInv, L!TypeOK, L!Document, L!Amounts
<1>5. /\ L!StatusOf(d, amount + wallet) \in {"PARTIAL", "PAID"}
      /\ L!StatusOf(d, amount + wallet) = "PAID" => amount + wallet >= booked[d].total
  BY <1>1, <1>3, <1>4 DEF L!StatusOf
<1>6. paid' \in [Records -> L!Paid]
  BY <1>1, <1>5 DEF LedgerInv, L!TypeOK, L!Paid
<1>7. L!TypeOK'
  BY <1>2, <1>6 DEF LedgerInv, L!TypeOK, L!Party
<1>8. ASSUME NEW c \in Records
      PROVE  Fair(c)'
  <2>1. CASE c = d
    <3>1. /\ paid'[d].amount = amount /\ paid'[d].wallet = wallet
          /\ paid'[d].status = L!StatusOf(d, amount + wallet)
      BY <1>1 DEF LedgerInv, L!TypeOK
    <3> QED
      BY <1>2, <1>5, <2>1, <3>1 DEF Fair, L!invoicePaidTotal
  <2>2. CASE c # d
    <3>1. paid'[c] = paid[c]
      BY <1>1, <2>2 DEF LedgerInv, L!TypeOK
    <3> QED
      BY <1>2, <3>1 DEF LedgerInv, Fair, L!invoicePaidTotal
  <2> QED
    BY <2>1, <2>2
<1> QED
  BY <1>7, <1>8 DEF LedgerInv

LEMMA OverdueKeeps ==
  ASSUME L!StatementsAssumption, LedgerInv, NEW d \in Records, L!Overdue(d)
  PROVE  LedgerInv'
<1>1. paid' = [paid EXCEPT ![d].status = "OVERDUE"] /\ party' = party /\ booked' = booked
  BY DEF L!Overdue
<1>2. booked[d] # None
  BY DEF L!Overdue, L!expenses, L!Written
<1>3. paid' \in [Records -> L!Paid]
  BY <1>1 DEF LedgerInv, L!TypeOK, L!Paid
<1>4. L!TypeOK'
  BY <1>1, <1>3 DEF LedgerInv, L!TypeOK, L!Party
<1>5. ASSUME NEW c \in Records
      PROVE  Fair(c)'
  <2>1. CASE c = d
    <3>1. paid'[d].status = "OVERDUE"
      BY <1>1 DEF LedgerInv, L!TypeOK, L!Paid
    <3> QED
      BY <1>1, <1>2, <2>1, <3>1 DEF Fair
  <2>2. CASE c # d
    <3>1. paid'[c] = paid[c]
      BY <1>1, <2>2 DEF LedgerInv, L!TypeOK
    <3> QED
      BY <1>1, <3>1 DEF LedgerInv, Fair, L!invoicePaidTotal
  <2> QED
    BY <2>1, <2>2
<1> QED
  BY <1>4, <1>5 DEF LedgerInv

LEMMA LedgerNext ==
  ASSUME L!StatementsAssumption, LedgerInv, [L!Next]_(L!vars)
  PROVE  LedgerInv'
<1>1. CASE L!Next
  BY <1>1, BookKeeps, PayKeeps, OverdueKeeps DEF L!Next
<1>2. CASE UNCHANGED L!vars
  BY <1>2 DEF L!vars, LedgerInv, L!TypeOK, L!Party, Fair, L!invoicePaidTotal
<1> QED
  BY <1>1, <1>2

LEMMA LedgerInvariance ==
  ASSUME L!StatementsAssumption
  PROVE  L!Spec => []LedgerInv
BY LedgerInit, LedgerNext, PTL DEF L!Spec

-----------------------------------------------------------------------------
(* Ledger: sums.                                                           *)

\* The finite sets of PartyStatements are those of the library.
LEMMA LedgerFinite == \A X : L!IsFiniteSet(X) <=> IsFiniteSet(X)
BY DEF L!IsFiniteSet, IsFiniteSet

\* A sum of the library is the total of its function.
LEMMA SumIs ==
  ASSUME NEW these, IsFiniteSet(these), NEW w, NEW v, DOMAIN w = these, \A x \in these : w[x] = v[x]
  PROVE  L!SumFunction(w) = Total(these, v)
<1>1. L!SumFunction(w) = Total(DOMAIN w, w)
  BY DEF L!SumFunction, L!SumFunctionOnSet, L!FoldFunctionOnSet, L!MapThenFoldSet,
         Total, SumsOf, First
<1> QED
  BY <1>1, TotalSame

LEMMA TotalMinus ==
  ASSUME NEW these, NEW v, NEW w, Summed(these, v), \A x \in these : w[x] = -v[x]
  PROVE  Total(these, w) = -Total(these, v) /\ Summed(these, w)
<1> DEFINE zero == [x \in these |-> 0]
<1>1. Summed(these, w) /\ Summed(these, zero)
  BY DEF Summed
<1>2. \A x \in these : zero[x] = v[x] + w[x]
  BY DEF Summed
<1>3. Total(these, zero) = 0
  <2>1. \A x \in these \ {} : zero[x] = 0
    OBVIOUS
  <2> HIDE DEF zero
  <2> QED
    BY <1>1, <2>1, TotalWithin, TotalEmpty
<1> HIDE DEF zero
<1>4. Total(these, zero) = Total(these, v) + Total(these, w)
  BY <1>1, <1>2, TotalPlus
<1>5. Total(these, v) \in Int /\ Total(these, w) \in Int
  BY <1>1, TotalInt
<1> QED
  BY <1>1, <1>3, <1>4, <1>5

\* What the sums are over.
DueOf == [d \in Records |-> booked[d].total]
OpenOf == [d \in Records |-> L!invoiceOutstanding(d)]
OwedOf == [d \in Records |-> L!expenseOutstanding(d)]
PaidOf == [d \in Records |-> paid[d].amount]
WalletOf == [d \in Records |-> paid[d].wallet]
OutOf == [d \in Records |-> L!amountPaidOut(d)]
ToldOf == [d \in Records |->
             IF paid[d].status \in {"PARTIAL", "PAID"} THEN L!amountPaidOut(d) ELSE 0]
Amounts == {DueOf, OpenOf, OwedOf, PaidOf, WalletOf, OutOf, ToldOf}

\* The rows of a statement or of the transactions, by what they are of.
AmountOf(rows) == [r \in rows |-> r.amount]
LEMMA RowTypes ==
  ASSUME LedgerInv, NEW d \in L!Written
  PROVE  /\ d \in Records /\ booked[d].day \in Days /\ booked[d].item \in Items
         /\ booked[d].total \in Int /\ booked[d].total > 0
         /\ paid[d].amount \in Int /\ paid[d].amount >= 0
         /\ paid[d].wallet \in Int /\ paid[d].wallet >= 0
         /\ paid[d].status \in {"PENDING", "PARTIAL", "PAID", "OVERDUE"}
         /\ paid[d].day \in Days \cup {None}
<1>1. d \in Records /\ booked[d] \in L!Document
  BY DEF LedgerInv, L!TypeOK, L!Written
<1>2. paid[d] \in L!Paid
  BY <1>1 DEF LedgerInv, L!TypeOK
<1> QED
  BY <1>1, <1>2 DEF L!Document, L!Amounts, L!Paid

LEMMA AmountsSummed ==
  ASSUME L!StatementsAssumption, LedgerInv, NEW these \in SUBSET L!Written
  PROVE  IsFiniteSet(these) /\ \A w \in Amounts : Summed(these, w)
<1>1. IsFiniteSet(these)
  BY FS_Subset, LedgerFinite DEF L!StatementsAssumption, L!Written
<1>2. ASSUME NEW d \in these, NEW w \in Amounts
      PROVE  w[d] \in Int
  <2>1. /\ d \in Records /\ booked[d].total \in Int
        /\ paid[d].amount \in Int /\ paid[d].wallet \in Int
    BY RowTypes
  <2> QED
    BY <2>1 DEF Amounts, DueOf, OpenOf, OwedOf, PaidOf, WalletOf, OutOf, ToldOf, L!Positive,
             L!invoiceOutstanding, L!invoicePaidTotal, L!expenseOutstanding, L!amountPaidOut
<1> QED
  BY <1>1, <1>2 DEF Summed

\* One row for each document of a set, and its amount.
LEMMA RowPerDocument ==
  ASSUME NEW these, NEW rows, NEW h \in [these -> rows], NEW v, Summed(these, v),
         rows = {h[d] : d \in these}, \A d \in these : h[d].of = d /\ h[d].amount = v[d]
  PROVE  Total(rows, AmountOf(rows)) = Total(these, v) /\ Summed(rows, AmountOf(rows))
<1>1. \A d, e \in these : h[d] = h[e] => d = e
  OBVIOUS
<1>2. \A d \in these : AmountOf(rows)[h[d]] = v[d]
  BY DEF AmountOf
<1> QED
  BY <1>1, <1>2, TotalImage

\* The total of two sets of rows apart.
LEMMA RowsApart ==
  ASSUME NEW one, NEW other, one \cap other = {},
         Summed(one, AmountOf(one)), Summed(other, AmountOf(other))
  PROVE  /\ Total(one \cup other, AmountOf(one \cup other)) =
              Total(one, AmountOf(one)) + Total(other, AmountOf(other))
         /\ Summed(one \cup other, AmountOf(one \cup other))
<1> DEFINE w == AmountOf(one \cup other)
<1>1. \A r \in one : w[r] = AmountOf(one)[r]
  BY DEF AmountOf
<1>2. \A r \in other : w[r] = AmountOf(other)[r]
  BY DEF AmountOf
<1> HIDE DEF w
<1>3. Summed(one, w) /\ Summed(other, w)
  BY <1>1, <1>2 DEF Summed
<1>4. Total(one, w) = Total(one, AmountOf(one)) /\ Total(other, w) = Total(other, AmountOf(other))
  BY <1>1, <1>2, TotalSame DEF Summed
<1>5. Total(one \cup other, w) = Total(one, w) + Total(other, w) /\ Summed(one \cup other, w)
  BY <1>3, TotalUnion
<1> QED
  BY <1>4, <1>5 DEF w

-----------------------------------------------------------------------------
(* Ledger: the statements.                                                 *)

\* The documents of a period, and those paid in it.
Dated(period) == {d \in L!Written : booked[d].day \in period}
Received(period) == {d \in L!invoices : L!paymentLedgerTimestamp(d) \in period}

LEMMA KindIs ==
  ASSUME LedgerInv
  PROVE  /\ party.kind \in {"customer", "supplier"}
         /\ party.kind = "customer" => L!invoices = L!Written /\ L!expenses = {}
         /\ party.kind = "supplier" => L!expenses = L!Written /\ L!invoices = {}
<1>1. party.kind \in {"customer", "supplier"}
  BY DEF LedgerInv, L!TypeOK, L!Party
<1> QED
  BY <1>1 DEF L!invoices, L!expenses

\* The entries of some documents, on a day each, and of which a period has them.
AreEntries(entries, voucher, these, day, w) ==
  \A e : e \in entries <=> \E d \in these : e = L!Entry(voucher, d, day[d], w[d])
AreWithin(chosen, these, day, period) == chosen \subseteq these /\ \A d \in these : d \in chosen <=> day[d] \in period

LEMMA EntriesSum ==
  ASSUME NEW entries, NEW voucher, NEW these, NEW day, NEW w, NEW period, NEW chosen,
         Summed(these, w), AreEntries(entries, voucher, these, day, w), AreWithin(chosen, these, day, period)
  PROVE  LET kept == L!Within(entries, period)
         IN  /\ Total(kept, AmountOf(kept)) = Total(chosen, w)
             /\ Summed(kept, AmountOf(kept))
             /\ \A e \in kept : e.voucher = voucher
<1> DEFINE kept == L!Within(entries, period)
           h == [d \in chosen |-> L!Entry(voucher, d, day[d], w[d])]
<1>1. \A e \in kept : e.voucher = voucher
  BY DEF AreEntries, L!Within, L!Entry
<1>2. \A d \in chosen : h[d] \in kept /\ h[d].of = d /\ h[d].amount = w[d]
  BY DEF AreEntries, AreWithin, L!Within, L!Entry
<1>3. ASSUME NEW e \in kept
      PROVE  \E d \in chosen : e = h[d]
  <2>1. PICK d \in these : e = L!Entry(voucher, d, day[d], w[d])
    BY DEF AreEntries, L!Within
  <2>2. day[d] \in period
    BY <2>1 DEF L!Within, L!Entry
  <2> QED
    BY <2>1, <2>2 DEF AreWithin
<1>4. h \in [chosen -> kept]
  BY <1>2
<1>5. Summed(chosen, w)
  BY FS_Subset DEF Summed, AreWithin
<1> HIDE DEF kept, h
<1>6. kept = {h[d] : d \in chosen}
  BY <1>2, <1>3
<1>7. Total(kept, AmountOf(kept)) = Total(chosen, w) /\ Summed(kept, AmountOf(kept))
  BY <1>2, <1>4, <1>5, <1>6, RowPerDocument
<1> QED
  BY <1>1, <1>7 DEF kept

\* Credits of some documents, those with nothing to credit left out.
LEMMA CreditsSum ==
  ASSUME NEW entries, NEW voucher, NEW these, NEW day, NEW v, NEW period, NEW chosen,
         Summed(these, v), \A d \in these : v[d] >= 0,
         \A e : e \in entries <=>
           \E d \in these : v[d] > 0 /\ e = L!Entry(voucher, d, day[d], -v[d]),
         AreWithin(chosen, these, day, period)
  PROVE  LET kept == L!Within(entries, period)
         IN  /\ Total(kept, AmountOf(kept)) = -Total(chosen, v)
             /\ Summed(kept, AmountOf(kept))
             /\ \A e \in kept : e.voucher = voucher
<1> DEFINE kept == L!Within(entries, period)
           T == {e \in these : v[e] > 0}
           within == {d \in chosen : v[d] > 0}
           w == [d \in these |-> -v[d]]
<1>1. Summed(T, w) /\ Summed(chosen, v) /\ Summed(within, v)
  <2>1. T \subseteq these /\ chosen \subseteq these /\ within \subseteq these
    BY DEF AreWithin
  <2> QED
    BY <2>1, FS_Subset DEF Summed
<1>2. AreEntries(entries, voucher, T, day, w)
  BY DEF AreEntries
<1>3. AreWithin(within, T, day, period) /\ within \subseteq chosen
  BY DEF AreWithin
<1>4. \A d \in within : w[d] = -v[d]
  BY DEF AreWithin
<1>5. \A d \in chosen \ within : v[d] = 0
  BY DEF Summed, AreWithin
<1> HIDE DEF w, T, within, kept
<1>6. /\ Total(kept, AmountOf(kept)) = Total(within, w)
      /\ Summed(kept, AmountOf(kept)) /\ \A e \in kept : e.voucher = voucher
  BY <1>1, <1>2, <1>3, EntriesSum DEF kept
<1>7. Total(within, w) = -Total(within, v)
  BY <1>1, <1>4, TotalMinus
<1>8. Total(chosen, v) = Total(within, v)
  BY <1>1, <1>3, <1>5, TotalWithin
<1> QED
  BY <1>6, <1>7, <1>8 DEF kept

\* The days that entries are on.
BookedOn == [d \in Records |-> booked[d].day]
PaidOn == [d \in Records |-> L!paymentLedgerTimestamp(d)]

LEMMA SalesSum ==
  ASSUME L!StatementsAssumption, LedgerInv, party.kind = "customer", NEW period
  PROVE  LET kept == L!Within(L!SaleEntries, period)
         IN  /\ Total(kept, AmountOf(kept)) = Total(Dated(period), DueOf)
             /\ Summed(kept, AmountOf(kept))
             /\ \A e \in kept : e.voucher = "sale"
<1>1. L!invoices = L!Written /\ L!Written \subseteq Records
  BY KindIs DEF L!Written
<1>2. AreEntries(L!SaleEntries, "sale", L!Written, BookedOn, DueOf)
  BY <1>1 DEF AreEntries, L!SaleEntries, BookedOn, DueOf
<1>3. Summed(L!Written, DueOf)
  BY AmountsSummed DEF Amounts
<1>4. AreWithin(Dated(period), L!Written, BookedOn, period)
  BY <1>1 DEF AreWithin, Dated, BookedOn
<1> QED
  BY <1>2, <1>3, <1>4, EntriesSum

LEMMA PurchasesSum ==
  ASSUME L!StatementsAssumption, LedgerInv, party.kind = "supplier", NEW period
  PROVE  LET kept == L!Within({L!Entry("purchase", d, booked[d].day, booked[d].total) :
                                 d \in L!expenses}, period)
         IN  /\ Total(kept, AmountOf(kept)) = Total(Dated(period), DueOf)
             /\ Summed(kept, AmountOf(kept))
             /\ \A e \in kept : e.voucher = "purchase"
<1> DEFINE entries == {L!Entry("purchase", d, booked[d].day, booked[d].total) : d \in L!expenses}
<1>1. L!expenses = L!Written /\ L!Written \subseteq Records
  BY KindIs DEF L!Written
<1>2. AreEntries(entries, "purchase", L!Written, BookedOn, DueOf)
  BY <1>1 DEF AreEntries, BookedOn, DueOf
<1>3. Summed(L!Written, DueOf)
  BY AmountsSummed DEF Amounts
<1>4. AreWithin(Dated(period), L!Written, BookedOn, period)
  BY <1>1 DEF AreWithin, Dated, BookedOn
<1> HIDE DEF entries
<1>5. LET kept == L!Within(entries, period)
      IN  /\ Total(kept, AmountOf(kept)) = Total(Dated(period), DueOf)
          /\ Summed(kept, AmountOf(kept))
          /\ \A e \in kept : e.voucher = "purchase"
  BY <1>2, <1>3, <1>4, EntriesSum
<1> QED
  BY <1>5 DEF entries

LEMMA PaymentsSum ==
  ASSUME L!StatementsAssumption, LedgerInv, party.kind = "customer", NEW period
  PROVE  LET kept == L!Within(L!PaymentEntries, period)
         IN  /\ Total(kept, AmountOf(kept)) = -Total(Received(period), PaidOf)
             /\ Summed(kept, AmountOf(kept))
             /\ \A e \in kept : e.voucher = "payment"
<1>1. L!invoices = L!Written /\ L!Written \subseteq Records
  BY KindIs DEF L!Written
<1>2. \A e : e \in L!PaymentEntries <=>
        \E d \in L!Written : PaidOf[d] > 0 /\ e = L!Entry("payment", d, PaidOn[d], -PaidOf[d])
  BY <1>1 DEF L!PaymentEntries, PaidOn, PaidOf
<1>3. Summed(L!Written, PaidOf) /\ \A d \in L!Written : PaidOf[d] >= 0
  BY <1>1, AmountsSummed, RowTypes DEF Amounts, PaidOf
<1>4. AreWithin(Received(period), L!Written, PaidOn, period)
  BY <1>1 DEF AreWithin, Received, PaidOn
<1> QED
  BY <1>2, <1>3, <1>4, CreditsSum

LEMMA WalletSum ==
  ASSUME L!StatementsAssumption, LedgerInv, party.kind = "customer", NEW period
  PROVE  LET kept == L!Within(L!WalletEntries, period)
         IN  /\ Total(kept, AmountOf(kept)) = -Total(Received(period), WalletOf)
             /\ Summed(kept, AmountOf(kept))
             /\ \A e \in kept : e.voucher = "wallet"
<1>1. L!invoices = L!Written /\ L!Written \subseteq Records
  BY KindIs DEF L!Written
<1>2. \A e : e \in L!WalletEntries <=>
        \E d \in L!Written : WalletOf[d] > 0 /\ e = L!Entry("wallet", d, PaidOn[d], -WalletOf[d])
  BY <1>1 DEF L!WalletEntries, PaidOn, WalletOf
<1>3. Summed(L!Written, WalletOf) /\ \A d \in L!Written : WalletOf[d] >= 0
  BY <1>1, AmountsSummed, RowTypes DEF Amounts, WalletOf
<1>4. AreWithin(Received(period), L!Written, PaidOn, period)
  BY <1>1 DEF AreWithin, Received, PaidOn
<1> QED
  BY <1>2, <1>3, <1>4, CreditsSum

LEMMA PaidOutSum ==
  ASSUME L!StatementsAssumption, LedgerInv, party.kind = "supplier", NEW period
  PROVE  LET kept == L!Within({L!Entry("paid", d, booked[d].day, -L!amountPaidOut(d)) :
                                 d \in {e \in L!expenses : L!amountPaidOut(e) > 0}}, period)
         IN  /\ Total(kept, AmountOf(kept)) = -Total(Dated(period), OutOf)
             /\ Summed(kept, AmountOf(kept))
             /\ \A e \in kept : e.voucher = "paid"
<1> DEFINE entries == {L!Entry("paid", d, booked[d].day, -L!amountPaidOut(d)) :
                         d \in {e \in L!expenses : L!amountPaidOut(e) > 0}}
<1>1. L!expenses = L!Written /\ L!Written \subseteq Records
  BY KindIs DEF L!Written
<1>2. \A e : e \in entries <=>
        \E d \in L!Written : OutOf[d] > 0 /\ e = L!Entry("paid", d, BookedOn[d], -OutOf[d])
  BY <1>1 DEF BookedOn, OutOf
<1>3. Summed(L!Written, OutOf) /\ \A d \in L!Written : OutOf[d] >= 0
  BY <1>1, AmountsSummed, RowTypes DEF Amounts, OutOf, L!amountPaidOut
<1>4. AreWithin(Dated(period), L!Written, BookedOn, period)
  BY <1>1 DEF AreWithin, Dated, BookedOn
<1> HIDE DEF entries
<1>5. LET kept == L!Within(entries, period)
      IN  /\ Total(kept, AmountOf(kept)) = -Total(Dated(period), OutOf)
          /\ Summed(kept, AmountOf(kept))
          /\ \A e \in kept : e.voucher = "paid"
  BY <1>2, <1>3, <1>4, CreditsSum
<1> QED
  BY <1>5 DEF entries

LEMMA ClosingIs ==
  ASSUME NEW entries, Summed(entries, AmountOf(entries))
  PROVE  L!Closing(entries) = L!signedOpeningBalance + Total(entries, AmountOf(entries))
<1>1. IsFiniteSet(entries) /\ DOMAIN AmountOf(entries) = entries
  BY DEF Summed, AmountOf
<1>2. L!SumFunction(AmountOf(entries)) = Total(entries, AmountOf(entries))
  BY <1>1, SumIs
<1> QED
  BY <1>2 DEF L!Closing, AmountOf

\* The totals of a period are whole numbers.
LEMMA PeriodTotals ==
  ASSUME L!StatementsAssumption, LedgerInv, NEW period
  PROVE  /\ Dated(period) \subseteq L!Written /\ Received(period) \subseteq L!Written
         /\ \A w \in Amounts : Total(Dated(period), w) \in Int /\ Total(Received(period), w) \in Int
<1>1. Dated(period) \subseteq L!Written /\ Received(period) \subseteq L!Written
  BY DEF Dated, Received, L!invoices
<1> QED
  BY <1>1, AmountsSummed, TotalInt

LEMMA CustomerStatement ==
  ASSUME L!StatementsAssumption, LedgerInv, party.kind = "customer", NEW period
  PROVE  /\ L!Closing(L!buildPartyStatement(period)) =
              L!signedOpeningBalance
                + (Total(Dated(period), DueOf) - Total(Received(period), PaidOf))
         /\ L!Closing(L!buildPublicCustomerStatement(period)) =
              L!signedOpeningBalance
                + (Total(Dated(period), DueOf) - Total(Received(period), PaidOf)
                     - Total(Received(period), WalletOf))
<1> DEFINE sales == L!Within(L!SaleEntries, period)
           payments == L!Within(L!PaymentEntries, period)
           credits == L!Within(L!WalletEntries, period)
<1>1. /\ Total(sales, AmountOf(sales)) = Total(Dated(period), DueOf)
      /\ Summed(sales, AmountOf(sales)) /\ \A e \in sales : e.voucher = "sale"
  BY SalesSum
<1>2. /\ Total(payments, AmountOf(payments)) = -Total(Received(period), PaidOf)
      /\ Summed(payments, AmountOf(payments)) /\ \A e \in payments : e.voucher = "payment"
  BY PaymentsSum
<1>3. /\ Total(credits, AmountOf(credits)) = -Total(Received(period), WalletOf)
      /\ Summed(credits, AmountOf(credits)) /\ \A e \in credits : e.voucher = "wallet"
  BY WalletSum
<1>4. L!buildPartyStatement(period) = sales \cup payments
  <2>1. L!ExpenseEntries = {}
    BY KindIs DEF L!ExpenseEntries
  <2> QED
    BY <2>1 DEF L!buildPartyStatement, L!Within
<1>5. L!buildPublicCustomerStatement(period) = (sales \cup payments) \cup credits
  BY DEF L!buildPublicCustomerStatement, L!Within
<1> HIDE DEF sales, payments, credits
<1>6. /\ Total(sales \cup payments, AmountOf(sales \cup payments)) =
           Total(sales, AmountOf(sales)) + Total(payments, AmountOf(payments))
      /\ Summed(sales \cup payments, AmountOf(sales \cup payments))
  <2>1. sales \cap payments = {}
    BY <1>1, <1>2
  <2> QED
    BY <1>1, <1>2, <2>1, RowsApart
<1> DEFINE both == sales \cup payments
<1>7. both \cap credits = {}
  BY <1>1, <1>2, <1>3
<1> HIDE DEF both
<1>8. /\ Total(both \cup credits, AmountOf(both \cup credits)) =
           Total(both, AmountOf(both)) + Total(credits, AmountOf(credits))
      /\ Summed(both \cup credits, AmountOf(both \cup credits))
  BY <1>3, <1>6, <1>7, RowsApart DEF both
<1>9. /\ L!Closing(both) = L!signedOpeningBalance + Total(both, AmountOf(both))
      /\ L!Closing(both \cup credits) =
           L!signedOpeningBalance + Total(both \cup credits, AmountOf(both \cup credits))
  BY <1>6, <1>8, ClosingIs DEF both
<1>10. /\ Total(Dated(period), DueOf) \in Int /\ Total(Received(period), PaidOf) \in Int
       /\ Total(Received(period), WalletOf) \in Int
  BY PeriodTotals DEF Amounts
<1>11. /\ Total(both, AmountOf(both)) =
            Total(Dated(period), DueOf) - Total(Received(period), PaidOf)
       /\ Total(both \cup credits, AmountOf(both \cup credits)) =
            Total(Dated(period), DueOf) - Total(Received(period), PaidOf)
              - Total(Received(period), WalletOf)
  BY <1>1, <1>2, <1>3, <1>6, <1>8, <1>10 DEF both
<1> QED
  BY <1>4, <1>5, <1>9, <1>11 DEF both

LEMMA SupplierStatement ==
  ASSUME L!StatementsAssumption, LedgerInv, party.kind = "supplier", NEW period
  PROVE  L!Closing(L!buildPartyStatement(period)) =
           L!signedOpeningBalance + (Total(Dated(period), DueOf) - Total(Dated(period), OutOf))
<1> DEFINE purchases == {L!Entry("purchase", d, booked[d].day, booked[d].total) : d \in L!expenses}
           payments == {L!Entry("paid", d, booked[d].day, -L!amountPaidOut(d)) :
                          d \in {e \in L!expenses : L!amountPaidOut(e) > 0}}
           bought == L!Within(purchases, period)
           settled == L!Within(payments, period)
<1>1. /\ Total(bought, AmountOf(bought)) = Total(Dated(period), DueOf)
      /\ Summed(bought, AmountOf(bought)) /\ \A e \in bought : e.voucher = "purchase"
  BY PurchasesSum
<1>2. /\ Total(settled, AmountOf(settled)) = -Total(Dated(period), OutOf)
      /\ Summed(settled, AmountOf(settled)) /\ \A e \in settled : e.voucher = "paid"
  BY PaidOutSum
<1>3. L!buildPartyStatement(period) = bought \cup settled
  <2>1. L!SaleEntries = {} /\ L!PaymentEntries = {}
    BY KindIs DEF L!SaleEntries, L!PaymentEntries
  <2>2. L!ExpenseEntries = purchases \cup payments
    BY DEF L!ExpenseEntries
  <2> HIDE DEF purchases, payments
  <2> QED
    BY <2>1, <2>2 DEF L!buildPartyStatement, L!Within
<1> HIDE DEF purchases, payments, bought, settled
<1>4. bought \cap settled = {}
  BY <1>1, <1>2
<1>5. /\ Total(bought \cup settled, AmountOf(bought \cup settled)) =
           Total(bought, AmountOf(bought)) + Total(settled, AmountOf(settled))
      /\ Summed(bought \cup settled, AmountOf(bought \cup settled))
  BY <1>1, <1>2, <1>4, RowsApart
<1>6. Total(Dated(period), DueOf) \in Int /\ Total(Dated(period), OutOf) \in Int
  BY PeriodTotals DEF Amounts
<1>7. Total(bought \cup settled, AmountOf(bought \cup settled)) =
        Total(Dated(period), DueOf) - Total(Dated(period), OutOf)
  BY <1>1, <1>2, <1>5, <1>6
<1> QED
  BY <1>3, <1>5, <1>7, ClosingIs

-----------------------------------------------------------------------------
(* Ledger: the summary and the transactions.                               *)

LEMMA BalanceIs ==
  ASSUME L!StatementsAssumption, LedgerInv
  PROVE  L!partyCurrentBalance = L!signedOpeningBalance + Total(L!invoices, OpenOf)
                                                        + Total(L!expenses, OwedOf)
<1>1. /\ L!invoices \subseteq L!Written /\ L!expenses \subseteq L!Written
      /\ L!Written \subseteq Records
  BY DEF L!invoices, L!expenses, L!Written
<1>2. IsFiniteSet(L!invoices) /\ IsFiniteSet(L!expenses)
  BY <1>1, AmountsSummed
<1> DEFINE v == [d \in L!invoices |-> L!invoiceOutstanding(d)]
           w == [d \in L!expenses |-> L!expenseOutstanding(d)]
<1>3. DOMAIN v = L!invoices /\ \A d \in L!invoices : v[d] = OpenOf[d]
  BY <1>1 DEF OpenOf
<1>4. DOMAIN w = L!expenses /\ \A d \in L!expenses : w[d] = OwedOf[d]
  BY <1>1 DEF OwedOf
<1>5. L!partyCurrentBalance = L!signedOpeningBalance + L!SumFunction(v) + L!SumFunction(w)
  BY DEF L!partyCurrentBalance
<1> HIDE DEF v, w
<1> QED
  BY <1>2, <1>3, <1>4, <1>5, SumIs

\* The invoices that their status does not say are paid.
Unsettled == {d \in L!invoices : paid[d].status # "PAID"}

LEMMA SummaryIs ==
  ASSUME L!StatementsAssumption, LedgerInv, NEW period
  PROVE  LET summary == L!buildPartySummary(period)
         IN  /\ summary.current = L!partyCurrentBalance
             /\ summary.overdue = Total(Unsettled, OpenOf) + Total(L!expenses, OwedOf)
             /\ summary.turnover = Total(Dated(period), DueOf)
             /\ summary.settled = IF party.kind = "customer"
                                    THEN Total(Received(period), PaidOf)
                                    ELSE Total(Dated(period), ToldOf)
<1> DEFINE open == [d \in Unsettled |-> L!invoiceOutstanding(d)]
           owed == [d \in L!expenses |-> L!expenseOutstanding(d)]
           due == [d \in Dated(period) |-> booked[d].total]
           got == [d \in Received(period) |-> paid[d].amount]
           told == [d \in Dated(period) |-> IF paid[d].status \in {"PARTIAL", "PAID"}
                                              THEN L!amountPaidOut(d) ELSE 0]
<1>1. /\ L!buildPartySummary(period).current = L!partyCurrentBalance
      /\ L!buildPartySummary(period).overdue = L!SumFunction(open) + L!SumFunction(owed)
      /\ L!buildPartySummary(period).turnover = L!SumFunction(due)
      /\ L!buildPartySummary(period).settled =
           IF party.kind = "customer" THEN L!SumFunction(got) ELSE L!SumFunction(told)
  BY DEF L!buildPartySummary, Unsettled, Dated, Received
<1>2. /\ Unsettled \subseteq L!Written /\ L!expenses \subseteq L!Written
      /\ Dated(period) \subseteq L!Written /\ Received(period) \subseteq L!Written
      /\ L!Written \subseteq Records
  BY DEF Unsettled, L!invoices, L!expenses, L!Written, Dated, Received
<1>3. /\ IsFiniteSet(Unsettled) /\ IsFiniteSet(L!expenses)
      /\ IsFiniteSet(Dated(period)) /\ IsFiniteSet(Received(period))
  BY <1>2, AmountsSummed
<1>4. /\ DOMAIN open = Unsettled /\ \A d \in Unsettled : open[d] = OpenOf[d]
      /\ DOMAIN owed = L!expenses /\ \A d \in L!expenses : owed[d] = OwedOf[d]
      /\ DOMAIN due = Dated(period) /\ \A d \in Dated(period) : due[d] = DueOf[d]
      /\ DOMAIN got = Received(period) /\ \A d \in Received(period) : got[d] = PaidOf[d]
      /\ DOMAIN told = Dated(period) /\ \A d \in Dated(period) : told[d] = ToldOf[d]
  BY <1>2 DEF OpenOf, OwedOf, DueOf, PaidOf, ToldOf
<1> HIDE DEF open, owed, due, got, told
<1>5. /\ L!SumFunction(open) = Total(Unsettled, OpenOf)
      /\ L!SumFunction(owed) = Total(L!expenses, OwedOf)
      /\ L!SumFunction(due) = Total(Dated(period), DueOf)
      /\ L!SumFunction(got) = Total(Received(period), PaidOf)
      /\ L!SumFunction(told) = Total(Dated(period), ToldOf)
  BY <1>3, <1>4, SumIs
<1> QED
  BY <1>1, <1>5

-----------------------------------------------------------------------------
(* Ledger: the views agree.                                                *)

LEMMA OpeningIs ==
  ASSUME L!StatementsAssumption, LedgerInv
  PROVE  L!signedOpeningBalance \in Int /\ (party.opening = 0 => L!signedOpeningBalance = 0)
<1>1. party.opening \in Int
  BY DEF LedgerInv, L!TypeOK, L!Party, L!StatementsAssumption
<1> QED
  BY <1>1 DEF L!signedOpeningBalance

\* Nothing is due of what is paid.
LEMMA SettledIsPaid ==
  ASSUME L!StatementsAssumption, LedgerInv
  PROVE  Total(Unsettled, OpenOf) = Total(L!invoices, OpenOf)
<1>1. L!invoices \subseteq L!Written
  BY DEF L!invoices
<1>2. Summed(L!invoices, OpenOf)
  BY <1>1, AmountsSummed DEF Amounts
<1>3. ASSUME NEW d \in L!invoices \ Unsettled
      PROVE  OpenOf[d] = 0
  <2>1. d \in Records /\ paid[d].status = "PAID"
    BY <1>1 DEF Unsettled, L!Written
  <2>2. L!invoicePaidTotal(d) >= booked[d].total
    BY <2>1 DEF LedgerInv, Fair
  <2>3. booked[d].total \in Int /\ L!invoicePaidTotal(d) \in Int
    BY <1>1, RowTypes DEF L!invoicePaidTotal
  <2> QED
    BY <2>1, <2>2, <2>3 DEF OpenOf, L!invoiceOutstanding, L!Positive
<1>4. Unsettled \in SUBSET L!invoices
  BY DEF Unsettled
<1> QED
  BY <1>2, <1>3, <1>4, TotalWithin

LEMMA OutstandingTotals ==
  ASSUME L!StatementsAssumption, LedgerInv
  PROVE  /\ Total(L!invoices, OpenOf) \in Int /\ Total(L!expenses, OwedOf) \in Int
         /\ L!invoices = {} => Total(L!invoices, OpenOf) = 0
         /\ L!expenses = {} => Total(L!expenses, OwedOf) = 0
<1>1. L!invoices \subseteq L!Written /\ L!expenses \subseteq L!Written
  BY DEF L!invoices, L!expenses
<1>2. Summed(L!invoices, OpenOf) /\ Summed(L!expenses, OwedOf)
  BY <1>1, AmountsSummed DEF Amounts
<1> QED
  BY <1>2, TotalInt, TotalEmpty

\* Without an opening balance the public page asks for the balance.
LEMMA PageAgrees ==
  ASSUME L!StatementsAssumption, LedgerInv, party.kind = "customer", party.opening = 0
  PROVE  L!totalOutstanding = L!partyCurrentBalance
<1> DEFINE v == [d \in L!invoices |-> L!invoiceOutstanding(d)]
<1>1. L!totalOutstanding = IF L!SumFunction(v) > 0 THEN L!SumFunction(v)
                           ELSE L!partyCurrentBalance
  BY DEF L!totalOutstanding
<1>2. L!SumFunction(v) = Total(L!invoices, OpenOf)
  <2>1. L!invoices \subseteq L!Written /\ L!Written \subseteq Records
    BY DEF L!invoices, L!Written
  <2>2. IsFiniteSet(L!invoices)
    BY <2>1, AmountsSummed
  <2>3. DOMAIN v = L!invoices /\ \A d \in L!invoices : v[d] = OpenOf[d]
    BY <2>1 DEF OpenOf
  <2> HIDE DEF v
  <2> QED
    BY <2>2, <2>3, SumIs
<1>3. L!partyCurrentBalance = 0 + Total(L!invoices, OpenOf) + 0
  BY BalanceIs, OpeningIs, OutstandingTotals, KindIs
<1> HIDE DEF v
<1> QED
  BY <1>1, <1>2, <1>3, OutstandingTotals

\* All days are in the period of all days.
LEMMA AllDays ==
  ASSUME LedgerInv
  PROVE  /\ Dated(Days) = L!Written
         /\ party.kind = "customer" => Received(Days) = L!Written
<1>1. \A d \in L!Written : booked[d].day \in Days /\ L!paymentLedgerTimestamp(d) \in Days
  BY RowTypes DEF L!paymentLedgerTimestamp
<1> QED
  BY <1>1, KindIs DEF Dated, Received

\* Over all days, a customer's statement closes at the balance.
LEMMA CustomerCloses ==
  ASSUME L!StatementsAssumption, LedgerInv, party.kind = "customer",
         \A d \in L!Written : ~L!OverPaid(d)
  PROVE  L!Closing(L!buildPublicCustomerStatement(Days)) = L!partyCurrentBalance
<1> DEFINE given == [d \in L!Written |-> PaidOf[d] + WalletOf[d]]
<1>1. /\ Summed(L!Written, DueOf) /\ Summed(L!Written, OpenOf)
      /\ Summed(L!Written, PaidOf) /\ Summed(L!Written, WalletOf)
  BY AmountsSummed DEF Amounts
<1>2. \A d \in L!Written : given[d] = PaidOf[d] + WalletOf[d]
  OBVIOUS
<1>3. ASSUME NEW d \in L!Written
      PROVE  DueOf[d] = OpenOf[d] + given[d]
  <2>1. /\ d \in Records /\ booked[d].total \in Int
        /\ paid[d].amount \in Int /\ paid[d].wallet \in Int
    BY RowTypes
  <2>2. ~(paid[d].amount + paid[d].wallet > booked[d].total)
    BY DEF L!OverPaid, L!invoicePaidTotal
  <2> QED
    BY <2>1, <2>2 DEF DueOf, OpenOf, PaidOf, WalletOf, L!invoiceOutstanding, L!invoicePaidTotal,
                      L!Positive
<1> HIDE DEF given
<1>4. /\ Total(L!Written, given) = Total(L!Written, PaidOf) + Total(L!Written, WalletOf)
      /\ Summed(L!Written, given)
  BY <1>1, <1>2, TotalPlus
<1>5. Total(L!Written, DueOf) = Total(L!Written, OpenOf) + Total(L!Written, given)
  BY <1>1, <1>3, <1>4, TotalPlus
<1>6. /\ Total(L!Written, OpenOf) \in Int /\ Total(L!Written, PaidOf) \in Int
      /\ Total(L!Written, WalletOf) \in Int
  BY <1>1, TotalInt
<1>7. L!Closing(L!buildPublicCustomerStatement(Days)) =
        L!signedOpeningBalance + (Total(L!Written, DueOf) - Total(L!Written, PaidOf)
                                    - Total(L!Written, WalletOf))
  BY AllDays, CustomerStatement
<1>8. L!partyCurrentBalance = L!signedOpeningBalance + Total(L!Written, OpenOf) + 0
  BY BalanceIs, OutstandingTotals, KindIs
<1> QED
  BY <1>4, <1>5, <1>6, <1>7, <1>8, OpeningIs

\* And so does that of a supplier.
LEMMA SupplierCloses ==
  ASSUME L!StatementsAssumption, LedgerInv, party.kind = "supplier",
         \A d \in L!Written : ~L!OverPaid(d)
  PROVE  L!Closing(L!buildPartyStatement(Days)) = L!partyCurrentBalance
<1>1. /\ Summed(L!Written, DueOf) /\ Summed(L!Written, OwedOf) /\ Summed(L!Written, OutOf)
  BY AmountsSummed DEF Amounts
<1>2. ASSUME NEW d \in L!Written
      PROVE  DueOf[d] = OwedOf[d] + OutOf[d]
  <2>1. /\ d \in Records /\ booked[d].total \in Int /\ paid[d].amount \in Int
        /\ paid[d].wallet \in Int /\ paid[d].wallet >= 0
    BY RowTypes
  <2>2. ~(paid[d].amount + paid[d].wallet > booked[d].total)
    BY DEF L!OverPaid, L!invoicePaidTotal
  <2> QED
    BY <2>1, <2>2 DEF DueOf, OwedOf, OutOf, L!expenseOutstanding, L!amountPaidOut, L!Positive
<1>3. Total(L!Written, DueOf) = Total(L!Written, OwedOf) + Total(L!Written, OutOf)
  BY <1>1, <1>2, TotalPlus
<1>4. Total(L!Written, OwedOf) \in Int /\ Total(L!Written, OutOf) \in Int
  BY <1>1, TotalInt
<1>5. L!Closing(L!buildPartyStatement(Days)) =
        L!signedOpeningBalance + (Total(L!Written, DueOf) - Total(L!Written, OutOf))
  BY AllDays, SupplierStatement
<1>6. L!partyCurrentBalance = L!signedOpeningBalance + 0 + Total(L!Written, OwedOf)
  BY BalanceIs, OutstandingTotals, KindIs
<1> QED
  BY <1>3, <1>4, <1>5, <1>6, OpeningIs

\* A statement moves by the turnover less what was settled.
LEMMA StatementMoves ==
  ASSUME L!StatementsAssumption, LedgerInv, NEW period,
         \A d \in L!Written : paid[d].status = "OVERDUE" => paid[d].amount = 0
  PROVE  LET summary == L!buildPartySummary(period)
         IN  L!Closing(L!buildPartyStatement(period)) =
               L!signedOpeningBalance + summary.turnover - summary.settled
<1>1. /\ Total(Dated(period), DueOf) \in Int /\ Total(Received(period), PaidOf) \in Int
      /\ Total(Dated(period), OutOf) \in Int
  BY PeriodTotals DEF Amounts
<1>2. CASE party.kind = "customer"
  BY <1>1, <1>2, CustomerStatement, SummaryIs, OpeningIs
<1>3. CASE party.kind = "supplier"
  <2>1. ASSUME NEW d \in Dated(period)
        PROVE  OutOf[d] = ToldOf[d]
    <3>1. d \in L!Written /\ d \in Records
      BY DEF Dated, L!Written
    <3>2. paid[d].status = "PENDING" => paid[d].amount = 0
      BY <3>1 DEF LedgerInv, Fair
    <3>3. paid[d].status \in {"PENDING", "PARTIAL", "PAID", "OVERDUE"}
      BY <3>1, RowTypes
    <3> QED
      BY <3>1, <3>2, <3>3 DEF OutOf, ToldOf, L!amountPaidOut
  <2>2. IsFiniteSet(Dated(period))
    BY AmountsSummed DEF Dated
  <2>3. Total(Dated(period), OutOf) = Total(Dated(period), ToldOf)
    BY <2>1, <2>2, TotalSame
  <2> QED
    BY <1>1, <1>3, <2>3, SupplierStatement, SummaryIs, OpeningIs
<1> QED
  BY <1>2, <1>3, KindIs

\* The rows of the transactions.
SaleRow(d) ==
  [of |-> d, type |-> "sale", amount |-> booked[d].total,
   status |-> L!Status(d, L!invoiceOutstanding(d), L!invoicePaidTotal(d) > 0)]
PaymentRow(d) ==
  [of |-> d, type |-> "payment", amount |-> paid[d].amount, status |-> ""]
PurchaseRow(d) ==
  [of |-> d, type |-> "purchase", amount |-> booked[d].total,
   status |-> L!Status(d, L!expenseOutstanding(d), paid[d].status = "PARTIAL")]
DocumentRow(d) == IF party.kind = "customer" THEN SaleRow(d) ELSE PurchaseRow(d)

LEMMA TransactionsAre ==
  ASSUME LedgerInv, NEW period, NEW r
  PROVE  r \in L!buildPartyTransactions(period) <=>
           \/ \E d \in Dated(period) : r = DocumentRow(d)
           \/ \E d \in Received(period) : paid[d].amount > 0 /\ r = PaymentRow(d)
<1>1. r \in L!buildPartyTransactions(period) <=>
        \/ \E d \in L!invoices : booked[d].day \in period /\ r = SaleRow(d)
        \/ \E d \in L!invoices : /\ paid[d].amount > 0 /\ L!paymentLedgerTimestamp(d) \in period
                                 /\ r = PaymentRow(d)
        \/ \E d \in L!expenses : booked[d].day \in period /\ r = PurchaseRow(d)
  BY DEF L!buildPartyTransactions, SaleRow, PaymentRow, PurchaseRow
<1>2. CASE party.kind = "customer"
  BY <1>1, <1>2, KindIs DEF Dated, Received, DocumentRow
<1>3. CASE party.kind = "supplier"
  BY <1>1, <1>3, KindIs DEF Dated, Received, DocumentRow
<1> QED
  BY <1>2, <1>3, KindIs

LEMMA RowIs ==
  ASSUME NEW d
  PROVE  /\ DocumentRow(d).of = d /\ DocumentRow(d).amount = booked[d].total
         /\ DocumentRow(d).type \in {"sale", "purchase"}
         /\ PaymentRow(d).of = d /\ PaymentRow(d).amount = paid[d].amount
         /\ PaymentRow(d).type = "payment"
BY DEF DocumentRow, SaleRow, PurchaseRow, PaymentRow

\* The transactions of some types.
OfTypes(period, types) == {row \in L!buildPartyTransactions(period) : row.type \in types}

\* The rows of a kind add up to what they are of.
LEMMA RowsAddUp ==
  ASSUME NEW these, NEW rows, NEW h, NEW v, Summed(these, v),
         \A r : r \in rows <=> \E d \in these : r = h[d],
         \A d \in these : h[d].of = d /\ h[d].amount = v[d]
  PROVE  L!SumFunction([r \in rows |-> r.amount]) = Total(these, v)
<1> DEFINE f == [d \in these |-> h[d]]
<1>1. f \in [these -> rows] /\ rows = {f[d] : d \in these} /\ \A d \in these : f[d] = h[d]
  OBVIOUS
<1> HIDE DEF f
<1>2. Total(rows, AmountOf(rows)) = Total(these, v) /\ Summed(rows, AmountOf(rows))
  BY <1>1, RowPerDocument
<1>3. IsFiniteSet(rows) /\ DOMAIN AmountOf(rows) = rows
  BY <1>2 DEF Summed, AmountOf
<1>4. L!SumFunction(AmountOf(rows)) = Total(rows, AmountOf(rows))
  BY <1>3, SumIs
<1> QED
  BY <1>2, <1>4 DEF AmountOf

LEMMA DocumentRowsAddUp ==
  ASSUME L!StatementsAssumption, LedgerInv, NEW period
  PROVE  L!SumFunction([r \in OfTypes(period, {"sale", "purchase"}) |-> r.amount])
           = Total(Dated(period), DueOf)
<1> DEFINE h == [d \in Dated(period) |-> DocumentRow(d)]
<1>1. Dated(period) \subseteq L!Written /\ L!Written \subseteq Records
  BY DEF Dated, L!Written
<1>2. \A r : r \in OfTypes(period, {"sale", "purchase"}) <=> \E d \in Dated(period) : r = h[d]
  BY TransactionsAre, RowIs DEF OfTypes
<1>3. \A d \in Dated(period) : h[d].of = d /\ h[d].amount = DueOf[d]
  BY <1>1, RowIs DEF DueOf
<1>4. Summed(Dated(period), DueOf)
  BY <1>1, AmountsSummed DEF Amounts
<1> HIDE DEF h
<1> QED
  BY <1>2, <1>3, <1>4, RowsAddUp

LEMMA PaymentRowsAddUp ==
  ASSUME L!StatementsAssumption, LedgerInv, NEW period
  PROVE  L!SumFunction([r \in OfTypes(period, {"payment"}) |-> r.amount])
           = Total(Received(period), PaidOf)
<1> DEFINE these == {d \in Received(period) : paid[d].amount > 0}
           h == [d \in these |-> PaymentRow(d)]
<1>1. Received(period) \subseteq L!Written /\ L!Written \subseteq Records
  BY DEF Received, L!invoices, L!Written
<1>2. \A r : r \in OfTypes(period, {"payment"}) <=> \E d \in these : r = h[d]
  <2>1. \A r : r \in OfTypes(period, {"payment"}) => \E d \in these : r = PaymentRow(d)
    BY TransactionsAre, RowIs DEF OfTypes
  <2>2. ASSUME NEW d \in these
        PROVE  PaymentRow(d) \in OfTypes(period, {"payment"})
    <3>1. d \in Received(period) /\ paid[d].amount > 0
      OBVIOUS
    <3> QED
      BY <3>1, TransactionsAre, RowIs DEF OfTypes
  <2> QED
    BY <2>1, <2>2
<1>3. \A d \in these : h[d].of = d /\ h[d].amount = PaidOf[d]
  BY <1>1, RowIs DEF PaidOf
<1>4. these \in SUBSET Received(period) /\ these \in SUBSET L!Written
  BY <1>1
<1>5. Summed(these, PaidOf) /\ Summed(Received(period), PaidOf)
  BY <1>1, <1>4, AmountsSummed DEF Amounts
<1>6. \A d \in Received(period) \ these : PaidOf[d] = 0
  BY <1>1, RowTypes DEF PaidOf
<1> HIDE DEF h, these
<1>7. L!SumFunction([r \in OfTypes(period, {"payment"}) |-> r.amount]) = Total(these, PaidOf)
  BY <1>2, <1>3, <1>5, RowsAddUp
<1>8. Total(Received(period), PaidOf) = Total(these, PaidOf)
  BY <1>4, <1>5, <1>6, TotalWithin
<1> QED
  BY <1>7, <1>8

\* What the transactions do not call paid.
NotPaid == {d \in L!Written : \A r \in L!buildPartyTransactions(Days) :
                                r.of = d /\ r.type # "payment" => r.status # "Paid"}

LEMMA NotPaidIs ==
  ASSUME L!StatementsAssumption, LedgerInv, NEW d \in L!Written
  PROVE  d \in NotPaid <=>
           /\ paid[d].status # "PAID"
           /\ IF party.kind = "customer" THEN OpenOf[d] # 0 ELSE OwedOf[d] # 0
<1>1. d \in NotPaid <=> DocumentRow(d).status # "Paid"
  <2>1. \A r \in L!buildPartyTransactions(Days) :
          r.of = d /\ r.type # "payment" => r = DocumentRow(d)
    BY TransactionsAre, RowIs
  <2>2. DocumentRow(d) \in L!buildPartyTransactions(Days)
    BY TransactionsAre, AllDays
  <2>3. DocumentRow(d).of = d /\ DocumentRow(d).type # "payment"
    BY RowIs
  <2> QED
    BY <2>1, <2>2, <2>3 DEF NotPaid
<1>2. d \in Records
  BY DEF L!Written
<1>3. DocumentRow(d).status = IF party.kind = "customer"
        THEN L!Status(d, OpenOf[d], L!invoicePaidTotal(d) > 0)
        ELSE L!Status(d, OwedOf[d], paid[d].status = "PARTIAL")
  BY <1>2 DEF DocumentRow, SaleRow, PurchaseRow, OpenOf, OwedOf
<1> QED
  BY <1>1, <1>3, KindIs DEF L!Status

\* All that is overdue is due of what the transactions do not call paid.
LEMMA OverdueIs ==
  ASSUME L!StatementsAssumption, LedgerInv
  PROVE  L!SumFunction([d \in NotPaid |-> IF d \in L!invoices THEN L!invoiceOutstanding(d)
                                                              ELSE L!expenseOutstanding(d)])
           = Total(L!invoices, OpenOf) + Total(L!expenses, OwedOf)
<1> DEFINE w == [d \in NotPaid |-> IF d \in L!invoices THEN L!invoiceOutstanding(d)
                                                       ELSE L!expenseOutstanding(d)]
<1>1. NotPaid \in SUBSET L!Written /\ L!Written \subseteq Records
  BY DEF NotPaid, L!Written
<1>2. IsFiniteSet(NotPaid) /\ Summed(L!Written, OpenOf) /\ Summed(L!Written, OwedOf)
  BY <1>1, AmountsSummed DEF Amounts
<1>3. DOMAIN w = NotPaid
  OBVIOUS
<1>4. CASE party.kind = "customer"
  <2>1. \A d \in NotPaid : w[d] = OpenOf[d]
    BY <1>1, <1>4, KindIs DEF OpenOf
  <2>2. \A d \in L!Written \ NotPaid : OpenOf[d] = 0
    <3> SUFFICES ASSUME NEW d \in L!Written \ NotPaid
                 PROVE  OpenOf[d] = 0
      OBVIOUS
    <3>1. CASE paid[d].status = "PAID"
      <4>1. L!invoicePaidTotal(d) >= booked[d].total
        BY <1>1, <3>1 DEF LedgerInv, Fair
      <4>2. booked[d].total \in Int /\ L!invoicePaidTotal(d) \in Int
        BY RowTypes DEF L!invoicePaidTotal
      <4> QED
        BY <1>1, <4>1, <4>2 DEF OpenOf, L!invoiceOutstanding, L!Positive
    <3>2. CASE paid[d].status # "PAID"
      BY <1>4, <3>2, NotPaidIs
    <3> QED
      BY <3>1, <3>2
  <2> HIDE DEF w
  <2>3. L!SumFunction(w) = Total(NotPaid, OpenOf)
    BY <1>2, <1>3, <2>1, SumIs
  <2>4. Total(L!Written, OpenOf) = Total(NotPaid, OpenOf)
    BY <1>1, <1>2, <2>2, TotalWithin
  <2>5. Total(L!invoices, OpenOf) \in Int /\ Total(L!expenses, OwedOf) = 0
    BY <1>4, OutstandingTotals, KindIs
  <2>6. L!SumFunction(w) = Total(L!invoices, OpenOf) + Total(L!expenses, OwedOf)
    BY <1>4, <2>3, <2>4, <2>5, KindIs
  <2> QED
    BY <2>6 DEF w
<1>5. CASE party.kind = "supplier"
  <2>1. \A d \in NotPaid : w[d] = OwedOf[d]
    BY <1>1, <1>5, KindIs DEF OwedOf
  <2>2. \A d \in L!Written \ NotPaid : OwedOf[d] = 0
    <3> SUFFICES ASSUME NEW d \in L!Written \ NotPaid
                 PROVE  OwedOf[d] = 0
      OBVIOUS
    <3>1. CASE paid[d].status = "PAID"
      BY <1>1, <3>1 DEF OwedOf, L!expenseOutstanding
    <3>2. CASE paid[d].status # "PAID"
      BY <1>5, <3>2, NotPaidIs
    <3> QED
      BY <3>1, <3>2
  <2> HIDE DEF w
  <2>3. L!SumFunction(w) = Total(NotPaid, OwedOf)
    BY <1>2, <1>3, <2>1, SumIs
  <2>4. Total(L!Written, OwedOf) = Total(NotPaid, OwedOf)
    BY <1>1, <1>2, <2>2, TotalWithin
  <2>5. Total(L!expenses, OwedOf) \in Int /\ Total(L!invoices, OpenOf) = 0
    BY <1>5, OutstandingTotals, KindIs
  <2>6. L!SumFunction(w) = Total(L!invoices, OpenOf) + Total(L!expenses, OwedOf)
    BY <1>5, <2>3, <2>4, <2>5, KindIs
  <2> QED
    BY <2>6 DEF w
<1> QED
  BY <1>4, <1>5, KindIs

\* The items of a supplier add up to the turnover.
LEMMA ItemsAddUp ==
  ASSUME L!StatementsAssumption, LedgerInv, NEW period
  PROVE  L!SumFunction(L!buildPartyItemWise(period)) = Total(Dated(period), DueOf)
<1> DEFINE item == [d \in Records |-> booked[d].item]
           of == [i \in Items |-> {d \in Dated(period) : item[d] = i}]
           v == L!buildPartyItemWise(period)
<1>1. Dated(period) \subseteq L!Written /\ L!Written \subseteq Records
  BY DEF Dated, L!Written
<1>2. Summed(Dated(period), DueOf) /\ IsFiniteSet(Items)
  BY <1>1, AmountsSummed, LedgerFinite DEF Amounts, L!StatementsAssumption
<1>3. \A d \in Dated(period) : item[d] \in Items
  BY <1>1, RowTypes
<1>4. ASSUME NEW i \in Items
      PROVE  v[i] = Total(of[i], DueOf)
  <2> DEFINE these == {e \in L!Written : booked[e].day \in period /\ booked[e].item = i}
             w == [d \in these |-> booked[d].total]
  <2>1. v[i] = L!SumFunction(w)
    BY DEF L!buildPartyItemWise
  <2>2. these = of[i]
    BY <1>1 DEF Dated
  <2>3. IsFiniteSet(these) /\ DOMAIN w = these /\ \A d \in these : w[d] = DueOf[d]
    BY <1>1, AmountsSummed DEF DueOf
  <2> HIDE DEF these, w, v, of
  <2>4. L!SumFunction(w) = Total(these, DueOf)
    BY <2>3, SumIs
  <2> QED
    BY <2>1, <2>2, <2>4
<1>5. DOMAIN v = Items
  BY DEF L!buildPartyItemWise
<1>6. Sorted(Dated(period), Items, item, of)
  BY <1>3 DEF Sorted
<1> HIDE DEF v, item, of
<1>7. Total(Items, v) = Total(Dated(period), DueOf)
  BY <1>2, <1>4, <1>6, TotalByKind
<1>8. L!SumFunction(v) = Total(Items, v)
  BY <1>2, <1>5, SumIs
<1> QED
  BY <1>7, <1>8 DEF v

LEMMA ViewsAgree ==
  ASSUME L!StatementsAssumption, LedgerInv
  PROVE  L!LedgersAgree
<1>1. party.kind = "customer" /\ party.opening = 0 => L!totalOutstanding = L!partyCurrentBalance
  BY PageAgrees
<1>2. (\A d \in L!Written : ~L!OverPaid(d)) =>
        L!Closing(IF party.kind = "customer" THEN L!buildPublicCustomerStatement(Days)
                  ELSE L!buildPartyStatement(Days)) = L!partyCurrentBalance
  BY CustomerCloses, SupplierCloses, KindIs
<1>3. ASSUME NEW period \in L!Periods
      PROVE  LET summary == L!buildPartySummary(period)
                 rows == L!buildPartyTransactions(period)
                 TotalOf(types) == L!SumFunction([r \in {row \in rows : row.type \in types} |->
                                                    r.amount])
                 due == {d \in L!Written : \A r \in L!buildPartyTransactions(Days) :
                                             r.of = d /\ r.type # "payment" => r.status # "Paid"}
             IN  /\ (\A d \in L!Written : paid[d].status = "OVERDUE" => paid[d].amount = 0) =>
                      L!Closing(L!buildPartyStatement(period)) =
                        L!signedOpeningBalance + summary.turnover - summary.settled
                 /\ TotalOf({"sale", "purchase"}) = summary.turnover
                 /\ party.kind = "customer" => TotalOf({"payment"}) = summary.settled
                 /\ summary.overdue =
                      L!SumFunction([d \in due |-> IF d \in L!invoices
                                                     THEN L!invoiceOutstanding(d)
                                                     ELSE L!expenseOutstanding(d)])
                 /\ party.kind = "supplier" =>
                      L!SumFunction(L!buildPartyItemWise(period)) = summary.turnover
                 /\ summary.overdue = summary.current - L!signedOpeningBalance
  <2> DEFINE summary == L!buildPartySummary(period)
  <2>1. (\A d \in L!Written : paid[d].status = "OVERDUE" => paid[d].amount = 0) =>
          L!Closing(L!buildPartyStatement(period)) =
            L!signedOpeningBalance + summary.turnover - summary.settled
    BY StatementMoves
  <2>2. L!SumFunction([r \in OfTypes(period, {"sale", "purchase"}) |-> r.amount])
          = summary.turnover
    BY DocumentRowsAddUp, SummaryIs
  <2>3. party.kind = "customer" =>
          L!SumFunction([r \in OfTypes(period, {"payment"}) |-> r.amount]) = summary.settled
    BY PaymentRowsAddUp, SummaryIs
  <2>4. /\ summary.overdue = Total(L!invoices, OpenOf) + Total(L!expenses, OwedOf)
        /\ summary.current = L!partyCurrentBalance
    BY SummaryIs, SettledIsPaid
  <2>5. summary.overdue =
          L!SumFunction([d \in NotPaid |-> IF d \in L!invoices THEN L!invoiceOutstanding(d)
                                                               ELSE L!expenseOutstanding(d)])
    BY <2>4, OverdueIs
  <2>6. L!SumFunction(L!buildPartyItemWise(period)) = summary.turnover
    BY ItemsAddUp, SummaryIs
  <2>7. summary.overdue = summary.current - L!signedOpeningBalance
    BY <2>4, BalanceIs, OpeningIs, OutstandingTotals
  <2> QED
    BY <2>1, <2>2, <2>3, <2>5, <2>6, <2>7 DEF OfTypes, NotPaid
<1> QED
  BY <1>1, <1>2, <1>3 DEF L!LedgersAgree

\* The views of a party's ledger agree.
THEOREM ViewsOfLedgerAgree ==
  /\ L!Spec => [](L!TypeOK /\ L!LedgersAgree)
  /\ PeopleSpec => []LedgersAgree
<1>1. LedgerInv => L!TypeOK /\ L!LedgersAgree
  BY PeopleAssumption, ViewsAgree DEF PeopleAssumption, LedgerInv
<1>2. L!Spec => []LedgerInv
  BY PeopleAssumption, LedgerInvariance, PTL DEF PeopleAssumption
<1>3. L!LedgersAgree => LedgersAgree
  BY DEF LedgersAgree
<1> QED
  BY <1>1, <1>2, <1>3, EachPartRuns, PTL

=============================================================================
