--------------------------------- MODULE Staff ---------------------------------
(***************************************************************************)
(* The people and the branches of one workshop: User and Branch rows, the  *)
(* caps of its plan, and what stands in the way of a deletion.             *)
(*                                                                         *)
(* A request is handled by a worker and is made with a token, whose role   *)
(* is the one its holder had at the login.  Between the queries of one     *)
(* request those of others run; only the database's own rules (unique ids, *)
(* foreign keys) hold across them.                                         *)
(***************************************************************************)
EXTENDS Naturals, FiniteSets

CONSTANTS
  People,      \* ids of users, taken or free
  Owner,       \* the SUPER_ADMIN the workshop starts with
  Branches,    \* ids of branches, taken or free
  HeadOffice,  \* the branch it starts with
  Workers,     \* requests that can be in progress at once
  Rows,        \* ids of attendance rows, in the order of their creation, for one use each
  None,
  MaxUsers,    \* effectiveMaxUsers of the plan
  MaxBranches, \* effectiveMaxBranches of the plan
  MaxRequests  \* bound: requests that change something

StaffAssumption ==
  /\ Owner \in People /\ HeadOffice \in Branches
  /\ None \notin People \cup Branches \cup Rows
  /\ IsFiniteSet(People) /\ IsFiniteSet(Branches)
  /\ Rows \subseteq Nat /\ IsFiniteSet(Rows)
  /\ {MaxUsers, MaxBranches, MaxRequests} \subseteq Nat \ {0}

VARIABLES
  user,       \* the User rows
  branch,     \* the Branch rows: "none", "active" or "inactive"
  work,       \* branches with documents: job cards, expenses, payroll
  attendance, \* the Attendance rows
  token,      \* the role in the token each person holds
  task,       \* the request of each worker
  stale,      \* a user was written while another request went by an older count
  late,       \* branches with documents stored during or after their deletion
  requests    \* how many there were

staffVars == <<user, branch, work, attendance, token, task, stale, late, requests>>

-----------------------------------------------------------------------------
(* Rows, roles and requests.                                               *)

\* RECEPTIONIST stands for SUPERVISOR too, MANAGER for BRANCH_MANAGER.
Roles == {"SUPER_ADMIN", "ADMIN", "MANAGER", "RECEPTIONIST", "MECHANIC"}

isStaffManager(role) == role \in {"SUPER_ADMIN", "ADMIN", "MANAGER"}
canCreateStaffAccounts(role) == role \in {"SUPER_ADMIN", "ADMIN"}
canAssignUserRole(role) == role = "SUPER_ADMIN"
canMutateBranch(role) == role \in {"SUPER_ADMIN", "ADMIN", "MANAGER"}
isBillableUserSeatRole(role) == role # "MECHANIC"

User == [role: Roles, isActive: BOOLEAN, branch: Branches]
NoUser == [role |-> None, isActive |-> FALSE, branch |-> None]
Exists(p) == user[p] # NoUser

\* A row of a day; what is left out (times, status) no later punch looks at.
Row == [staff: People, branch: Branches, in: BOOLEAN, out: BOOLEAN]
NoRow == [staff |-> None, branch |-> None, in |-> FALSE, out |-> FALSE]
GoneRow == [NoRow EXCEPT !.out = TRUE]

\* What a form changes of a user; None: not in the form.
Patch == [role: Roles \cup {None}, isActive: {TRUE, FALSE, None}, branch: Branches \cup {None}]
NoPatch == [role |-> None, isActive |-> None, branch |-> None]

Or(value, default) == IF value = None THEN default ELSE value
Patched(row, patch) == [f \in DOMAIN row |-> Or(patch[f], row[f])]

Task == [at: {"idle", "create", "edit", "save", "forget", "remove", "branch", "again", "drop"},
         person: People \cup {None}, branch: Branches \cup {None}, patch: Patch]
NoTask == [at |-> "idle", person |-> None, branch |-> None, patch |-> NoPatch]

TypeOK ==
  /\ user \in [People -> User \cup {NoUser}]
  /\ branch \in [Branches -> {"none", "active", "inactive"}]
  /\ work \subseteq Branches
  /\ attendance \in [Rows -> Row \cup {NoRow, GoneRow}]
  /\ token \in [People -> Roles \cup {None}]
  /\ task \in [Workers -> Task]
  /\ stale \in BOOLEAN /\ late \subseteq Branches
  /\ requests \in 0..MaxRequests
  \* foreign keys
  /\ \A p \in People : Exists(p) => branch[user[p].branch] # "none"
  /\ \A r \in Rows : attendance[r] \in Row =>
       Exists(attendance[r].staff) /\ branch[attendance[r].branch] # "none"

\* provisionOrganization: the owner, the head office.
Init ==
  /\ user = [p \in People |-> IF p = Owner
               THEN [role |-> "SUPER_ADMIN", isActive |-> TRUE, branch |-> HeadOffice] ELSE NoUser]
  /\ branch = [b \in Branches |-> IF b = HeadOffice THEN "active" ELSE "none"]
  /\ work = {} /\ late = {}
  /\ attendance = [r \in Rows |-> NoRow]
  /\ token = [p \in People |-> None]
  /\ task = [w \in Workers |-> NoTask]
  /\ stale = FALSE
  /\ requests = 0

At(w, step) == task[w].at = step
Request(w) == At(w, "idle") /\ requests < MaxRequests /\ requests' = requests + 1
Begin(w, step, p, b, patch) ==
  task' = [task EXCEPT ![w] = [at |-> step, person |-> p, branch |-> b, patch |-> patch]]
Return(w) == task' = [task EXCEPT ![w] = NoTask]

\* countActiveUsersForOrg
Seats == Cardinality({p \in People : user[p].isActive /\ isBillableUserSeatRole(user[p].role)})
BranchCount == Cardinality({b \in Branches : branch[b] # "none"})

canCreateWithLimit(used, max) == used < max

Overtakes(w) == \E other \in Workers \ {w} : task[other].at \in {"create", "save"}

-----------------------------------------------------------------------------
(* Tokens.                                                                 *)

\* Nothing of the row is looked at again while the token lives.
Login(p) ==
  /\ user[p].isActive
  /\ token[p] # user[p].role
  /\ token' = [token EXCEPT ![p] = user[p].role]
  /\ UNCHANGED <<user, branch, work, attendance, task, stale, late, requests>>

-----------------------------------------------------------------------------
(* Users.                                                                  *)

\* postUser up to the count; the hash of the password takes its time.
PostUser(w, actor, p, new) ==
  /\ Request(w)
  /\ canCreateStaffAccounts(token[actor]) /\ canAssignUserRole(token[actor])
  /\ branch[new.branch] # "none"
  /\ new.isActive /\ isBillableUserSeatRole(new.role) => canCreateWithLimit(Seats, MaxUsers)
  /\ Begin(w, "create", p, None, new)
  /\ UNCHANGED <<user, branch, work, attendance, token, stale, late>>

\* user.create: the id is taken, the branch is gone, or there is a new row.
CreateUser(w) ==
  LET p == task[w].person IN
  /\ At(w, "create")
  /\ IF Exists(p) \/ branch[task[w].patch.branch] = "none"
       THEN UNCHANGED <<user, stale>>
       ELSE /\ user' = [user EXCEPT ![p] = task[w].patch]
            /\ stale' = (stale \/ Overtakes(w))
  /\ Return(w)
  /\ UNCHANGED <<branch, work, attendance, token, late, requests>>

\* putUser: who may change a role is decided on a first read of the row.
PutUser(w, actor, p, patch) ==
  /\ Request(w)
  /\ isStaffManager(token[actor])
  /\ Exists(p)
  /\ patch.role # None =>
       /\ p # actor
       /\ patch.role # user[p].role => token[actor] = "SUPER_ADMIN"
  /\ Begin(w, "edit", p, None, patch)
  /\ UNCHANGED <<user, branch, work, attendance, token, stale, late>>

\* With a bug: only a reactivation takes a seat, a promotion does not.
SeatOfReactivation(current, new) ==
  new.isActive /\ isBillableUserSeatRole(new.role) /\ ~current.isActive
TakesSeat(current, new) ==
  /\ new.isActive /\ isBillableUserSeatRole(new.role)
  /\ ~current.isActive \/ ~isBillableUserSeatRole(current.role)

KnownBranch(patch) == patch.branch # None => branch[patch.branch] # "none"

\* updateUserApi up to the count, on a second read.
CheckUser(w) ==
  LET p == task[w].person
      patch == task[w].patch
  IN  /\ At(w, "edit")
      /\ IF /\ Exists(p)
            /\ KnownBranch(patch)
            /\ TakesSeat(user[p], Patched(user[p], patch)) => canCreateWithLimit(Seats, MaxUsers)
           THEN task' = [task EXCEPT ![w].at = "save"]
           ELSE Return(w)
      /\ UNCHANGED <<user, branch, work, attendance, token, stale, late, requests>>

\* user.update writes what is in the form.
SaveUser(w) ==
  LET p == task[w].person IN
  /\ At(w, "save")
  /\ IF Exists(p) /\ KnownBranch(task[w].patch)
       THEN /\ user' = [user EXCEPT ![p] = Patched(@, task[w].patch)]
            /\ stale' = (stale \/ Overtakes(w))
       ELSE UNCHANGED <<user, stale>>
  /\ Return(w)
  /\ UNCHANGED <<branch, work, attendance, token, late, requests>>

\* deleteUser: the checks, the attendance, the row.
DeleteUser(w, actor, p) ==
  /\ Request(w)
  /\ isStaffManager(token[actor])
  /\ p # actor /\ Exists(p)
  /\ user[p].role = "SUPER_ADMIN" => token[actor] = "SUPER_ADMIN"
  /\ Begin(w, "forget", p, None, NoPatch)
  /\ UNCHANGED <<user, branch, work, attendance, token, stale, late>>

Without(p) == [r \in Rows |-> IF attendance[r].staff = p THEN GoneRow ELSE attendance[r]]

ForgetUser(w) ==
  /\ At(w, "forget")
  /\ attendance' = Without(task[w].person)
  /\ task' = [task EXCEPT ![w].at = "remove"]
  /\ UNCHANGED <<user, branch, work, token, stale, late, requests>>

\* Rows stored meanwhile go with the user (onDelete: Cascade).
RemoveUser(w) ==
  LET p == task[w].person IN
  /\ At(w, "remove")
  /\ user' = [user EXCEPT ![p] = NoUser]
  /\ attendance' = Without(p)
  /\ Return(w)
  /\ UNCHANGED <<branch, work, token, stale, late, requests>>

-----------------------------------------------------------------------------
(* Branches.                                                               *)

\* upsertBranchApi: a new one needs room, one that exists does not.
PostBranch(w, actor, b) ==
  /\ Request(w)
  /\ canMutateBranch(token[actor])
  /\ branch[b] = "none" => canCreateWithLimit(BranchCount, MaxBranches)
  /\ Begin(w, "branch", None, b, NoPatch)
  /\ UNCHANGED <<user, branch, work, attendance, token, stale, late>>

UpsertBranch(w) ==
  /\ At(w, "branch")
  /\ branch' = [branch EXCEPT ![task[w].branch] = "active"]
  /\ Return(w)
  /\ UNCHANGED <<user, work, attendance, token, stale, late, requests>>

PutBranch(w, actor, b) ==
  /\ Request(w)
  /\ canMutateBranch(token[actor])
  /\ branch[b] # "none"
  /\ branch' = [branch EXCEPT ![b] = IF @ = "active" THEN "inactive" ELSE "active"]
  /\ UNCHANGED <<user, work, attendance, token, task, stale, late>>

\* With a bug: documents do not count.
PeopleBlock(b) == BranchCount <= 1 \/ \E p \in People : user[p].branch = b
\* getBranchDeletionBlockers; attendance is not among them.
Blocked(b) ==
  \/ BranchCount <= 1
  \/ \E p \in People : user[p].branch = b
  \/ b \in work

\* deleteBranch looks once for the answer and once more in deleteBranchApi.
DeleteBranch(w, actor, b) ==
  /\ Request(w)
  /\ canMutateBranch(token[actor])
  /\ branch[b] # "none" /\ ~Blocked(b)
  /\ Begin(w, "again", None, b, NoPatch)
  /\ UNCHANGED <<user, branch, work, attendance, token, stale, late>>

LookAgain(w) ==
  LET b == task[w].branch IN
  /\ At(w, "again")
  /\ IF branch[b] # "none" /\ ~Blocked(b)
       THEN task' = [task EXCEPT ![w].at = "drop"]
       ELSE Return(w)
  /\ UNCHANGED <<user, branch, work, attendance, token, stale, late, requests>>

\* branch.delete fails while a user or an attendance row refers to it.
DropBranch(w) ==
  LET b == task[w].branch IN
  /\ At(w, "drop")
  /\ branch' = IF \/ \E p \in People : user[p].branch = b
                  \/ \E r \in Rows : attendance[r].branch = b
                 THEN branch ELSE [branch EXCEPT ![b] = "none"]
  /\ Return(w)
  /\ UNCHANGED <<user, work, attendance, token, stale, late, requests>>

\* Documents name their branch without a foreign key.
Store(w, b) ==
  /\ Request(w)
  /\ b \notin work
  /\ work' = work \cup {b}
  /\ late' = IF branch[b] = "none" \/ \E other \in Workers : task[other].branch = b
               THEN late \cup {b} ELSE late
  /\ UNCHANGED <<user, branch, attendance, token, task, stale>>

Clear(w, b) ==
  /\ Request(w)
  /\ b \in work
  /\ work' = work \ {b} /\ late' = late \ {b}
  /\ UNCHANGED <<user, branch, attendance, token, task, stale>>

-----------------------------------------------------------------------------
StaffNext ==
  \/ \E p \in People : Login(p)
  \/ \E w \in Workers :
       \/ \E actor, p \in People :
            \/ \E new \in User : PostUser(w, actor, p, new)
            \/ \E patch \in Patch \ {NoPatch} : PutUser(w, actor, p, patch)
            \/ DeleteUser(w, actor, p)
       \/ CreateUser(w) \/ CheckUser(w) \/ SaveUser(w) \/ ForgetUser(w) \/ RemoveUser(w)
       \/ \E b \in Branches :
            \/ \E actor \in People : PostBranch(w, actor, b) \/ PutBranch(w, actor, b)
                                       \/ DeleteBranch(w, actor, b)
            \/ Store(w, b) \/ Clear(w, b)
       \/ UpsertBranch(w) \/ LookAgain(w) \/ DropBranch(w)

-----------------------------------------------------------------------------
(* Properties.                                                             *)

\* The plan's users are never exceeded, by whatever creations, promotions and
\* reactivations, but where two requests went by the same count.
SeatsAreSold == ~stale => Seats <= MaxUsers

\* A branch with job cards, expenses or payroll is not deleted under them:
\* only a document stored while the deletion ran can be left behind.
WorkHasBranch == \A b \in work : branch[b] # "none" \/ b \in late
=============================================================================
