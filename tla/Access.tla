--------------------------------- MODULE Access ---------------------------------
(***************************************************************************)
(* What a member of staff may do and see: the permission keys that the     *)
(* forms write, the key a route asks for with a method, and the branches   *)
(* whose documents a list shows.  The rules read a token; what is stated   *)
(* here is of the token that the row would give now.                       *)
(***************************************************************************)
EXTENDS FiniteSets

CONSTANTS
  Module,     \* a permission module; no rule looks at two of them
  Home,       \* the member's branch
  Elsewhere,  \* another one
  None

AccessAssumption ==
  /\ None \notin {"withEditAccess", "withoutEditAccess"}
  /\ \A branches \in SUBSET {Home, Elsewhere} : branches # None

VARIABLES
  kind,    \* "upsert": granular and saved by PUT; "granular"; "simple"
  default, \* whether the role has the module by default
  role,    \* of the row
  held,    \* the keys of the row
  level,   \* the access level the form has set last, None if keys were set
  homes    \* the branches that exist

vars == <<kind, default, role, held, level, homes>>

-----------------------------------------------------------------------------
(* Keys.                                                                   *)

\* BASE: the bare name of the module, from before the granular keys.
Keys == {"BASE", "CREATE", "VIEW", "EDIT", "DELETE"}
Levels == {"withEditAccess", "withoutEditAccess"}
Roles == {"ADMIN", "MANAGER", "RECEPTIONIST"}

expandLegacyBaseKeys(perms) ==
  IF "BASE" \in perms THEN (perms \ {"BASE"}) \cup {"CREATE", "VIEW", "EDIT"} ELSE perms

\* With a bug: only the granular keys are looked at, and "EDIT" goes.
WithoutExpansion(current, access) ==
  IF access = "withoutEditAccess" THEN current \ {"DELETE", "EDIT"}
  ELSE IF current \cap {"CREATE", "VIEW"} # {} THEN (current \ {"DELETE"}) \cup {"EDIT"}
  ELSE current \ {"DELETE"}

permissionsForStaffAccessLevel(current, access) ==
  LET expanded == expandLegacyBaseKeys(current) \ {"DELETE"} IN
  IF access = "withoutEditAccess" THEN expanded \ {"EDIT"}
  ELSE IF expanded \cap {"CREATE", "VIEW"} # {} THEN expanded \cup {"EDIT"}
  ELSE expanded

\* Role defaults where the form names no keys; an ADMIN needs none.
resolvePermissionsOnCreate(r, perms, access) ==
  IF perms # {} THEN perms
  ELSE IF r = "ADMIN" \/ ~default THEN {}
  ELSE permissionsForStaffAccessLevel({"CREATE", "VIEW"}, access)

actionFromHttpMethod == [GET |-> "VIEW", POST |-> "CREATE", PUT |-> "EDIT", DELETE |-> "DELETE"]

\* A module without granular keys takes any of them for all of it.
hasPermissionForMethod(auth, method) ==
  \/ auth.role = "ADMIN"
  \/ {"BASE", actionFromHttpMethod[method]} \cap auth.held # {}
  \/ method = "PUT" /\ kind = "upsert" /\ "CREATE" \in auth.held
  \/ kind = "simple" /\ auth.held # {}

-----------------------------------------------------------------------------
(* Branches.                                                               *)

\* The branch a document names, or the two of a transfer.
Documents == [branch: {Home, Elsewhere, None}, from: {Home, Elsewhere, None},
              to: {Home, Elsewhere, None}]

\* resolveBranchScope; None: every branch.  A home that was deleted leaves
\* no branch, unless the workshop has none at all.
Scope(r) ==
  IF r \in {"ADMIN", "MANAGER"} THEN None
  ELSE IF Home \in homes \/ homes = {} THEN {Home} ELSE {}

isPayloadInBranchScope(doc, allowed) ==
  \/ allowed = None
  \/ IF doc.branch # None THEN doc.branch \in allowed
     ELSE {doc.from, doc.to} = {None} \/ {doc.from, doc.to} \cap allowed # {}

\* With a bug: a branch that is asked for replaces the scope.
Replaced(allowed, query) == IF query = None THEN allowed ELSE {query}
intersectQueryBranchId(allowed, query) ==
  IF query = None THEN allowed
  ELSE IF allowed = None \/ query \in allowed THEN {query}
  ELSE {}

Shown(r, query) ==
  {doc \in Documents : isPayloadInBranchScope(doc, intersectQueryBranchId(Scope(r), query))}

-----------------------------------------------------------------------------
TypeOK ==
  /\ kind \in {"upsert", "granular", "simple"}
  /\ default \in BOOLEAN
  /\ role \in Roles
  /\ held \subseteq Keys
  /\ level \in Levels \cup {None}
  /\ homes \subseteq {Home, Elsewhere}

\* createUserApi
Init ==
  /\ kind \in {"upsert", "granular", "simple"} /\ default \in BOOLEAN
  /\ role \in Roles
  /\ homes = {Home, Elsewhere}
  /\ \E perms \in SUBSET Keys, access \in Levels :
       /\ held = resolvePermissionsOnCreate(role, perms, access)
       /\ level = IF perms = {} /\ held # {} THEN access ELSE None

\* updateUserApi: keys alone, or a level over the keys of the form or the row.
SetPermissions ==
  \E perms \in SUBSET Keys :
    /\ held' = perms
    /\ level' = None
    /\ UNCHANGED <<kind, default, role, homes>>

SetAccessLevel ==
  \E access \in Levels, base \in SUBSET Keys :
    /\ base = held \/ level = None
    /\ held' = permissionsForStaffAccessLevel(base, access)
    /\ level' = access
    /\ UNCHANGED <<kind, default, role, homes>>

SetRole ==
  \E r \in Roles \ {role} :
    /\ role' = r
    /\ UNCHANGED <<kind, default, held, level, homes>>

MoveBranch ==
  \E b \in {Home, Elsewhere} :
    /\ homes' = IF b \in homes THEN homes \ {b} ELSE homes \cup {b}
    /\ UNCHANGED <<kind, default, role, held, level>>

Next == SetPermissions \/ SetAccessLevel \/ SetRole \/ MoveBranch

Spec == Init /\ [][Next]_vars

-----------------------------------------------------------------------------
(* Properties.                                                             *)

Allowed(method) == hasPermissionForMethod([role |-> role, held |-> held], method)

\* "With Edit Access" edits what it can create or view.  "Without" edits what
\* it creates by PUT and, of a module with granular keys, nothing else; and
\* neither deletes, whatever legacy keys the level was applied to.
LevelDecidesEdits ==
  role # "ADMIN" /\ level # None =>
    /\ level = "withEditAccess" /\ (Allowed("GET") \/ Allowed("POST")) => Allowed("PUT")
    /\ level = "withoutEditAccess" /\ kind # "simple" =>
         (Allowed("PUT") => kind = "upsert" /\ Allowed("POST"))
    /\ kind # "simple" => ~Allowed("DELETE")

\* Asking for a branch shows no document that the list without it hides.
QueryNarrows ==
  \A query \in {Home, Elsewhere} : Shown(role, query) \subseteq Shown(role, None)
=============================================================================
