------------------------------ MODULE PlanCatalog ------------------------------
(***************************************************************************)
(* The plans workshops are sold, kept in one JSON document of the platform *)
(* (PlatformSettings) that every change reads and writes back as a whole.  *)
(* A document of the older format holds only what differs from the         *)
(* built-in plans; the first write of any kind replaces it.                *)
(***************************************************************************)
EXTENDS Naturals

CONSTANTS
  Codes,         \* plan codes
  BuiltIn,       \* codes of DEFAULT_PLAN_CATALOG
  Organizations,
  Admins,        \* requests in progress
  None,
  MaxRequests    \* bound

VARIABLES
  payload,   \* PlatformSettings.payload
  sold,      \* OrganizationSubscription.planCode
  task,      \* the request of each admin, with what it has read
  overtaken, \* admins whose request has read what was written since
  waived,    \* codes sold without a look, or after an overtaken one
  requests   \* how many there were

vars == <<payload, sold, task, overtaken, waived, requests>>

-----------------------------------------------------------------------------
(* Plans and payloads.                                                     *)

Plan == [limit: 1..2, visible: BOOLEAN]
DefaultPlan == [limit |-> 2, visible |-> TRUE]
NewPlan == [limit |-> 1, visible |-> TRUE]

\* An override, or the body of a patch: what it leaves out is None.
Override == [limit: {None, 1, 2}, visible: {None, TRUE, FALSE}]
NoOverride == [limit |-> None, visible |-> None]
Overridden(plan, o) ==
  [limit |-> IF o.limit = None THEN plan.limit ELSE o.limit,
   visible |-> IF o.visible = None THEN plan.visible ELSE o.visible]

\* A catalog has None for a code without a plan, the payload None for no catalog.
Catalog == [Codes -> Plan \cup {None}]
DEFAULT_PLAN_CATALOG == [c \in Codes |-> IF c \in BuiltIn THEN DefaultPlan ELSE None]
NoOverrides == [c \in Codes |-> NoOverride]
Multipliers == [Codes -> {None, 1, 2}]
Payload == [catalog: Catalog \cup {None}, overrides: [Codes -> Override], multipliers: Multipliers]

PlanCatalogAssumption ==
  /\ BuiltIn \subseteq Codes /\ BuiltIn # {}
  /\ None \notin Codes /\ None \notin Nat /\ None \notin BOOLEAN
  /\ \A plan \in Plan : plan # None
  /\ \A catalog \in Catalog : catalog # None
  /\ MaxRequests \in Nat

\* An empty list of plans reads as none at all.
parsePlanCatalog(p) ==
  IF p.catalog = None \/ p.catalog = [c \in Codes |-> None] THEN DEFAULT_PLAN_CATALOG ELSE p.catalog

Resolved(catalog, overrides) ==
  [c \in Codes |->
     IF overrides[c] = NoOverride THEN catalog[c]
     ELSE Overridden(IF catalog[c] = None THEN NewPlan ELSE catalog[c], overrides[c])]
resolvePlanCatalog(p) == Resolved(parsePlanCatalog(p), p.overrides)

\* The multiplier of the environment, 1, holds where the payload has none.
Multiplier(p, c) == IF p.multipliers[c] = None THEN 1 ELSE p.multipliers[c]
Set(multipliers, c, m) == IF m = None THEN multipliers ELSE [multipliers EXCEPT ![c] = m]

Offered(p) == {c \in Codes : resolvePlanCatalog(p)[c] # None}
getPlanTemplate(p, c) == resolvePlanCatalog(p)[c]

-----------------------------------------------------------------------------
(* What each request makes of the payload it has read.                     *)

Written(p, catalog, multipliers) ==
  [catalog |-> catalog, overrides |-> NoOverrides, multipliers |-> multipliers]

createPlatformPlan(p, c, plan, m) ==
  Written(p, [resolvePlanCatalog(p) EXCEPT ![c] = plan],
          [p.multipliers EXCEPT ![c] = IF m = None THEN 1 ELSE m])
updatePlatformPlan(p, c, o, m) ==
  Written(p, [resolvePlanCatalog(p) EXCEPT ![c] = Overridden(@, o)], Set(p.multipliers, c, m))
deletePlatformPlan(p, c) ==
  Written(p, [resolvePlanCatalog(p) EXCEPT ![c] = None], [p.multipliers EXCEPT ![c] = None])
\* From PUT plans, and with nothing of plans in it from PUT settings.
updatePlatformSettings(p, overrides, c, m) ==
  Written(p, Resolved(resolvePlanCatalog(p), overrides), Set(p.multipliers, c, m))

-----------------------------------------------------------------------------
Task == [at: {"idle", "read", "count", "write"},
         call: {"create", "update", "delete", "put", "sell", "resave"},
         code: Codes \cup {None}, plan: Plan \cup {None}, override: Override,
         multiplier: {None, 1, 2}, organization: Organizations \cup {None},
         seen: Payload \cup {None}]
NoTask == [at |-> "idle", call |-> "put", code |-> None, plan |-> None, override |-> NoOverride,
           multiplier |-> None, organization |-> None, seen |-> None]

TypeOK ==
  /\ payload \in Payload
  /\ sold \in [Organizations -> Codes]
  /\ task \in [Admins -> Task]
  /\ overtaken \subseteq {t \in Admins : task[t].at \in {"count", "write"}}
  /\ waived \subseteq Codes
  /\ requests \in 0..MaxRequests

\* A payload of the older format, of any overrides a client could have sent.
Init ==
  /\ \E overrides \in [Codes -> {NoOverride, [NoOverride EXCEPT !.limit = 1],
                                 [NoOverride EXCEPT !.visible = FALSE]}] :
       payload = [catalog |-> None, overrides |-> overrides,
                  multipliers |-> [c \in Codes |-> None]]
  /\ sold \in [Organizations -> BuiltIn]
  /\ task = [t \in Admins |-> NoTask]
  /\ overtaken = {} /\ waived = {}
  /\ requests = 0

At(t, step) == task[t].at = step
Request(t) == At(t, "idle") /\ requests < MaxRequests /\ requests' = requests + 1
Begin(t, request) == task' = [task EXCEPT ![t] = request]
Return(t) == task' = [task EXCEPT ![t] = NoTask]

Called(call, c) == [NoTask EXCEPT !.at = "read", !.call = call, !.code = c]
UnchangedTables == UNCHANGED <<payload, sold, waived>>

-----------------------------------------------------------------------------
(* The requests, as they arrive.                                           *)

PostPlan(t, c, m) ==
  /\ Request(t)
  /\ \E plan \in {NewPlan, [NewPlan EXCEPT !.visible = FALSE]} :
       Begin(t, [Called("create", c) EXCEPT !.plan = plan, !.multiplier = m])
  /\ UnchangedTables /\ UNCHANGED overtaken

PatchPlan(t, c, o) ==
  /\ Request(t)
  /\ Begin(t, [Called("update", c) EXCEPT !.override = o])
  /\ UnchangedTables /\ UNCHANGED overtaken

DeletePlan(t, c) ==
  /\ Request(t)
  /\ Begin(t, Called("delete", c))
  /\ UnchangedTables /\ UNCHANGED overtaken

\* putPlatformPlans takes overrides of codes it knows on a first read, and a
\* multiplier of any; putPlatformSettingsHandler has neither.
PutPlans(t, c, o, m) ==
  /\ Request(t)
  /\ Begin(t, [Called("put", c) EXCEPT
                 !.override = IF c \in Offered(payload) THEN o ELSE NoOverride, !.multiplier = m])
  /\ UnchangedTables /\ UNCHANGED overtaken
PutSettings(t) ==
  /\ Request(t)
  /\ Begin(t, Called("put", None))
  /\ UnchangedTables /\ UNCHANGED overtaken

\* A workshop is provisioned, converted, patched or settled with a plan.
Sell(t, n, c) ==
  /\ Request(t)
  /\ Begin(t, [Called("sell", c) EXCEPT !.organization = n])
  /\ UnchangedTables /\ UNCHANGED overtaken

\* patchOrganizationSubscription with another field: it writes back the row.
Resave(t, n) ==
  /\ Request(t)
  /\ Begin(t, [Called("resave", sold[n]) EXCEPT !.at = "write", !.organization = n])
  /\ UnchangedTables /\ UNCHANGED overtaken

-----------------------------------------------------------------------------
(* The rest of a request: read, count, write.                              *)

Accepted(t) ==
  LET c == task[t].code IN
  CASE task[t].call = "create" -> c \notin Offered(payload)
    [] task[t].call \in {"update", "delete", "sell"} -> c \in Offered(payload)
    [] OTHER -> TRUE

\* An error answers at once; a payment keeps the plan its workshop has.
Read(t) ==
  /\ At(t, "read")
  /\ IF Accepted(t)
       THEN task' = [task EXCEPT ![t].seen = payload,
                                 ![t].at = IF task[t].call = "delete" THEN "count" ELSE "write"]
       ELSE Return(t)
  /\ UnchangedTables /\ UNCHANGED <<overtaken, requests>>

\* With a bug: nobody asks who has the plan.
AnyPlan(c) == FALSE
InUse(c) == \E n \in Organizations : sold[n] = c

Count(t) ==
  LET c == task[t].code IN
  /\ At(t, "count")
  /\ IF InUse(c) \/ Offered(task[t].seen) = {c}
       THEN Return(t) /\ overtaken' = overtaken \ {t}
       ELSE task' = [task EXCEPT ![t].at = "write"] /\ UNCHANGED overtaken
  /\ UnchangedTables /\ UNCHANGED requests

\* Who goes on with what this write replaces.
SeenPayload ==
  {t \in Admins : task[t].at \in {"count", "write"} /\ task[t].call # "resave"}
SeenSubscription(n) ==
  {t \in Admins : /\ At(t, "write")
                  /\ task[t].call = "delete" \/ (task[t].call = "resave" /\ task[t].organization = n)}

Missing == {sold[n] : n \in Organizations} \ Offered(payload)
\* Of the plans a write leaves missing, those it could not have known of.
Waive(codes) == waived' = Missing' \cap (waived \cup codes)
WaiveOf(t) == Waive(IF t \in overtaken THEN Codes ELSE {})

NewPayload(t) ==
  LET w == task[t] IN
  CASE w.call = "create" -> createPlatformPlan(w.seen, w.code, w.plan, w.multiplier)
    [] w.call = "update" -> updatePlatformPlan(w.seen, w.code, w.override, w.multiplier)
    [] w.call = "delete" -> deletePlatformPlan(w.seen, w.code)
    [] w.call = "put" -> updatePlatformSettings(
         w.seen, [c \in Codes |-> IF c = w.code THEN w.override ELSE NoOverride],
         w.code, w.multiplier)

WritePayload(t) ==
  /\ At(t, "write") /\ task[t].call \in {"create", "update", "delete", "put"}
  /\ payload' = NewPayload(t) /\ UNCHANGED sold
  /\ overtaken' = (overtaken \cup SeenPayload) \ {t}
  /\ WaiveOf(t)
  /\ Return(t)
  /\ UNCHANGED requests

WriteSubscription(t) ==
  /\ At(t, "write") /\ task[t].call \in {"sell", "resave"}
  /\ sold' = [sold EXCEPT ![task[t].organization] = task[t].code] /\ UNCHANGED payload
  /\ overtaken' = (overtaken \cup SeenSubscription(task[t].organization)) \ {t}
  /\ WaiveOf(t)
  /\ Return(t)
  /\ UNCHANGED requests

\* patchOrganizationSubscription with limits of its own does not look the plan
\* up, nor does ensureDefaultOrganization, for the plan STARTER.
Assign(n, c) ==
  /\ requests < MaxRequests /\ requests' = requests + 1
  /\ sold' = [sold EXCEPT ![n] = c] /\ UNCHANGED payload
  /\ overtaken' = overtaken \cup SeenSubscription(n)
  /\ Waive({c})
  /\ UNCHANGED task

Next ==
  \/ \E t \in Admins :
       \/ \E c \in Codes :
            \/ PostPlan(t, c, 2) \/ DeletePlan(t, c)
            \/ \E o \in {[NoOverride EXCEPT !.limit = 2], [NoOverride EXCEPT !.visible = TRUE]} :
                 PatchPlan(t, c, o)
            \/ PutPlans(t, c, [NoOverride EXCEPT !.visible = FALSE], 2)
       \/ PutSettings(t)
       \/ \E n \in Organizations : Resave(t, n) \/ \E c \in Codes : Sell(t, n, c)
       \/ Read(t) \/ Count(t) \/ WritePayload(t) \/ WriteSubscription(t)
  \/ \E n \in Organizations, c \in Codes : Assign(n, c)

Spec == Init /\ [][Next]_vars

-----------------------------------------------------------------------------
(* Properties.                                                             *)

\* "Legacy planOverrides are migrated into the catalog": whatever is stored, a
\* change of one plan is read back as that change of the plans there were and
\* nothing else, price included; and a plan that a workshop has is not deleted,
\* unless it was sold unseen or two requests overlapped (platform-settings.ts).
ChangesStand ==
  LET plans == resolvePlanCatalog(payload)
      Reads(p, catalog) == resolvePlanCatalog(p) = catalog
      PricedAs(p, c, m) == \A d \in Codes :
        Multiplier(p, d) = IF d = c THEN m ELSE Multiplier(payload, d)
  IN  /\ Missing \subseteq waived
      /\ Reads(updatePlatformSettings(payload, NoOverrides, None, None), plans)
      /\ \A c \in Offered(payload) :
           /\ Offered(payload) # {c} =>
                Reads(deletePlatformPlan(payload, c), [plans EXCEPT ![c] = None])
           /\ \A o \in Override :
                LET after == updatePlatformPlan(payload, c, o, 2) IN
                Reads(after, [plans EXCEPT ![c] = Overridden(@, o)]) /\ PricedAs(after, c, 2)
      /\ \A c \in Codes \ Offered(payload) : \A plan \in Plan :
           LET after == createPlatformPlan(payload, c, plan, None) IN
           Reads(after, [plans EXCEPT ![c] = plan]) /\ PricedAs(after, c, 1)
=============================================================================
