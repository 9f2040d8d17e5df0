-------------------------- MODULE SubscriptionRules --------------------------
(***************************************************************************)
(* The pure rules of the subscription service: what a quote promises, how  *)
(* a term is normalised, when a paid period starts and ends, and what a    *)
(* settlement writes into the subscription row.  The stateful modules and  *)
(* the abstract ones share them.                                           *)
(*                                                                         *)
(* Time is counted in months and money in wallet points (1 point = Rs 1).  *)
(* Branches and user seats follow the same rules field by field, so one    *)
(* capacity stands for both.                                               *)
(***************************************************************************)
EXTENDS Integers

CONSTANTS
  Plans,        \* plan codes of the catalogue
  PlanLimit,    \* the capacity each plan includes
  Terms,        \* the terms on sale, in months
  DefaultTerm,  \* what an unknown term is normalised to
  Price,        \* taxable amount of a quote before wallet points
  NoOverride    \* null in OrganizationSubscription.max*Override

ASSUME RulesAssumption ==
  /\ Plans # {}
  /\ PlanLimit \in [Plans -> Nat]
  /\ Terms \subseteq Nat \ {0}
  /\ DefaultTerm \in Terms
  /\ Price \in Nat \ {0}
  /\ NoOverride \notin Nat

-----------------------------------------------------------------------------
(* Rows and breakdowns.                                                    *)

Subscription ==
  [status: {"TRIAL", "ACTIVE", "CANCELLED"},
   paymentStatus: {"PENDING", "PROCESSING", "PAID", "FAILED"},
   expiresAt: Nat, termMonths: Nat,
   planCode: Plans, limit: Nat, override: Nat \cup {NoOverride}]

\* A breakdown as it is stored behind the SUBSCRIPTION_PRICING: marker of a
\* payment's notes; NoPricing is what parsing returns for any other text.
RenewalPricing ==
  [kind: {"RENEWAL"}, termMonths: Terms, planCode: Plans,
   finalAllowed: Nat, points: 0..Price]
AddOnPricing == [kind: {"ADDON"}, finalAllowed: Nat, points: 0..Price]
NoPricing == [kind |-> "NONE"]
Pricing == RenewalPricing \cup AddOnPricing \cup {NoPricing}

isAddOnBreakdown(pricing) == pricing.kind = "ADDON"
PointsApplied(pricing) == IF pricing = NoPricing THEN 0 ELSE pricing.points

-----------------------------------------------------------------------------
normalizeTermMonths(t) == IF t \in Terms THEN t ELSE DefaultTerm

\* effectiveMaxBranches / effectiveMaxUsers: an override replaces the plan's limit.
effectiveMax(sub) == IF sub.override = NoOverride THEN sub.limit ELSE sub.override

\* resolveWalletPointsRedeem: whole points, no more than are there or owed.
RedeemablePoints(available) == {n \in 0..Price : n <= available}

\* A renewal's capacity is counted from the plan, never from the override in force.
calculateSubscriptionPricing(plan, term, extra, points) ==
  [kind |-> "RENEWAL", termMonths |-> term, planCode |-> plan,
   finalAllowed |-> PlanLimit[plan] + extra, points |-> points]

\* An add-on's capacity is counted from the effective cap when it is quoted.
calculateAddOnPricing(sub, extra, points) ==
  [kind |-> "ADDON", finalAllowed |-> effectiveMax(sub) + extra, points |-> points]

-----------------------------------------------------------------------------
(* Settlement of a payment against the subscription row it was read with.  *)

\* With a bug, first: a renewal before the end loses the rest of the term.
periodStartNow(sub, now) == now
periodStart(sub, now) == IF sub.expiresAt > now THEN sub.expiresAt ELSE now

settledTerm(sub, pricing) ==
  normalizeTermMonths(IF pricing = NoPricing THEN sub.termMonths ELSE pricing.termMonths)

periodEnd(sub, pricing, now) ==
  IF isAddOnBreakdown(pricing)
    THEN periodStart(sub, now)
    ELSE periodStart(sub, now) + settledTerm(sub, pricing)

\* The row a renewal writes: every field comes from the row that was read
\* before (seen) or from the breakdown, none from the row it overwrites.
RenewedSubscription(seen, pricing, end) ==
  [seen EXCEPT !.status = "ACTIVE", !.paymentStatus = "PAID",
               !.expiresAt = end,
               !.termMonths = settledTerm(seen, pricing),
               !.planCode = IF pricing = NoPricing THEN @ ELSE pricing.planCode,
               !.limit = IF pricing = NoPricing THEN @ ELSE PlanLimit[pricing.planCode],
               !.override = IF pricing = NoPricing THEN @ ELSE pricing.finalAllowed]

\* The row an add-on writes: capacity and status, the rest of the row stays.
AddOnSubscription(current, pricing) ==
  [current EXCEPT !.status = "ACTIVE", !.paymentStatus = "PAID",
                  !.override = pricing.finalAllowed]
=============================================================================
