----------------------- MODULE MCSubscriptionPayments -----------------------
(* Instances of SubscriptionPayments for TLC.                              *)
EXTENDS SubscriptionPayments, TLC

CONSTANTS h1, h2, Starter, Growth

OneHandler == {h1}
TwoHandlers == {h1, h2}
OnePlan == {Starter}
MCPlanLimit == [p \in Plans |-> IF p = Starter THEN 1 ELSE 3]
Month == {1}
HandlerSymmetry == Permutations(Handlers)

\* How the organization began.
Seed == {"seed"}
Trial == {"trial"}
AnyOrigin == {"trial", "seed"}

\* Which endpoints an instance calls, and which outside events occur.
RaceOps == {"renew", "earn", "webhook", "verify"}
OverlapOps == {"renew", "verify"}
LiveOps == {"renew", "earn", "webhook", "reconcile"}
AllOps == {"renew", "addon", "link", "confirm", "webhook", "sync", "abandon", "reconcile",
           "verify", "markPaid", "patch", "convert", "suspend", "earn", "decline"}
=============================================================================
