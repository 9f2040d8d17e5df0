--------------------- MODULE SubscriptionPaymentsProofs ---------------------
(***************************************************************************)
(* Safety of SubscriptionPayments for every number of handlers, payments,  *)
(* plans, terms and points.  BillNumbersGapless and DiscountsAreFunded     *)
(* are not inductive: what a handler has read may be stale when it writes. *)
(* Inv says what survives of it: which payment a handler works on, which   *)
(* breakdown it can have read, which bill numbers it can have counted, and *)
(* that points it relies on have left the wallet.                          *)
(*                                                                         *)
(* The proofs go in layers: the types of the helpers, one step per action  *)
(* for TypeOK, then the few ways in which an action changes the tables,    *)
(* what these ways preserve, and one step per action for the handlers.     *)
(*                                                                         *)
(* Where one request is served at a time, what it has read of the          *)
(* subscription is not stale, and no paid month is lost (TermsInv).        *)
(***************************************************************************)
EXTENDS SubscriptionPayments, FiniteSetTheorems, TLAPS

Working(h) == pc[h] \notin {"idle", "patch", "convert"}
HasRead(h) == pc[h] \in {"checkWallet", "redeem", "countBills", "settle", "fail", "credit"}

\* A working handler has a payment that exists; a request also its breakdown.
JobInv(h) ==
  /\ Working(h) => Mine(h) \in Payments /\ Exists(Mine(h))
  /\ pc[h] \in {"order", "subUpdate"} => quote[Mine(h)] # NoPricing
  /\ pc[h] \in {"link", "linkRow", "linkSub"} => quote[Mine(h)].kind = "RENEWAL"

\* The breakdown that was read is the one of the request, or none.
ReadInv(h) == HasRead(h) => SeenPricing(h) \in {quote[Mine(h)], NoPricing}

\* Past the wallet, the points are debited, or a bill will stop the handler.
FundedInv(h) ==
  pc[h] \in {"countBills", "settle"} =>
    \/ Billed(Mine(h))
    \/ PointsApplied(SeenPricing(h)) = 0
    \/ redeemed[Mine(h)] = PointsApplied(SeenPricing(h))

\* A number that was counted is at most the next one.
CountedInv(h) == pc[h] = "settle" => seen[h].number \in 1..nextBillNumber

HandlerInv(h) == JobInv(h) /\ ReadInv(h) /\ FundedInv(h) /\ CountedInv(h)
HandlersInv == \A h \in Handlers : HandlerInv(h)

\* Rows that were never inserted have no bill, no ledger row and no order.
UnusedInv ==
  \A p \in Payments : ~Exists(p) => ~Billed(p) /\ redeemed[p] = 0 /\ gateway[p].state = "none"

\* Notes hold the breakdown of the request or none, a ledger row its points.
NotesInv == \A p \in Payments : payment[p].notes \in {quote[p], NoPricing}
LedgerInv == \A p \in Payments : redeemed[p] \in {0, PointsApplied(quote[p])}

TablesInv ==
  /\ UnusedInv /\ NotesInv /\ LedgerInv /\ points >= 0
  /\ BillNumbersGapless /\ PaidIsBilled /\ DiscountsAreFunded

Inv == TypeOK /\ HandlersInv /\ TablesInv

-----------------------------------------------------------------------------
(* Types of the helpers.                                                   *)

LEMMA PricingType ==
  /\ NoPricing \in Pricing
  /\ \A plan \in Plans, term \in Terms, extra \in Nat, n \in 0..Price :
       calculateSubscriptionPricing(plan, term, extra, n) \in RenewalPricing
  /\ \A s \in Subscription, extra \in Nat, n \in 0..Price :
       calculateAddOnPricing(s, extra, n) \in AddOnPricing
  BY RulesAssumption DEF calculateSubscriptionPricing, calculateAddOnPricing,
     RenewalPricing, AddOnPricing, NoPricing, Pricing, effectiveMax, Subscription

LEMMA RenewalFields ==
  ASSUME NEW x \in Pricing, x.kind = "RENEWAL"
  PROVE  x \in RenewalPricing /\ x.planCode \in Plans /\ x.termMonths \in Nat
<1>1. x \in RenewalPricing BY DEF Pricing, AddOnPricing, NoPricing
<1> QED BY <1>1, RulesAssumption DEF RenewalPricing

LEMMA RowType ==
  /\ NoPayment \in Payment
  /\ \A s \in PaymentStatus, n \in Pricing, g \in {"none", "order", "plink"} :
       Row(s, n, g) \in Payment
  /\ \A r \in Payment : /\ r.status \in PaymentStatus /\ r.notes \in Pricing
                        /\ r.gatewayOrder \in {"none", "order", "plink"}
  BY PricingType DEF NoPayment, Payment, Row, PaymentStatus

LEMMA JobType ==
  /\ NoJob \in Job
  /\ \A p \in 0..MaxPayments, o \in {"PAID", "FAILED"}, n \in {"keep", "text", "quote"},
        v \in {"direct", "abandon", "reconcile"}, t \in Nat : JobOf(p, o, n, v, t) \in Job
  /\ \A j \in Job : /\ j.payment \in 0..MaxPayments /\ j.outcome \in {"PAID", "FAILED"}
                    /\ j.notes \in {"keep", "text", "quote"}
                    /\ j.via \in {"direct", "abandon", "reconcile"} /\ j.term \in Nat
  BY PaymentsAssumption DEF NoJob, Job, JobOf

LEMMA SubscriptionType ==
  /\ NoSubscription \in Subscription
  /\ \A plan \in Plans, n \in Nat : TrialSubscription(plan, n) \in Subscription
  /\ \A plan \in Plans : DefaultSubscription(plan) \in Subscription
  BY RulesAssumption DEF NoSubscription, AnyPlan, Subscription, TrialSubscription, DefaultSubscription

LEMMA PointsType ==
  ASSUME NEW pricing \in Pricing
  PROVE  PointsApplied(pricing) \in Nat
  BY RulesAssumption DEF PointsApplied, Pricing, RenewalPricing, AddOnPricing

LEMMA SettledType ==
  ASSUME NEW s \in Subscription, NEW pricing \in Pricing, NEW t \in Nat
  PROVE  /\ settledTerm(s, pricing) \in Nat
         /\ ~isAddOnBreakdown(pricing) => RenewedSubscription(s, pricing, t) \in Subscription
         /\ isAddOnBreakdown(pricing) => AddOnSubscription(s, pricing) \in Subscription
         /\ periodEnd(s, pricing, t) \in Nat
         /\ PointsApplied(pricing) \in Nat
<1>0. \A x \in Pricing : \/ x = NoPricing \/ x \in RenewalPricing \/ x \in AddOnPricing
  BY DEF Pricing
<1>1. settledTerm(s, pricing) \in Nat
  BY RulesAssumption DEF settledTerm, normalizeTermMonths
<1>2. periodEnd(s, pricing, t) \in Nat
  BY <1>1 DEF periodEnd, periodStart, Subscription
<1>3. PointsApplied(pricing) \in Nat
  BY <1>0, RulesAssumption DEF PointsApplied, RenewalPricing, AddOnPricing
<1>4. ASSUME ~isAddOnBreakdown(pricing) PROVE RenewedSubscription(s, pricing, t) \in Subscription
  <2>1. CASE pricing = NoPricing
    BY <1>1, <2>1 DEF RenewedSubscription, Subscription
  <2>2. CASE pricing # NoPricing
    <3>1. pricing \in RenewalPricing BY <1>0, <1>4, <2>2 DEF isAddOnBreakdown, AddOnPricing
    <3>2. pricing.planCode \in Plans /\ PlanLimit[pricing.planCode] \in Nat /\ pricing.finalAllowed \in Nat
      BY <3>1, RulesAssumption DEF RenewalPricing
    <3> QED BY <1>1, <2>2, <3>2 DEF RenewedSubscription, Subscription
  <2> QED BY <2>1, <2>2
<1>5. ASSUME isAddOnBreakdown(pricing) PROVE AddOnSubscription(s, pricing) \in Subscription
  <2>1. pricing \in AddOnPricing BY <1>0, <1>5 DEF isAddOnBreakdown, RenewalPricing, NoPricing
  <2>2. pricing.finalAllowed \in Nat BY <2>1 DEF AddOnPricing
  <2> QED BY <2>2 DEF AddOnSubscription, Subscription
<1> QED BY <1>1, <1>2, <1>3, <1>4, <1>5

LEMMA SeenType ==
  NothingSeen \in Seen
  BY SubscriptionType, RowType DEF NothingSeen, Seen

LEMMA InitType == Init => TypeOK
<1> SUFFICES ASSUME Init PROVE TypeOK OBVIOUS
<1>1. sub \in Subscription
  BY SubscriptionType DEF Init
<1>2. NoBill \in Bill /\ NoOrder \in GatewayOrder
  BY PricingType DEF NoBill, Bill, NoOrder, GatewayOrder
<1> QED BY <1>1, <1>2, PricingType, RowType, JobType, SeenType DEF Init, TypeOK, ProgramCounter

HandlersOK ==
  /\ pc \in [Handlers -> ProgramCounter]
  /\ job \in [Handlers -> Job]
  /\ seen \in [Handlers -> Seen]

LEMMA ControlType ==
  ASSUME TypeOK, NEW h \in Handlers
  PROVE  /\ \A c \in ProgramCounter, j \in Job : Begin(h, c, j) => HandlersOK'
         /\ \A c \in ProgramCounter : Goto(h, c) /\ UNCHANGED seen => HandlersOK'
         /\ Return(h) => HandlersOK'
         /\ Throw(h) => HandlersOK'
         /\ \A o \in {"PAID", "FAILED"}, n \in {"keep", "text", "quote"},
               v \in {"direct", "abandon", "reconcile"} : Verify(h, o, n, v) => HandlersOK'
<1>1. HandlersOK BY DEF TypeOK, HandlersOK
<1>2. Return(h) => HandlersOK'
  BY <1>1, JobType, SeenType DEF HandlersOK, Return, ProgramCounter
<1>3. Throw(h) => HandlersOK'
  BY <1>1, <1>2, SeenType DEF HandlersOK, Throw, Goto, ProgramCounter
<1>4. ASSUME NEW c \in ProgramCounter, NEW j \in Job, Begin(h, c, j) PROVE HandlersOK'
  BY <1>1, <1>4 DEF HandlersOK, Begin
<1>5. ASSUME NEW c \in ProgramCounter, Goto(h, c), UNCHANGED seen PROVE HandlersOK'
  BY <1>1, <1>5 DEF HandlersOK, Goto
<1>6. ASSUME NEW o \in {"PAID", "FAILED"}, NEW n \in {"keep", "text", "quote"},
             NEW v \in {"direct", "abandon", "reconcile"}, Verify(h, o, n, v)
      PROVE  HandlersOK'
  <2>1. JobOf(job[h].payment, o, n, v, job[h].term) \in Job
    BY <1>1, JobType DEF HandlersOK
  <2> QED BY <1>1, <1>6, <2>1 DEF HandlersOK, Verify, ProgramCounter
<1> QED BY <1>2, <1>3, <1>4, <1>5, <1>6

LEMMA RowStep ==
  ASSUME TypeOK, NEW p \in Payments, NEW n \in Pricing
  PROVE  /\ \A s \in PaymentStatus : SetStatus(p, s, n) => payment' \in [Payments -> Payment]
         /\ \A g \in {"none", "order", "plink"} : SetOrder(p, g, n) => payment' \in [Payments -> Payment]
<1>1. payment[p].status \in PaymentStatus /\ payment[p].gatewayOrder \in {"none", "order", "plink"}
  BY RowType DEF TypeOK
<1>2. ASSUME NEW s \in PaymentStatus, SetStatus(p, s, n) PROVE payment' \in [Payments -> Payment]
  <2>1. Row(s, n, payment[p].gatewayOrder) \in Payment BY <1>1, RowType
  <2> QED BY <1>2, <2>1 DEF TypeOK, SetStatus
<1>3. ASSUME NEW g \in {"none", "order", "plink"}, SetOrder(p, g, n) PROVE payment' \in [Payments -> Payment]
  <2>1. Row(payment[p].status, n, g) \in Payment BY <1>1, RowType
  <2> QED BY <1>3, <2>1 DEF TypeOK, SetOrder
<1> QED BY <1>2, <1>3

LEMMA InsertType ==
  ASSUME TypeOK, NEW p, NEW s \in PaymentStatus, NEW pricing \in Pricing,
         InsertPayment(p, s, pricing)
  PROVE  payment' \in [Payments -> Payment] /\ quote' \in [Payments -> Pricing]
  BY RowType DEF TypeOK, InsertPayment

LEMMA PaymentsFinite == IsFiniteSet(Payments) /\ IsFiniteSet(BilledPayments)
<1>1. MaxPayments \in Nat BY PaymentsAssumption
<1>2. IsFiniteSet(Payments) BY <1>1, FS_Interval DEF Payments
<1> QED BY <1>2, FS_Subset DEF BilledPayments

LEMMA CountType == nextBillNumber \in Nat
  BY PaymentsFinite, FS_CardinalityType DEF nextBillNumber

USE DEF PaymentStatus

LEMMA TypeStep == 
  ASSUME TypeOK, HandlersInv, Next PROVE TypeOK'
<1> USE DEF world, outside
<1>1. ASSUME NEW h \in Handlers, NEW p \in Payments, NEW mode, NEW pricing \in Pricing,
             InsertRequest(h, p, mode, pricing), Called
      PROVE  TypeOK'
  <2>1. payment' \in [Payments -> Payment] /\ quote' \in [Payments -> Pricing]
    BY <1>1, InsertType DEF InsertRequest, RequestStatus
  <2>2. PaymentJob(p) \in Job /\ VerifyJob(p, "PAID", "quote") \in Job
    BY JobType DEF PaymentJob, VerifyJob, Payments
  <2>3. HandlersOK'
    BY <1>1, <2>2, ControlType DEF InsertRequest, ProgramCounter
  <2> QED BY <1>1, <2>1, <2>3 DEF TypeOK, HandlersOK, InsertRequest, Called
<1>2. ASSUME NEW h \in Handlers, NEW p \in Payments, RequestRenewal(h, p) PROVE TypeOK'
  <2>1. PICK plan \in Plans, term \in Terms, extra \in 0..MaxExtra, n \in RedeemablePoints(points),
             mode \in {"wallet", "online", "manual"} :
               InsertRequest(h, p, mode, calculateSubscriptionPricing(plan, term, extra, n))
    BY <1>2 DEF RequestRenewal, RequestMode
  <2>2. calculateSubscriptionPricing(plan, term, extra, n) \in Pricing
    BY PricingType DEF RedeemablePoints, Pricing
  <2> QED BY <1>1, <1>2, <2>1, <2>2 DEF RequestRenewal, Call
<1>3. ASSUME NEW h \in Handlers, NEW p \in Payments, RequestAddOns(h, p) PROVE TypeOK'
  <2>1. PICK extra \in 1..MaxExtra, n \in RedeemablePoints(points),
             mode \in {"wallet", "online", "manual"} :
               InsertRequest(h, p, mode, calculateAddOnPricing(sub, extra, n))
    BY <1>3 DEF RequestAddOns, RequestMode
  <2>2. calculateAddOnPricing(sub, extra, n) \in Pricing
    BY PricingType DEF RedeemablePoints, Pricing, TypeOK
  <2> QED BY <1>1, <1>3, <2>1, <2>2 DEF RequestAddOns, Call
<1>4. ASSUME NEW h \in Handlers, CreateOrder(h) PROVE TypeOK'
  <2>1. Mine(h) \in Payments BY <1>4 DEF HandlersInv, HandlerInv, JobInv, Working, CreateOrder
  <2>2. payment' \in [Payments -> Payment]
    BY <1>4, <2>1, RowStep, RowType DEF CreateOrder, TypeOK
  <2>3. gateway' \in [Payments -> GatewayOrder]
    BY <1>4 DEF CreateOrder, TypeOK, GatewayOrder
  <2>4. HandlersOK' BY <1>4, ControlType DEF CreateOrder, ProgramCounter
  <2> QED BY <1>4, <2>2, <2>3, <2>4 DEF TypeOK, HandlersOK, CreateOrder
<1>5. ASSUME NEW h \in Handlers, CreateOrderFails(h) PROVE TypeOK'
  <2>1. Mine(h) \in Payments BY <1>5 DEF HandlersInv, HandlerInv, JobInv, Working, CreateOrderFails
  <2>2. payment' \in [Payments -> Payment]
    BY <1>5, <2>1, RowStep DEF CreateOrderFails, TypeOK
  <2>4. HandlersOK' BY <1>5, ControlType DEF CreateOrderFails, ProgramCounter
  <2> QED BY <1>5, <2>2, <2>4 DEF TypeOK, HandlersOK, CreateOrderFails
<1>6. ASSUME NEW h \in Handlers, FinishRequest(h) PROVE TypeOK'
  <2>1. Mine(h) \in Payments /\ quote[Mine(h)] # NoPricing BY <1>6 DEF HandlersInv, HandlerInv, JobInv, Working, FinishRequest
  <2>2. sub' \in Subscription
    <3>1. CASE isAddOnBreakdown(quote[Mine(h)]) BY <1>6, <3>1 DEF FinishRequest, TypeOK
    <3>2. CASE ~isAddOnBreakdown(quote[Mine(h)])
      <4>1. quote[Mine(h)].termMonths \in Nat
        BY <2>1, <3>2, RulesAssumption DEF TypeOK, Pricing, RenewalPricing, AddOnPricing, isAddOnBreakdown
      <4> QED BY <1>6, <3>2, <4>1 DEF FinishRequest, TypeOK, Subscription
    <3> QED BY <3>1, <3>2
  <2>3. gateway' \in [Payments -> GatewayOrder]
    BY <1>6 DEF FinishRequest, TypeOK, GatewayOrder
  <2>4. HandlersOK' BY <1>6, ControlType DEF FinishRequest
  <2> QED BY <1>6, <2>2, <2>3, <2>4 DEF TypeOK, HandlersOK, FinishRequest
<1>7. ASSUME NEW h \in Handlers, NEW p \in Payments, RequestPaymentLink(h, p) PROVE TypeOK'
  <2>1. payment' \in [Payments -> Payment] /\ quote' \in [Payments -> Pricing]
    <3>1. PICK plan \in Plans, term \in Terms, extra \in 0..MaxExtra :
            InsertPayment(p, "PROCESSING", calculateSubscriptionPricing(plan, term, extra, 0))
      BY <1>7 DEF RequestPaymentLink
    <3>2. calculateSubscriptionPricing(plan, term, extra, 0) \in Pricing
      BY PricingType, RulesAssumption DEF Pricing
    <3> QED BY <3>1, <3>2, InsertType
  <2>2. HandlersOK'
    <3>1. PaymentJob(p) \in Job BY JobType DEF PaymentJob, VerifyJob, Payments
    <3> QED BY <1>7, <3>1, ControlType DEF RequestPaymentLink, ProgramCounter
  <2> QED BY <1>7, <2>1, <2>2 DEF TypeOK, HandlersOK, RequestPaymentLink, Call, Called
<1>8. ASSUME NEW h \in Handlers, CreateLink(h) PROVE TypeOK'
  <2>1. gateway' \in [Payments -> GatewayOrder]
    BY <1>8 DEF CreateLink, TypeOK, GatewayOrder
  <2>2. HandlersOK' BY <1>8, ControlType DEF CreateLink, ProgramCounter
  <2> QED BY <1>8, <2>1, <2>2 DEF TypeOK, HandlersOK, CreateLink, table
<1>9. ASSUME NEW h \in Handlers, CreateLinkFails(h) \/ StoreLink(h) PROVE TypeOK'
  <2>1. Mine(h) \in Payments BY <1>9 DEF HandlersInv, HandlerInv, JobInv, Working, CreateLinkFails, StoreLink
  <2>2. payment' \in [Payments -> Payment]
    BY <1>9, <2>1, RowStep, PricingType DEF CreateLinkFails, StoreLink, AppendToNotes
  <2>3. HandlersOK' BY <1>9, ControlType DEF CreateLinkFails, StoreLink, ProgramCounter
  <2> QED BY <1>9, <2>2, <2>3 DEF TypeOK, HandlersOK, CreateLinkFails, StoreLink
<1>10. ASSUME NEW h \in Handlers, FinishLink(h) PROVE TypeOK'
  <2>1. Mine(h) \in Payments /\ quote[Mine(h)].kind = "RENEWAL"
    BY <1>10 DEF HandlersInv, HandlerInv, JobInv, Working, FinishLink
  <2>2. quote[Mine(h)].planCode \in Plans /\ quote[Mine(h)].termMonths \in Nat
    BY <2>1, RenewalFields DEF TypeOK
  <2>3. sub' \in Subscription BY <1>10, <2>2 DEF FinishLink, TypeOK, Subscription
  <2>4. HandlersOK' BY <1>10, ControlType DEF FinishLink
  <2> QED BY <1>10, <2>3, <2>4 DEF TypeOK, HandlersOK, FinishLink
<1>11. ASSUME NEW h \in Handlers, NEW p \in Payments,
              Confirm(h, p) \/ WebhookFailed(h, p) \/ Sync(h, p) \/ AdminVerify(h, p)
       PROVE  TypeOK'
  <2>1. \A o \in {"PAID", "FAILED"}, n \in {"keep", "text"} : VerifyJob(p, o, n) \in Job
    BY JobType DEF VerifyJob, Payments
  <2>2. \A v \in {"direct", "abandon", "reconcile"} : JobOf(p, "PAID", "keep", v, 0) \in Job
    BY JobType DEF Payments
  <2>3. HandlersOK'
    BY <1>11, <2>1, <2>2, ControlType DEF Confirm, WebhookFailed, Sync, AdminVerify, ProgramCounter
  <2> QED BY <1>11, <2>3
          DEF TypeOK, HandlersOK, Confirm, WebhookFailed, Sync, AdminVerify, table, Call, Called
<1>12. ASSUME NEW h \in Handlers, NEW p \in Payments, WebhookPaid(h, p) PROVE TypeOK'
  <2>1. VerifyJob(p, "PAID", "text") \in Job BY JobType DEF VerifyJob, Payments
  <2>2. HandlersOK' BY <1>12, <2>1, ControlType DEF WebhookPaid, ProgramCounter
  <2>3. payment' \in [Payments -> Payment] BY <1>12, RowStep, RowType DEF WebhookPaid, TypeOK
  <2> QED BY <1>12, <2>2, <2>3 DEF TypeOK, HandlersOK, WebhookPaid
<1>13. ASSUME NEW h \in Handlers, NEW p \in Payments, MarkPaid(h, p) PROVE TypeOK'
  <2>1. payment' \in [Payments -> Payment] /\ quote' \in [Payments -> Pricing]
    BY <1>13, InsertType, PricingType DEF MarkPaid, TypeOK
  <2>2. HandlersOK'
    <3>1. PICK term \in Terms \cup {0}, notes \in {"keep", "text"} :
            Begin(h, IF term = 0 THEN "readOrg" ELSE "markTerm", JobOf(p, "PAID", notes, "direct", term))
      BY <1>13 DEF MarkPaid
    <3>2. JobOf(p, "PAID", notes, "direct", term) \in Job
      BY JobType, RulesAssumption DEF Payments
    <3> QED BY <3>1, <3>2, ControlType DEF ProgramCounter
  <2> QED BY <1>13, <2>1, <2>2 DEF TypeOK, HandlersOK, MarkPaid, Call, Called
<1>14. ASSUME NEW h \in Handlers, MarkTerm(h) PROVE TypeOK'
  <2>1. sub' \in Subscription BY <1>14, JobType DEF MarkTerm, TypeOK, Subscription
  <2>2. HandlersOK' BY <1>14, ControlType DEF MarkTerm, ProgramCounter
  <2> QED BY <1>14, <2>1, <2>2 DEF TypeOK, HandlersOK, MarkTerm
<1>15. ASSUME NEW h \in Handlers,
              PollPaid(h) \/ PollFailed(h) \/ PollOpen(h) \/ StaleFail(h) \/ StaleKeep(h) \/ SettleAborts(h)
       PROVE  TypeOK'
  <2>1. job[h].via \in {"direct", "abandon", "reconcile"} BY JobType DEF TypeOK
  <2>2. HandlersOK'
    BY <1>15, <2>1, ControlType DEF PollPaid, PollFailed, PollOpen, StaleFail, StaleKeep, SettleAborts
  <2> QED BY <1>15, <2>2
          DEF TypeOK, HandlersOK, PollPaid, PollFailed, PollOpen, StaleFail, StaleKeep, SettleAborts, table
<1>16. ASSUME NEW h \in Handlers, VerifyReadOrg(h) PROVE TypeOK'
  <2>1. seen' \in [Handlers -> Seen] BY <1>16 DEF VerifyReadOrg, TypeOK, Seen
  <2>2. pc' \in [Handlers -> ProgramCounter] /\ job' \in [Handlers -> Job]
    BY <1>16 DEF VerifyReadOrg, TypeOK, Goto, ProgramCounter
  <2> QED BY <1>16, <2>1, <2>2 DEF TypeOK, VerifyReadOrg, table
<1>17. ASSUME NEW h \in Handlers, VerifyReadPayment(h) PROVE TypeOK'
  <2>1. payment[Mine(h)] \in Payment BY <1>17 DEF HandlersInv, HandlerInv, JobInv, Working, VerifyReadPayment, TypeOK
  <2>2. seen' \in [Handlers -> Seen] BY <1>17, <2>1 DEF VerifyReadPayment, TypeOK, Seen
  <2>3. pc' \in [Handlers -> ProgramCounter] /\ job' \in [Handlers -> Job]
    BY <1>17 DEF VerifyReadPayment, TypeOK, Goto, ProgramCounter, AfterRead
  <2> QED BY <1>17, <2>2, <2>3 DEF TypeOK, VerifyReadPayment, table
<1>18. ASSUME NEW h \in Handlers PROVE SeenPricing(h) \in Pricing /\ seen[h].sub \in Subscription
                                      /\ seen[h].number \in Nat /\ seen[h].end \in Nat
  BY RowType DEF TypeOK, Seen, SeenPricing
<1>19. ASSUME NEW h \in Handlers, CheckWallet(h) PROVE TypeOK'
  <2>1. HandlersOK' BY <1>19, ControlType DEF CheckWallet, ProgramCounter
  <2> QED BY <1>19, <2>1 DEF TypeOK, HandlersOK, CheckWallet, table
<1>20. ASSUME NEW h \in Handlers, Redeem(h) PROVE TypeOK'
  <2>1. HandlersOK' BY <1>20, ControlType DEF Redeem, ProgramCounter
  <2>2. PointsApplied(SeenPricing(h)) \in Nat BY <1>18, SettledType
  <2>3. points' \in Int /\ redeemed' \in [Payments -> Nat]
    BY <1>20, <2>2 DEF Redeem, TypeOK
  <2> QED BY <1>20, <2>1, <2>3 DEF TypeOK, HandlersOK, Redeem
<1>21. ASSUME NEW h \in Handlers, CountBills(h) PROVE TypeOK'
  <2>1. nextBillNumber \in Nat BY CountType
  <2>2. periodEnd(seen[h].sub, SeenPricing(h), now) \in Nat BY <1>18, SettledType DEF TypeOK
  <2>3. seen' \in [Handlers -> Seen] BY <1>21, <2>1, <2>2 DEF CountBills, TypeOK, Seen
  <2>4. pc' \in [Handlers -> ProgramCounter] /\ job' \in [Handlers -> Job]
    BY <1>21 DEF CountBills, TypeOK, Goto, ProgramCounter
  <2> QED BY <1>21, <2>3, <2>4 DEF TypeOK, CountBills, table
<1>22. ASSUME NEW h \in Handlers, Mine(h) \in Payments PROVE NotesAfter(h) \in Pricing
  <2>1. job[h].notes \in {"keep", "text", "quote"} BY JobType DEF TypeOK
  <2>2. quote[Mine(h)] \in Pricing BY <1>22 DEF TypeOK
  <2> QED BY <1>18, <2>1, <2>2, PricingType DEF NotesAfter, SeenPricing
<1>23. ASSUME NEW h \in Handlers, Settle(h) PROVE TypeOK'
  <2>1. Mine(h) \in Payments BY <1>23 DEF HandlersInv, HandlerInv, JobInv, Working, Settle
  <2>2. payment' \in [Payments -> Payment] BY <1>22, <1>23, <2>1, RowStep DEF Settle
  <2>3. sub' \in Subscription BY <1>18, <1>23, SettledType DEF Settle, TypeOK
  <2>4. bills' \in [Payments -> Bill] BY <1>18, <1>23 DEF Settle, TypeOK, Bill
  <2>5. HandlersOK' BY <1>23, ControlType DEF Settle, ProgramCounter
  <2> QED BY <1>23, <2>2, <2>3, <2>4, <2>5 DEF TypeOK, HandlersOK, Settle
<1>24. ASSUME NEW h \in Handlers, CreditReferrer(h) PROVE TypeOK'
  <2>1. Mine(h) \in Payments BY <1>24 DEF HandlersInv, HandlerInv, JobInv, Working, CreditReferrer
  <2>2. HandlersOK' BY <1>24, ControlType DEF CreditReferrer
  <2> QED BY <1>24, <2>1, <2>2 DEF TypeOK, HandlersOK, CreditReferrer
<1>25. ASSUME NEW h \in Handlers, FailPayment(h) PROVE TypeOK'
  <2>1. Mine(h) \in Payments BY <1>25 DEF HandlersInv, HandlerInv, JobInv, Working, FailPayment
  <2>2. payment' \in [Payments -> Payment] BY <1>22, <1>25, <2>1, RowStep DEF FailPayment
  <2>3. sub' \in Subscription BY <1>25 DEF FailPayment, TypeOK, Subscription
  <2>4. HandlersOK' BY <1>25, ControlType DEF FailPayment
  <2> QED BY <1>25, <2>2, <2>3, <2>4 DEF TypeOK, HandlersOK, FailPayment
<1>26. ASSUME NEW h \in Handlers, BeginPatch(h) \/ BeginConvert(h) PROVE TypeOK'
  <2>1. seen' \in [Handlers -> Seen]
    BY <1>26 DEF BeginPatch, BeginConvert, BeginAdmin, TypeOK, Seen
  <2> QED BY <1>26, <2>1
          DEF TypeOK, BeginPatch, BeginConvert, BeginAdmin, Call, Called, table, ProgramCounter
<1>27. ASSUME NEW h \in Handlers, Patch(h) PROVE TypeOK'
  <2>1. \A t \in Nat : normalizeTermMonths(t) \in Nat BY RulesAssumption DEF normalizeTermMonths
  <2>2. PICK end \in {seen[h].sub.expiresAt} \cup {now + term : term \in Terms} :
          sub' = [seen[h].sub EXCEPT !.expiresAt = end, !.termMonths = normalizeTermMonths(@)]
    BY <1>27 DEF Patch
  <2>3. end \in Nat BY <1>18, RulesAssumption DEF TypeOK, Subscription
  <2>4. sub' \in Subscription BY <1>18, <2>1, <2>2, <2>3 DEF Subscription
  <2>5. HandlersOK' BY <1>27, ControlType DEF Patch
  <2> QED BY <1>27, <2>4, <2>5 DEF TypeOK, HandlersOK, Patch
<1>28. ASSUME NEW h \in Handlers, Convert(h) PROVE TypeOK'
  <2>1. sub' \in Subscription
    <3>1. seen[h].sub.planCode \in Plans /\ PlanLimit[seen[h].sub.planCode] \in Nat
      BY <1>18, RulesAssumption DEF Subscription
    <3>2. \A term \in Terms : term \in Nat /\ now + term \in Nat BY RulesAssumption DEF TypeOK
    <3> QED BY <1>28, <3>1, <3>2 DEF Convert, TypeOK, Subscription
  <2>2. HandlersOK' BY <1>28, ControlType DEF Convert
  <2> QED BY <1>28, <2>1, <2>2 DEF TypeOK, HandlersOK, Convert
<1>29. ASSUME Suspend \/ Restore PROVE TypeOK'
  <2>1. sub' \in Subscription BY <1>29 DEF Suspend, Restore, TypeOK, Subscription
  <2>2. active' \in BOOLEAN BY <1>29, Zenon DEF Suspend, Restore
  <2> QED BY <1>29, <2>1, <2>2 DEF TypeOK, Suspend, Restore, handlers, Call, Called
<1>30. ASSUME EarnPoints \/ Tick PROVE TypeOK'
  BY <1>30 DEF TypeOK, EarnPoints, Tick, handlers, table
<1>31. ASSUME Crash PROVE TypeOK'
  BY <1>31, JobType, SeenType DEF TypeOK, Crash, table, ProgramCounter
<1>32. ASSUME NEW p \in Payments, AttemptFails(p) \/ Capture(p) \/ LinkExpires(p) PROVE TypeOK'
  <2>1. gateway' \in [Payments -> GatewayOrder]
    <3>1. gateway[p] \in GatewayOrder BY DEF TypeOK
    <3>2. /\ [gateway[p] EXCEPT !.tried = TRUE] \in GatewayOrder
          /\ \A s \in {"captured", "expired"} : [gateway[p] EXCEPT !.state = s] \in GatewayOrder
      BY <3>1 DEF GatewayOrder
    <3> QED BY <1>32, <3>2 DEF AttemptFails, Capture, LinkExpires, TypeOK
  <2> QED BY <1>32, <2>1
          DEF TypeOK, AttemptFails, Capture, LinkExpires, UnchangedButGateway, handlers, table
<1> QED
  BY <1>2, <1>3, <1>4, <1>5, <1>6, <1>7, <1>8, <1>9, <1>10, <1>11, <1>12, <1>13, <1>14, <1>15,
     <1>16, <1>17, <1>19, <1>20, <1>21, <1>23, <1>24, <1>25, <1>26, <1>27, <1>28, <1>29, <1>30,
     <1>31, <1>32 DEF Next, Request, Step, Environment
\* What verify writes into the notes is the breakdown of the request, or none.
LEMMA NotesAfterLemma ==
  ASSUME Inv, NEW h \in Handlers, HasRead(h)
  PROVE  NotesAfter(h) \in {quote[Mine(h)], NoPricing}
<1>1. job[h].notes \in {"keep", "text", "quote"} BY JobType DEF Inv, TypeOK
<1> QED BY <1>1 DEF NotesAfter, SeenPricing, Inv, HandlersInv, HandlerInv, ReadInv

-----------------------------------------------------------------------------
(* How a step changes the rows: not at all, by inserting a payment, by     *)
(* updating one without making it PAID, by a debit or by a settlement.     *)

Inserts ==
  /\ \E p \in Payments, s \in {"PENDING", "PROCESSING"}, n \in Pricing : InsertPayment(p, s, n)
  /\ UNCHANGED <<bills, redeemed, points>>

Updates ==
  /\ \E p \in Payments, r \in Payment :
       /\ Exists(p)
       /\ r.status # "NONE"
       /\ r.status = "PAID" => payment[p].status = "PAID"
       /\ r.notes \in {quote[p], NoPricing}
       /\ payment' = [payment EXCEPT ![p] = r]
  /\ UNCHANGED <<quote, bills, redeemed, points>>

KeepsRows == UNCHANGED <<payment, quote, bills, redeemed>> /\ points' >= points

RowsStep == KeepsRows \/ Inserts \/ Updates \/ \E h \in Handlers : Redeem(h) \/ Settle(h)

\* An order is only ever made for a payment that exists.
OrdersStep ==
  \A p \in Payments : gateway'[p].state # "none" => gateway[p].state # "none" \/ Exists(p)

LEMMA UpdateRow ==
  ASSUME Inv, NEW p \in Payments, Exists(p), NEW n \in {quote[p], NoPricing},
         UNCHANGED <<quote, bills, redeemed, points>>
  PROVE  /\ \A s \in {"PENDING", "PROCESSING", "FAILED"} : SetStatus(p, s, n) => Updates
         /\ \A g \in {"none", "order", "plink"} : SetOrder(p, g, n) => Updates
<1>1. n \in Pricing BY PricingType DEF Inv, TypeOK
<1>2. payment[p].status \in PaymentStatus /\ payment[p].gatewayOrder \in {"none", "order", "plink"}
  BY RowType DEF Inv, TypeOK
<1>3. ASSUME NEW s \in {"PENDING", "PROCESSING", "FAILED"}, SetStatus(p, s, n) PROVE Updates
  <2> DEFINE r == Row(s, n, payment[p].gatewayOrder)
  <2>1. r \in Payment BY <1>1, <1>2, RowType
  <2>2. r.status = s /\ r.notes = n BY DEF Row
  <2> HIDE DEF r
  <2>3. payment' = [payment EXCEPT ![p] = r] BY <1>3 DEF SetStatus, r
  <2> QED BY <2>1, <2>2, <2>3 DEF Updates
<1>4. ASSUME NEW g \in {"none", "order", "plink"}, SetOrder(p, g, n) PROVE Updates
  <2> DEFINE r == Row(payment[p].status, n, g)
  <2>1. r \in Payment BY <1>1, <1>2, RowType
  <2>2. r.status = payment[p].status /\ r.notes = n BY DEF Row
  <2> HIDE DEF r
  <2>3. payment' = [payment EXCEPT ![p] = r] BY <1>4 DEF SetOrder, r
  <2> QED BY <2>1, <2>2, <2>3 DEF Updates, Exists
<1> QED BY <1>3, <1>4

LEMMA RowsStepLemma ==
  ASSUME Inv, Next PROVE RowsStep /\ OrdersStep
<1> USE DEF RowsStep, world, outside, table
<1>0. points \in Int BY DEF Inv, TypeOK
<1>1. ASSUME NEW h \in Handlers, NEW p \in Payments, RequestRenewal(h, p) PROVE RowsStep /\ OrdersStep
  <2>1. PICK plan \in Plans, term \in Terms, extra \in 0..MaxExtra, n \in RedeemablePoints(points),
             mode \in {"wallet", "online", "manual"} :
               InsertRequest(h, p, mode, calculateSubscriptionPricing(plan, term, extra, n))
    BY <1>1 DEF RequestRenewal, RequestMode
  <2>2. calculateSubscriptionPricing(plan, term, extra, n) \in Pricing
    BY PricingType DEF RedeemablePoints, Pricing
  <2>3. Inserts BY <2>1, <2>2 DEF InsertRequest, RequestStatus, Inserts
  <2> QED BY <2>1, <2>3 DEF InsertRequest, OrdersStep
<1>2. ASSUME NEW h \in Handlers, NEW p \in Payments, RequestAddOns(h, p) PROVE RowsStep /\ OrdersStep
  <2>1. PICK extra \in 1..MaxExtra, n \in RedeemablePoints(points),
             mode \in {"wallet", "online", "manual"} :
               InsertRequest(h, p, mode, calculateAddOnPricing(sub, extra, n))
    BY <1>2 DEF RequestAddOns, RequestMode
  <2>2. calculateAddOnPricing(sub, extra, n) \in Pricing
    BY PricingType DEF RedeemablePoints, Pricing, Inv, TypeOK
  <2>3. Inserts BY <2>1, <2>2 DEF InsertRequest, RequestStatus, Inserts
  <2> QED BY <2>1, <2>3 DEF InsertRequest, OrdersStep
<1>3. ASSUME NEW h \in Handlers, NEW p \in Payments, RequestPaymentLink(h, p) PROVE RowsStep /\ OrdersStep
  <2>1. PICK plan \in Plans, term \in Terms, extra \in 0..MaxExtra :
          InsertPayment(p, "PROCESSING", calculateSubscriptionPricing(plan, term, extra, 0))
    BY <1>3 DEF RequestPaymentLink
  <2>2. calculateSubscriptionPricing(plan, term, extra, 0) \in Pricing
    BY PricingType, RulesAssumption DEF Pricing
  <2>3. Inserts BY <1>3, <2>1, <2>2 DEF RequestPaymentLink, Inserts
  <2> QED BY <1>3, <2>3 DEF RequestPaymentLink, OrdersStep
<1>4. ASSUME NEW h \in Handlers, CreateOrder(h) PROVE RowsStep /\ OrdersStep
  <2>1. Mine(h) \in Payments /\ Exists(Mine(h)) BY <1>4 DEF Inv, HandlersInv, HandlerInv, JobInv, Working, CreateOrder
  <2>2. Updates BY <1>4, <2>1, UpdateRow DEF CreateOrder, Inv, TablesInv, NotesInv
  <2>3. OrdersStep BY <1>4, <2>1 DEF OrdersStep, CreateOrder, Inv, TypeOK
  <2> QED BY <2>2, <2>3
<1>5. ASSUME NEW h \in Handlers, CreateOrderFails(h) \/ CreateLinkFails(h) \/ StoreLink(h)
      PROVE  RowsStep /\ OrdersStep
  <2>1. Mine(h) \in Payments /\ Exists(Mine(h))
    BY <1>5 DEF Inv, HandlersInv, HandlerInv, JobInv, Working, CreateOrderFails, CreateLinkFails, StoreLink
  <2>2. Updates BY <1>5, <2>1, UpdateRow DEF CreateOrderFails, CreateLinkFails, StoreLink, AppendToNotes
  <2> QED BY <1>5, <2>2 DEF CreateOrderFails, CreateLinkFails, StoreLink, OrdersStep
<1>6. ASSUME NEW h \in Handlers, FinishRequest(h) \/ CreateLink(h) PROVE RowsStep /\ OrdersStep
  <2>1. Mine(h) \in Payments /\ Exists(Mine(h))
    BY <1>6 DEF Inv, HandlersInv, HandlerInv, JobInv, Working, FinishRequest, CreateLink
  <2>2. KeepsRows BY <1>0, <1>6 DEF FinishRequest, CreateLink, KeepsRows
  <2>3. OrdersStep BY <1>6, <2>1 DEF OrdersStep, FinishRequest, CreateLink, Inv, TypeOK
  <2> QED BY <2>2, <2>3
<1>7. ASSUME NEW h \in Handlers, NEW p \in Payments, WebhookPaid(h, p) PROVE RowsStep /\ OrdersStep
  <2>1. Exists(p) BY <1>7 DEF WebhookPaid, Captured, Inv, TablesInv, UnusedInv
  <2>2. Updates BY <1>7, <2>1, UpdateRow DEF WebhookPaid, Inv, TablesInv, NotesInv
  <2> QED BY <1>7, <2>2 DEF WebhookPaid, OrdersStep
<1>8. ASSUME NEW h \in Handlers, NEW p \in Payments, MarkPaid(h, p) PROVE RowsStep /\ OrdersStep
  <2>1. CASE OpenPayment # {} BY <1>0, <1>8, <2>1 DEF MarkPaid, KeepsRows, OrdersStep
  <2>2. CASE OpenPayment = {}
    <3>1. Inserts BY <1>8, <2>2, PricingType DEF MarkPaid, Inserts
    <3> QED BY <1>8, <3>1 DEF MarkPaid, OrdersStep
  <2> QED BY <2>1, <2>2
<1>9. ASSUME NEW h \in Handlers, NEW p \in Payments,
             Confirm(h, p) \/ WebhookFailed(h, p) \/ Sync(h, p) \/ AdminVerify(h, p)
      PROVE  RowsStep /\ OrdersStep
  BY <1>0, <1>9 DEF Confirm, WebhookFailed, Sync, AdminVerify, KeepsRows, OrdersStep
<1>10. ASSUME NEW h \in Handlers,
              FinishLink(h) \/ MarkTerm(h) \/ PollPaid(h) \/ PollFailed(h) \/ PollOpen(h)
              \/ StaleFail(h) \/ StaleKeep(h) \/ VerifyReadOrg(h) \/ VerifyReadPayment(h)
              \/ CheckWallet(h) \/ CountBills(h) \/ SettleAborts(h) \/ CreditReferrer(h)
       PROVE  RowsStep /\ OrdersStep
  BY <1>0, <1>10
  DEF FinishLink, MarkTerm, PollPaid, PollFailed, PollOpen, StaleFail, StaleKeep, VerifyReadOrg,
      VerifyReadPayment, CheckWallet, CountBills, SettleAborts, CreditReferrer, KeepsRows, OrdersStep
<1>11. ASSUME NEW h \in Handlers,
              BeginPatch(h) \/ Patch(h) \/ BeginConvert(h) \/ Convert(h)
       PROVE  RowsStep /\ OrdersStep
  <2>1. UNCHANGED <<payment, quote, bills, redeemed, points, gateway>>
    BY <1>11 DEF BeginPatch, Patch, BeginConvert, Convert, BeginAdmin
  <2> QED BY <1>0, <2>1 DEF KeepsRows, OrdersStep
<1>12. ASSUME NEW h \in Handlers, Redeem(h) \/ Settle(h) PROVE RowsStep /\ OrdersStep
  BY <1>12 DEF Redeem, Settle, OrdersStep
<1>13. ASSUME NEW h \in Handlers, FailPayment(h) PROVE RowsStep /\ OrdersStep
  <2>1. Mine(h) \in Payments /\ Exists(Mine(h))
    BY <1>13 DEF Inv, HandlersInv, HandlerInv, JobInv, Working, FailPayment
  <2>2. NotesAfter(h) \in {quote[Mine(h)], NoPricing}
    BY <1>13, NotesAfterLemma DEF FailPayment, HasRead
  <2>3. Updates BY <1>13, <2>1, <2>2, UpdateRow DEF FailPayment
  <2> QED BY <1>13, <2>3 DEF FailPayment, OrdersStep
<1>14. ASSUME Suspend \/ Restore \/ EarnPoints \/ Tick \/ Crash PROVE RowsStep /\ OrdersStep
  <2>1. KeepsRows BY <1>0, <1>14 DEF Suspend, Restore, EarnPoints, Tick, Crash, KeepsRows
  <2>2. UNCHANGED gateway BY <1>14 DEF Suspend, Restore, EarnPoints, Tick, Crash
  <2> QED BY <2>1, <2>2 DEF OrdersStep
<1>15. ASSUME NEW p \in Payments, AttemptFails(p) \/ Capture(p) \/ LinkExpires(p)
       PROVE  RowsStep /\ OrdersStep
  <2>1. KeepsRows
    BY <1>0, <1>15 DEF AttemptFails, Capture, LinkExpires, UnchangedButGateway, KeepsRows
  <2>2. gateway[p].state # "none" BY <1>15 DEF AttemptFails, Capture, LinkExpires
  <2>3. \A q \in Payments : q # p => gateway'[q] = gateway[q]
    BY <1>15 DEF AttemptFails, Capture, LinkExpires, Inv, TypeOK
  <2> QED BY <2>1, <2>2, <2>3 DEF OrdersStep
<1> QED
  BY <1>1, <1>2, <1>3, <1>4, <1>5, <1>6, <1>7, <1>8, <1>9, <1>10, <1>11, <1>12, <1>13, <1>14,
     <1>15 DEF Next, Request, Step, Environment

-----------------------------------------------------------------------------
(* What every such change of the rows preserves.                           *)

\* Rows are only added: a payment keeps its request, a bill and a ledger row
\* stay as they are, and the next bill number never goes down.
RowsKept ==
  /\ \A p \in Payments : Exists(p) => Exists(p)' /\ quote'[p] = quote[p]
  /\ \A p \in Payments : Billed(p) => bills'[p] = bills[p]
  /\ \A p \in Payments : redeemed[p] # 0 => redeemed'[p] = redeemed[p]

LEMMA RowsKeptLemma ==
  ASSUME Inv, RowsStep PROVE RowsKept
<1> USE DEF Inv, TypeOK
<1>1. CASE KeepsRows BY <1>1 DEF KeepsRows, RowsKept, Exists, Billed
<1>2. CASE Inserts
  <2>1. PICK p \in Payments, s \in {"PENDING", "PROCESSING"}, n \in Pricing : InsertPayment(p, s, n)
    BY <1>2 DEF Inserts
  <2>2. Row(s, n, "none").status = s BY DEF Row
  <2>3. ~Exists(p) /\ payment'[p].status = s
        /\ \A q \in Payments \ {p} : payment'[q] = payment[q] /\ quote'[q] = quote[q]
    BY <2>1, <2>2 DEF InsertPayment
  <2> QED BY <1>2, <2>3 DEF Inserts, RowsKept, Exists
<1>3. CASE Updates BY <1>3 DEF Updates, RowsKept, Exists
<1>4. ASSUME NEW h \in Handlers, Redeem(h) PROVE RowsKept
  BY <1>4 DEF Redeem, RowsKept, Exists, RedeemRowFree
<1>5. ASSUME NEW h \in Handlers, Settle(h) PROVE RowsKept
  <2> DEFINE r == Row("PAID", NotesAfter(h), payment[Mine(h)].gatewayOrder)
  <2>1. r.status = "PAID" BY DEF Row
  <2> HIDE DEF r
  <2>2. payment' = [payment EXCEPT ![Mine(h)] = r] BY <1>5 DEF Settle, SetStatus, r
  <2>3. ~Billed(Mine(h)) BY <1>5 DEF Settle, BillAccepted
  <2> QED BY <1>5, <2>1, <2>2, <2>3 DEF Settle, RowsKept, Exists, Billed
<1> QED BY <1>1, <1>2, <1>3, <1>4, <1>5 DEF RowsStep

LEMMA NumbersGrow ==
  ASSUME TypeOK', RowsKept
  PROVE  /\ nextBillNumber \in Nat /\ nextBillNumber' \in Nat
         /\ nextBillNumber <= nextBillNumber'
<1>1. BilledPayments \subseteq BilledPayments'
  BY DEF RowsKept, BilledPayments, Billed
<1>2. IsFiniteSet(BilledPayments) /\ IsFiniteSet(BilledPayments') 
    BY PaymentsFinite, FS_Subset DEF BilledPayments
<1>3. Cardinality(BilledPayments) <= Cardinality(BilledPayments') BY <1>1, <1>2, FS_Subset
<1>4. Cardinality(BilledPayments) \in Nat /\ Cardinality(BilledPayments') \in Nat
  BY <1>2, FS_CardinalityType
<1> QED BY <1>3, <1>4 DEF nextBillNumber

\* What a handler relies on outlives the steps of everybody else.
LEMMA HandlerKept ==
  ASSUME Inv, TypeOK', RowsKept, NEW h \in Handlers,
         pc'[h] = pc[h], job'[h] = job[h], seen'[h] = seen[h]
  PROVE  HandlerInv(h)'
<1> USE DEF Inv, HandlersInv, HandlerInv
<1>1. JobInv(h)' BY DEF JobInv, RowsKept, Working, Mine
<1>2. ReadInv(h)' BY DEF JobInv, ReadInv, RowsKept, Working, HasRead, Mine, SeenPricing
<1>3. FundedInv(h)'
  <2> SUFFICES ASSUME pc[h] \in {"countBills", "settle"} PROVE FundedInv(h)' BY DEF FundedInv
  <2>1. Mine(h) \in Payments /\ Mine(h)' = Mine(h) /\ SeenPricing(h)' = SeenPricing(h)
    BY DEF JobInv, Working, Mine, SeenPricing
  <2>2. Billed(Mine(h)) => Billed(Mine(h))' BY <2>1 DEF RowsKept, Billed
  <2>3. redeemed[Mine(h)] = PointsApplied(SeenPricing(h)) /\ PointsApplied(SeenPricing(h)) # 0
          => redeemed'[Mine(h)] = PointsApplied(SeenPricing(h))
    BY <2>1 DEF RowsKept
  <2> QED BY <2>1, <2>2, <2>3 DEF FundedInv
<1>4. CountedInv(h)'
  <2>1. nextBillNumber \in Nat /\ nextBillNumber' \in Nat /\ nextBillNumber <= nextBillNumber'
    BY NumbersGrow
  <2>2. 1..nextBillNumber \subseteq 1..nextBillNumber' BY <2>1
  <2> QED BY <2>2 DEF CountedInv
<1> QED BY <1>1, <1>2, <1>3, <1>4

LEMMA SettleLemma ==
  ASSUME Inv, NEW h \in Handlers, Settle(h)
  PROVE  /\ Mine(h) \in Payments
         /\ ~Billed(Mine(h)) /\ bills'[Mine(h)].number # 0
         /\ seen[h].number = nextBillNumber
         /\ bills' = [bills EXCEPT ![Mine(h)] = [number |-> nextBillNumber,
                        periodEnd |-> seen[h].end, pricing |-> SeenPricing(h)]]
         /\ PointsApplied(SeenPricing(h)) \in {0, redeemed[Mine(h)]}
         /\ nextBillNumber' = nextBillNumber + 1
         /\ BilledPayments' = BilledPayments \cup {Mine(h)}
<1> DEFINE p == Mine(h)
<1>1. p \in Payments /\ Exists(p)
  BY DEF Inv, HandlersInv, HandlerInv, JobInv, Working, Settle
<1>2. ~Billed(p) /\ \A q \in Payments : bills[q].number # seen[h].number
  BY DEF Settle, BillAccepted
<1>3. nextBillNumber \in Nat /\ Cardinality(BilledPayments) \in Nat
  BY PaymentsFinite, FS_CardinalityType DEF nextBillNumber
<1>4. seen[h].number = nextBillNumber
  <2>1. seen[h].number \in 1..nextBillNumber BY DEF Inv, HandlersInv, HandlerInv, CountedInv, Settle
  <2>2. seen[h].number \notin 1..Cardinality(BilledPayments)
    BY <1>2 DEF Inv, TablesInv, BillNumbersGapless, BilledPayments
  <2> QED BY <1>3, <2>1, <2>2 DEF nextBillNumber
<1>5. bills' = [bills EXCEPT ![p] = [number |-> nextBillNumber,
                  periodEnd |-> seen[h].end, pricing |-> SeenPricing(h)]]
  BY <1>4 DEF Settle
<1>6. BilledPayments' = BilledPayments \cup {p} /\ bills'[p].number # 0
  <2>1. nextBillNumber # 0 BY <1>3 DEF nextBillNumber
  <2>2. \A q \in Payments : bills'[q].number = IF q = p THEN nextBillNumber ELSE bills[q].number
    BY <1>1, <1>5 DEF Inv, TypeOK
  <2> QED BY <1>1, <2>1, <2>2 DEF BilledPayments, Billed
<1>7. PointsApplied(SeenPricing(h)) \in {0, redeemed[p]}
  BY <1>2 DEF Inv, HandlersInv, HandlerInv, FundedInv, Settle
<1>8. Cardinality(BilledPayments') = Cardinality(BilledPayments) + 1
  <2>1. p \notin BilledPayments BY <1>2 DEF BilledPayments
  <2> QED BY <1>6, <2>1, PaymentsFinite, FS_AddElement
<1>9. nextBillNumber' = nextBillNumber + 1 BY <1>8 DEF nextBillNumber
<1> QED BY <1>1, <1>2, <1>4, <1>5, <1>6, <1>7, <1>9

LEMMA RedeemLemma ==
  ASSUME Inv, NEW h \in Handlers, Redeem(h)
  PROVE  /\ Mine(h) \in Payments /\ Exists(Mine(h))
         /\ PointsApplied(SeenPricing(h)) \in Nat
         /\ PointsApplied(SeenPricing(h)) \in {0, PointsApplied(quote[Mine(h)])}
         /\ \/ UNCHANGED <<points, redeemed>>
            \/ /\ redeemed[Mine(h)] = 0
               /\ PointsApplied(SeenPricing(h)) <= points
               /\ points' = points - PointsApplied(SeenPricing(h))
               /\ redeemed' = [redeemed EXCEPT ![Mine(h)] = PointsApplied(SeenPricing(h))]
<1>1. Mine(h) \in Payments /\ Exists(Mine(h))
  BY DEF Inv, HandlersInv, HandlerInv, JobInv, Working, Redeem
<1>2. SeenPricing(h) \in {quote[Mine(h)], NoPricing}
  BY DEF Inv, HandlersInv, HandlerInv, ReadInv, HasRead, Redeem
<1>3. PointsApplied(NoPricing) = 0 BY DEF PointsApplied
<1>4. PointsApplied(SeenPricing(h)) \in Nat
  <2>1. SeenPricing(h) \in Pricing BY <1>1, <1>2, PricingType DEF Inv, TypeOK
  <2> QED BY <2>1, PointsType
<1>5. \/ UNCHANGED <<points, redeemed>>
      \/ /\ redeemed[Mine(h)] = 0
         /\ PointsApplied(SeenPricing(h)) <= points
         /\ points' = points - PointsApplied(SeenPricing(h))
         /\ redeemed' = [redeemed EXCEPT ![Mine(h)] = PointsApplied(SeenPricing(h))]
  BY <1>4 DEF Redeem, WalletCovers, RedeemRowFree, Inv, TypeOK
<1> QED BY <1>1, <1>2, <1>3, <1>4, <1>5

LEMMA TablesStep ==
  ASSUME Inv, TypeOK', RowsStep, OrdersStep PROVE TablesInv'
<1> USE DEF Inv, TypeOK, TablesInv
<1>1. RowsKept BY RowsKeptLemma
<1>2. CASE KeepsRows
  <2>1. points' >= 0 BY <1>2 DEF KeepsRows
  <2>2. UnusedInv' BY <1>2 DEF KeepsRows, UnusedInv, Exists, Billed, OrdersStep
  <2>3. (NotesInv /\ LedgerInv /\ BillNumbersGapless /\ PaidIsBilled /\ DiscountsAreFunded)'
    BY <1>2 DEF KeepsRows, NotesInv, LedgerInv, BillNumbersGapless, PaidIsBilled, DiscountsAreFunded, BilledPayments, Billed
  <2> QED BY <2>1, <2>2, <2>3
<1>3. CASE Inserts
  <2>1. PICK p \in Payments, s \in {"PENDING", "PROCESSING"}, n \in Pricing : InsertPayment(p, s, n)
    BY <1>3 DEF Inserts
  <2>2. Row(s, n, "none").status = s /\ Row(s, n, "none").notes = n BY DEF Row
  <2>3. /\ ~Exists(p) /\ payment'[p].status = s /\ payment'[p].notes = n /\ quote'[p] = n
        /\ \A q \in Payments \ {p} : payment'[q] = payment[q] /\ quote'[q] = quote[q]
    BY <2>1, <2>2 DEF InsertPayment
  <2>4. UNCHANGED <<bills, redeemed, points>> BY <1>3 DEF Inserts
  <2>5. UnusedInv' BY <2>3, <2>4 DEF UnusedInv, Exists, Billed, OrdersStep
  <2>6. NotesInv' BY <2>3 DEF NotesInv
  <2>7. LedgerInv' BY <2>3, <2>4 DEF LedgerInv, UnusedInv
  <2>8. PaidIsBilled' BY <2>3, <2>4 DEF PaidIsBilled, Billed
  <2>9. BillNumbersGapless' /\ DiscountsAreFunded'
    BY <2>4 DEF BillNumbersGapless, DiscountsAreFunded, BilledPayments, Billed
  <2> QED BY <2>4, <2>5, <2>6, <2>7, <2>8, <2>9
<1>4. CASE Updates
  <2>1. UNCHANGED <<quote, bills, redeemed, points>> BY <1>4 DEF Updates
  <2>2. PICK p \in Payments, r \in Payment :
          /\ Exists(p) /\ r.status # "NONE" /\ (r.status = "PAID" => payment[p].status = "PAID")
          /\ r.notes \in {quote[p], NoPricing}
          /\ payment' = [payment EXCEPT ![p] = r]
    BY <1>4 DEF Updates
  <2>3. payment'[p] = r /\ \A q \in Payments \ {p} : payment'[q] = payment[q] BY <2>2
  <2>4. UnusedInv' BY <2>1, <2>2, <2>3 DEF UnusedInv, Exists, Billed, OrdersStep
  <2>5. NotesInv' BY <2>1, <2>2, <2>3 DEF NotesInv
  <2>6. PaidIsBilled' BY <2>1, <2>2, <2>3 DEF PaidIsBilled, Billed
  <2>7. (LedgerInv /\ BillNumbersGapless /\ DiscountsAreFunded)'
    BY <2>1 DEF LedgerInv, BillNumbersGapless, DiscountsAreFunded, BilledPayments, Billed
  <2> QED BY <2>1, <2>4, <2>5, <2>6, <2>7
<1>5. ASSUME NEW h \in Handlers, Redeem(h) PROVE TablesInv'
  <2>1. UNCHANGED <<payment, quote, bills, gateway>> BY <1>5 DEF Redeem, outside, world
  <2>2. Mine(h) \in Payments /\ Exists(Mine(h)) BY <1>5, RedeemLemma
  <2>3. points' >= 0 BY <1>5, RedeemLemma
  <2>4. LedgerInv' BY <1>5, <2>1, RedeemLemma DEF LedgerInv
  <2>5. UnusedInv' BY <1>5, <2>1, RedeemLemma DEF UnusedInv, Exists, Billed
  <2>6. DiscountsAreFunded'
    BY <1>1, <2>1 DEF DiscountsAreFunded, RowsKept, BilledPayments, Billed
  <2>7. (NotesInv /\ BillNumbersGapless /\ PaidIsBilled)'
    BY <2>1 DEF NotesInv, BillNumbersGapless, PaidIsBilled, BilledPayments, Billed
  <2> QED BY <2>3, <2>4, <2>5, <2>6, <2>7
<1>6. ASSUME NEW h \in Handlers, Settle(h) PROVE TablesInv'
  <2> DEFINE p == Mine(h)
             r == Row("PAID", NotesAfter(h), payment[p].gatewayOrder)
             b == [number |-> nextBillNumber, periodEnd |-> seen[h].end, pricing |-> SeenPricing(h)]
  <2>1. UNCHANGED <<quote, points, redeemed, gateway>> BY <1>6 DEF Settle, outside, world
  <2>2. p \in Payments /\ Exists(p) BY <1>6 DEF HandlersInv, HandlerInv, JobInv, Working, Settle
  <2>3. r.status = "PAID" /\ r.notes \in {quote[p], NoPricing}
    <3>1. NotesAfter(h) \in {quote[p], NoPricing} BY <1>6, NotesAfterLemma DEF Settle, HasRead
    <3> QED BY <3>1 DEF Row
  <2>4. b.number = nextBillNumber /\ b.pricing = SeenPricing(h) OBVIOUS
  <2> HIDE DEF p, r, b
  <2>5. payment'[p] = r /\ \A q \in Payments \ {p} : payment'[q] = payment[q]
    BY <1>6, <2>2 DEF Settle, SetStatus, r, p
  <2>6. bills'[p] = b /\ \A q \in Payments \ {p} : bills'[q] = bills[q]
    BY <1>6, <2>2, SettleLemma DEF b, p
  <2>7. bills'[p].number # 0 /\ BilledPayments' = BilledPayments \cup {p} /\ p \notin BilledPayments
    BY <1>6, SettleLemma DEF p, BilledPayments
  <2>8. UnusedInv' BY <2>1, <2>2, <2>3, <2>5, <2>6 DEF UnusedInv, Exists, Billed
  <2>9. NotesInv' BY <2>1, <2>3, <2>5 DEF NotesInv
  <2>10. PaidIsBilled' BY <2>5, <2>6, <2>7 DEF PaidIsBilled, Billed
  <2>11. DiscountsAreFunded'
    <3>1. PointsApplied(b.pricing) \in {0, redeemed[p]} BY <1>6, <2>4, SettleLemma DEF p
    <3> QED BY <2>1, <2>6, <2>7, <3>1 DEF DiscountsAreFunded, BilledPayments
  <2>12. BillNumbersGapless'
    <3> DEFINE n == Cardinality(BilledPayments)
    <3>1. n \in Nat /\ nextBillNumber = n + 1 /\ Cardinality(BilledPayments') = n + 1
      <4>1. n \in Nat BY PaymentsFinite, FS_CardinalityType
      <4>2. nextBillNumber = n + 1 /\ nextBillNumber' = Cardinality(BilledPayments') + 1
        BY DEF nextBillNumber
      <4>3. Cardinality(BilledPayments') \in Nat
        <5>1. BilledPayments' \subseteq Payments BY DEF BilledPayments
        <5> QED BY <5>1, PaymentsFinite, FS_Subset, FS_CardinalityType
      <4>4. nextBillNumber' = nextBillNumber + 1 BY <1>6, SettleLemma
      <4> HIDE DEF n
      <4> QED BY <4>1, <4>2, <4>3, <4>4
    <3>2. \A q \in BilledPayments : bills'[q] = bills[q] BY <2>6, <2>7 DEF BilledPayments
    <3>3. {bills'[q].number : q \in BilledPayments'} = {bills[q].number : q \in BilledPayments} \cup {n + 1}
      BY <2>4, <2>6, <2>7, <3>1, <3>2
    <3>4. {bills[q].number : q \in BilledPayments} = 1..n BY DEF BillNumbersGapless
    <3> HIDE DEF n
    <3>5. 1..(n + 1) = (1..n) \cup {n + 1} BY <3>1
    <3> QED BY <3>1, <3>3, <3>4, <3>5 DEF BillNumbersGapless
  <2> QED BY <2>1, <2>8, <2>9, <2>10, <2>11, <2>12 DEF LedgerInv
<1> QED BY <1>2, <1>3, <1>4, <1>5, <1>6 DEF RowsStep

-----------------------------------------------------------------------------
(* The handler that moves.                                                 *)

OnlyMoves(h) ==
  \A k \in Handlers \ {h} : pc'[k] = pc[k] /\ job'[k] = job[k] /\ seen'[k] = seen[k]

LEMMA OthersKept ==
  ASSUME Inv, TypeOK', RowsKept, NEW h \in Handlers, OnlyMoves(h), HandlerInv(h)'
  PROVE  HandlersInv'
  BY HandlerKept DEF OnlyMoves, HandlersInv

\* Before it has read anything, a handler only needs its payment.
EarlyCall == {"markTerm", "poll", "readOrg", "readPayment", "stale"}

LEMMA EarlyHandler ==
  ASSUME NEW h \in Handlers, pc'[h] \in EarlyCall, job'[h].payment \in Payments,
         payment'[job'[h].payment].status # "NONE"
  PROVE  HandlerInv(h)'
  BY DEF EarlyCall, HandlerInv, JobInv, ReadInv, FundedInv, CountedInv, HasRead, Mine, Exists

LEMMA RestingHandler ==
  ASSUME NEW h \in Handlers
  PROVE  /\ pc[h] \in {"idle", "patch", "convert"} => HandlerInv(h)
         /\ pc'[h] \in {"idle", "patch", "convert"} => HandlerInv(h)'
  BY DEF HandlerInv, JobInv, ReadInv, FundedInv, CountedInv, HasRead, Working

LEMMA Moves ==
  ASSUME TypeOK, NEW h \in Handlers
  PROVE  /\ \A c, j : Begin(h, c, j) => OnlyMoves(h) /\ pc'[h] = c /\ job'[h] = j
         /\ \A c : Goto(h, c) => pc'[h] = c /\ job' = job /\ (UNCHANGED seen => OnlyMoves(h))
         /\ Return(h) => OnlyMoves(h) /\ pc'[h] = "idle"
         /\ Throw(h) => OnlyMoves(h) /\ (pc'[h] = "idle" \/ (pc'[h] = "stale" /\ job' = job))
         /\ \A o, n, v : Verify(h, o, n, v) =>
              OnlyMoves(h) /\ pc'[h] = "readOrg" /\ job'[h].payment = job[h].payment
<1> USE DEF TypeOK, OnlyMoves
<1>1. ASSUME NEW c, NEW j, Begin(h, c, j) PROVE OnlyMoves(h) /\ pc'[h] = c /\ job'[h] = j
  BY <1>1 DEF Begin
<1>2. ASSUME NEW c, Goto(h, c)
      PROVE  pc'[h] = c /\ job' = job /\ (UNCHANGED seen => OnlyMoves(h))
  BY <1>2 DEF Goto
<1>3. Return(h) => OnlyMoves(h) /\ pc'[h] = "idle" BY DEF Return
<1>4. Throw(h) => OnlyMoves(h) /\ (pc'[h] = "idle" \/ (pc'[h] = "stale" /\ job' = job))
  BY <1>3 DEF Throw, Goto
<1>5. ASSUME NEW o, NEW n, NEW v, Verify(h, o, n, v)
      PROVE  OnlyMoves(h) /\ pc'[h] = "readOrg" /\ job'[h].payment = job[h].payment
  BY <1>5 DEF Verify, JobOf
<1> QED BY <1>1, <1>2, <1>3, <1>4, <1>5

\* Handlers that return, throw, or go to a call before they have read.
LEMMA PlainMove ==
  ASSUME Inv, TypeOK', RowsKept, NEW h \in Handlers, Working(h), OnlyMoves(h),
         \/ pc'[h] = "idle"
         \/ pc'[h] \in EarlyCall /\ job'[h].payment = job[h].payment
  PROVE  HandlersInv'
<1>1. Mine(h) \in Payments /\ Exists(Mine(h)) BY DEF Inv, HandlersInv, HandlerInv, JobInv
<1>2. payment'[Mine(h)].status # "NONE" BY <1>1 DEF RowsKept, Exists
<1>3. HandlerInv(h)' BY <1>1, <1>2, EarlyHandler, RestingHandler DEF Mine
<1> QED BY <1>3, OthersKept

\* A ledger row that is there holds what the breakdown that was read takes.
LEMMA DebitedIsFunded ==
  ASSUME Inv, NEW h \in Handlers, Working(h), HasRead(h), redeemed[Mine(h)] # 0,
         UNCHANGED redeemed, job' = job, UNCHANGED seen
  PROVE  FundedInv(h)'
<1>1. Mine(h) \in Payments /\ SeenPricing(h) \in {quote[Mine(h)], NoPricing}
  BY DEF Inv, HandlersInv, HandlerInv, JobInv, ReadInv
<1>2. redeemed[Mine(h)] = PointsApplied(quote[Mine(h)]) BY <1>1 DEF Inv, TablesInv, LedgerInv
<1>3. PointsApplied(NoPricing) = 0 BY DEF PointsApplied
<1>4. Mine(h)' = Mine(h) /\ SeenPricing(h)' = SeenPricing(h) BY DEF Mine, SeenPricing
<1> QED BY <1>1, <1>2, <1>3, <1>4 DEF FundedInv

LEMMA HandlersStep ==
  ASSUME Inv, Next, TypeOK', RowsKept PROVE HandlersInv'
<1> USE DEF Inv, TypeOK, EarlyCall
<1>0. ASSUME NEW h \in Handlers, HandlerInv(h)', OnlyMoves(h) PROVE HandlersInv'
  BY <1>0, OthersKept
<1>1. ASSUME NEW h \in Handlers, NEW p \in Payments, NEW mode, NEW pricing \in Pricing,
             pricing # NoPricing, InsertRequest(h, p, mode, pricing)
      PROVE  HandlersInv'
  <2>1. /\ OnlyMoves(h) /\ pc'[h] \in {"readOrg", "order", "subUpdate"}
        /\ job'[h] \in {VerifyJob(p, "PAID", "quote"), PaymentJob(p)}
    BY <1>1, Moves DEF InsertRequest
  <2>2. job'[h].payment = p BY <2>1 DEF VerifyJob, PaymentJob, JobOf
  <2>3. quote'[p] = pricing /\ payment'[p].status # "NONE"
    BY <1>1 DEF InsertRequest, RequestStatus, InsertPayment, Row
  <2>4. HandlerInv(h)'
    BY <1>1, <2>1, <2>2, <2>3
    DEF HandlerInv, JobInv, ReadInv, FundedInv, CountedInv, HasRead, Mine, Exists
  <2> QED BY <1>0, <2>1, <2>4
<1>2. ASSUME NEW h \in Handlers, NEW p \in Payments, RequestRenewal(h, p) PROVE HandlersInv'
  <2>1. PICK plan \in Plans, term \in Terms, extra \in 0..MaxExtra, n \in RedeemablePoints(points),
             mode \in {"wallet", "online", "manual"} :
               InsertRequest(h, p, mode, calculateSubscriptionPricing(plan, term, extra, n))
    BY <1>2 DEF RequestRenewal, RequestMode
  <2>2. /\ calculateSubscriptionPricing(plan, term, extra, n) \in Pricing
        /\ calculateSubscriptionPricing(plan, term, extra, n) # NoPricing
    BY PricingType DEF RedeemablePoints, Pricing, NoPricing, calculateSubscriptionPricing
  <2> QED BY <1>1, <2>1, <2>2
<1>3. ASSUME NEW h \in Handlers, NEW p \in Payments, RequestAddOns(h, p) PROVE HandlersInv'
  <2>1. PICK extra \in 1..MaxExtra, n \in RedeemablePoints(points),
             mode \in {"wallet", "online", "manual"} :
               InsertRequest(h, p, mode, calculateAddOnPricing(sub, extra, n))
    BY <1>3 DEF RequestAddOns, RequestMode
  <2>2. /\ calculateAddOnPricing(sub, extra, n) \in Pricing
        /\ calculateAddOnPricing(sub, extra, n) # NoPricing
    BY PricingType DEF RedeemablePoints, Pricing, NoPricing, calculateAddOnPricing
  <2> QED BY <1>1, <2>1, <2>2
<1>4. ASSUME NEW h \in Handlers, NEW p \in Payments, RequestPaymentLink(h, p) PROVE HandlersInv'
  <2>1. PICK plan \in Plans, term \in Terms, extra \in 0..MaxExtra :
          InsertPayment(p, "PROCESSING", calculateSubscriptionPricing(plan, term, extra, 0))
    BY <1>4 DEF RequestPaymentLink
  <2>2. quote'[p].kind = "RENEWAL" /\ payment'[p].status # "NONE"
    BY <2>1 DEF InsertPayment, Row, calculateSubscriptionPricing
  <2>3. OnlyMoves(h) /\ pc'[h] = "link" /\ job'[h] = PaymentJob(p)
    BY <1>4, Moves DEF RequestPaymentLink
  <2>4. job'[h].payment = p BY <2>3 DEF PaymentJob, VerifyJob, JobOf
  <2>5. HandlerInv(h)'
    BY <2>2, <2>3, <2>4 DEF HandlerInv, JobInv, ReadInv, FundedInv, CountedInv, HasRead, Mine, Exists
  <2> QED BY <1>0, <2>3, <2>5
<1>5. ASSUME NEW h \in Handlers, CreateOrder(h) \/ CreateOrderFails(h) \/ CreateLink(h) \/ StoreLink(h)
      PROVE  HandlersInv'
  <2>1. OnlyMoves(h) /\ job' = job
        /\ \/ pc[h] = "order" /\ pc'[h] = "subUpdate"
           \/ pc[h] \in {"link", "linkRow"} /\ pc'[h] \in {"linkRow", "linkSub"}
    BY <1>5, Moves DEF CreateOrder, CreateOrderFails, CreateLink, StoreLink
  <2>2. HandlerInv(h)'
    BY <2>1 DEF HandlersInv, HandlerInv, JobInv, ReadInv, FundedInv, CountedInv, Working, HasRead,
                Mine, RowsKept
  <2> QED BY <1>0, <2>1, <2>2
<1>6. ASSUME NEW h \in Handlers,
             FinishRequest(h) \/ CreateLinkFails(h) \/ FinishLink(h) \/ CreditReferrer(h) \/ FailPayment(h)
             \/ StaleKeep(h) \/ Patch(h) \/ Convert(h)
      PROVE  HandlersInv'
  <2>1. Return(h)
    BY <1>6 DEF FinishRequest, CreateLinkFails, FinishLink, CreditReferrer, FailPayment, StaleKeep,
                Patch, Convert
  <2> QED BY <1>0, <2>1, Moves, RestingHandler
<1>7. ASSUME NEW h \in Handlers, NEW p \in Payments,
             Confirm(h, p) \/ WebhookPaid(h, p) \/ WebhookFailed(h, p) \/ Sync(h, p)
             \/ AdminVerify(h, p) \/ MarkPaid(h, p)
      PROVE  HandlersInv'
  <2>1. payment'[p].status # "NONE"
    <3>1. CASE Exists(p) BY <3>1 DEF RowsKept, Exists
    <3>2. CASE ~Exists(p)
      <4>1. MarkPaid(h, p) /\ OpenPayment = {}
        BY <1>7, <3>2 DEF Confirm, WebhookPaid, WebhookFailed, Sync, AdminVerify, MarkPaid, Captured,
           Open, Exists, TablesInv, UnusedInv, OpenPayment, Latest
      <4> QED BY <4>1 DEF MarkPaid, InsertPayment, Row
    <3> QED BY <3>1, <3>2
  <2>2. OnlyMoves(h) /\ pc'[h] \in EarlyCall /\ job'[h].payment = p
    <3>1. PICK c, o, n, v, t : c \in EarlyCall /\ Begin(h, c, JobOf(p, o, n, v, t))
      BY <1>7 DEF Confirm, WebhookPaid, WebhookFailed, Sync, AdminVerify, MarkPaid, VerifyJob
    <3>2. JobOf(p, o, n, v, t).payment = p BY DEF JobOf
    <3> QED BY <3>1, <3>2, Moves
  <2> QED BY <1>0, <2>1, <2>2, EarlyHandler
<1>8. ASSUME NEW h \in Handlers,
             MarkTerm(h) \/ PollPaid(h) \/ PollFailed(h) \/ PollOpen(h) \/ StaleFail(h)
             \/ VerifyReadOrg(h) \/ SettleAborts(h)
      PROVE  HandlersInv'
  <2>1. Working(h)
    BY <1>8 DEF Working, MarkTerm, PollPaid, PollFailed, PollOpen, StaleFail, VerifyReadOrg, SettleAborts
  <2>2. OnlyMoves(h) /\ \/ pc'[h] = "idle"
                        \/ pc'[h] \in EarlyCall /\ job'[h].payment = job[h].payment
    <3>1. CASE VerifyReadOrg(h) BY <3>1 DEF VerifyReadOrg, Goto, OnlyMoves
    <3>2. CASE MarkTerm(h) BY <3>2, Moves DEF MarkTerm
    <3>3. CASE PollPaid(h) \/ PollFailed(h) \/ PollOpen(h) \/ StaleFail(h)
      BY <3>3, Moves DEF PollPaid, PollFailed, PollOpen, StaleFail
    <3>4. CASE SettleAborts(h) BY <3>4, Moves DEF SettleAborts
    <3> QED BY <1>8, <3>1, <3>2, <3>3, <3>4
  <2> QED BY <2>1, <2>2, PlainMove
<1>9. ASSUME NEW h \in Handlers, VerifyReadPayment(h) PROVE HandlersInv'
  <2> DEFINE p == Mine(h)
             row == payment[p]
  <2>1. p \in Payments /\ Exists(p)
    BY <1>9 DEF HandlersInv, HandlerInv, JobInv, Working, VerifyReadPayment
  <2>2. row.notes \in {quote[p], NoPricing} /\ row.notes \in Pricing
    BY <2>1, RowType DEF TablesInv, NotesInv
  <2>3. /\ pc'[h] = AfterRead(job[h].outcome, row) /\ job' = job /\ seen'[h].row = row
        /\ \A k \in Handlers \ {h} : pc'[k] = pc[k] /\ seen'[k] = seen[k]
    <3>1. pc'[h] = AfterRead(job[h].outcome, row) /\ job' = job BY <1>9, Moves DEF VerifyReadPayment
    <3>2. seen'[h].row = row BY <1>9 DEF VerifyReadPayment, Seen
    <3>3. \A k \in Handlers \ {h} : pc'[k] = pc[k] /\ seen'[k] = seen[k]
      BY <1>9 DEF VerifyReadPayment, Goto
    <3> QED BY <3>1, <3>2, <3>3
  <2>4. pc'[h] = "countBills" => Billed(p) \/ PointsApplied(row.notes) = 0
    <3>1. PointsApplied(row.notes) \in Nat BY <2>2, PointsType
    <3> QED BY <2>1, <2>3, <3>1 DEF AfterRead, TablesInv, PaidIsBilled
  <2>5. UNCHANGED <<payment, quote, bills, redeemed>> BY <1>9 DEF VerifyReadPayment, table
  <2>6. Mine(h)' = p /\ SeenPricing(h)' = row.notes BY <2>3 DEF Mine, SeenPricing
  <2>7. pc'[h] \in {"fail", "checkWallet", "countBills"} BY <2>3 DEF AfterRead
  <2> HIDE DEF p, row
  <2>8. HandlerInv(h)'
    BY <2>1, <2>2, <2>4, <2>5, <2>6, <2>7
    DEF HandlerInv, JobInv, ReadInv, FundedInv, CountedInv, Exists, Billed
  <2>9. OnlyMoves(h) BY <2>3 DEF OnlyMoves
  <2> QED BY <1>0, <2>8, <2>9
<1>10. ASSUME NEW h \in Handlers, Working(h), HasRead(h), OnlyMoves(h), job' = job, seen'[h].row = seen[h].row,
              pc'[h] \in {"redeem", "countBills", "credit"}, FundedInv(h)'
       PROVE  HandlersInv'
  <2>1. Mine(h) \in Payments /\ Exists(Mine(h)) /\ SeenPricing(h) \in {quote[Mine(h)], NoPricing}
    BY <1>10 DEF HandlersInv, HandlerInv, JobInv, ReadInv
  <2>2. Mine(h)' = Mine(h) /\ SeenPricing(h)' = SeenPricing(h) BY <1>10 DEF Mine, SeenPricing
  <2>3. Exists(Mine(h))' /\ quote'[Mine(h)] = quote[Mine(h)]
    BY <2>1, <2>2 DEF RowsKept, Exists
  <2>4. HandlerInv(h)'
    BY <1>10, <2>1, <2>2, <2>3 DEF HandlerInv, JobInv, ReadInv, CountedInv, HasRead
  <2> QED BY <1>0, <1>10, <2>4
<1>11. ASSUME NEW h \in Handlers, CheckWallet(h) PROVE HandlersInv'
  <2>1. CASE Throw(h)
    BY <1>11, <2>1, Moves, PlainMove DEF CheckWallet, Working
  <2>2. CASE Goto(h, "redeem") /\ UNCHANGED seen
    <3>1. OnlyMoves(h) /\ pc'[h] = "redeem" /\ job' = job BY <2>2, Moves
    <3> QED BY <1>10, <1>11, <2>2, <3>1 DEF CheckWallet, Working, HasRead, FundedInv
  <2>3. CASE redeemed[Mine(h)] # 0 /\ Goto(h, "countBills") /\ UNCHANGED seen
    <3>1. OnlyMoves(h) /\ pc'[h] = "countBills" /\ job' = job BY <2>3, Moves
    <3>2. UNCHANGED redeemed BY <1>11 DEF CheckWallet, table
    <3>3. FundedInv(h)' 
      BY <1>11, <2>3, <3>1, <3>2, DebitedIsFunded DEF CheckWallet, HasRead, Working
    <3> QED BY <1>10, <1>11, <2>3, <3>1, <3>3 DEF CheckWallet, Working, HasRead
  <2> QED BY <1>11, <2>1, <2>2, <2>3 DEF CheckWallet
<1>12. ASSUME NEW h \in Handlers, Redeem(h) PROVE HandlersInv'
  <2>1. CASE Throw(h)
    BY <1>12, <2>1, Moves, PlainMove DEF Redeem, Working
  <2>2. CASE Goto(h, "countBills") /\ UNCHANGED seen /\ ~Throw(h)
    <3>1. OnlyMoves(h) /\ pc'[h] = "countBills" /\ job' = job BY <2>2, Moves
    <3>2. FundedInv(h)'
      <4>1. CASE redeemed[Mine(h)] # 0 /\ UNCHANGED redeemed
        BY <1>12, <2>2, <3>1, <4>1, DebitedIsFunded DEF Redeem, HasRead, Working
      <4>2. CASE redeemed' = [redeemed EXCEPT ![Mine(h)] = PointsApplied(SeenPricing(h))]
        <5>1. redeemed'[Mine(h)] = PointsApplied(SeenPricing(h)) BY <1>12, <4>2, RedeemLemma
        <5>2. Mine(h)' = Mine(h) /\ SeenPricing(h)' = SeenPricing(h) BY <2>2, <3>1 DEF Mine, SeenPricing
        <5> QED BY <5>1, <5>2 DEF FundedInv
      <4> QED BY <1>12, <2>2, <4>1, <4>2 DEF Redeem, RedeemRowFree
    <3> QED BY <1>10, <1>12, <2>2, <3>1, <3>2 DEF Redeem, Working, HasRead
  <2> QED BY <1>12, <2>1, <2>2 DEF Redeem
<1>13. ASSUME NEW h \in Handlers, CountBills(h) PROVE HandlersInv'
  <2>1. pc'[h] = "settle" /\ job' = job BY <1>13, Moves DEF CountBills
  <2>2. seen'[h].row = seen[h].row /\ seen'[h].number = nextBillNumber BY <1>13 DEF CountBills, Seen
  <2>3. OnlyMoves(h) BY <1>13 DEF CountBills, Goto, OnlyMoves
  <2>4. UNCHANGED <<payment, quote, bills, redeemed>> /\ nextBillNumber' = nextBillNumber
    BY <1>13 DEF CountBills, table, nextBillNumber, BilledPayments, Billed
  <2>5. nextBillNumber \in 1..nextBillNumber
    <3>1. Cardinality(BilledPayments) \in Nat BY PaymentsFinite, FS_CardinalityType
    <3> QED BY <3>1 DEF nextBillNumber
  <2>6. Mine(h)' = Mine(h) /\ SeenPricing(h)' = SeenPricing(h) BY <2>1, <2>2 DEF Mine, SeenPricing
  <2>7. pc[h] = "countBills" BY <1>13 DEF CountBills
  <2>8. HandlerInv(h)'
    <3>1. HandlerInv(h) BY DEF HandlersInv
    <3>2. JobInv(h)' BY <2>1, <2>4, <2>6, <2>7, <3>1 DEF HandlerInv, JobInv, Working, Exists
    <3>3. ReadInv(h)' BY <2>4, <2>6, <2>7, <3>1 DEF HandlerInv, ReadInv, HasRead
    <3>4. FundedInv(h)' BY <2>4, <2>6, <2>7, <3>1 DEF HandlerInv, FundedInv, Billed
    <3>5. CountedInv(h)' BY <2>2, <2>4, <2>5 DEF CountedInv
    <3> QED BY <3>2, <3>3, <3>4, <3>5 DEF HandlerInv
  <2> QED BY <1>0, <2>3, <2>8
<1>14. ASSUME NEW h \in Handlers, Settle(h) PROVE HandlersInv'
  <2>1. CASE Return(h) BY <1>0, <2>1, Moves, RestingHandler
  <2>2. CASE Goto(h, "credit") /\ UNCHANGED seen
    <3>1. OnlyMoves(h) /\ pc'[h] = "credit" /\ job' = job BY <2>2, Moves
    <3> QED BY <1>10, <1>14, <2>2, <3>1 DEF Settle, Working, HasRead, FundedInv
  <2> QED BY <1>14, <2>1, <2>2 DEF Settle
<1>15. ASSUME NEW h \in Handlers, BeginPatch(h) \/ BeginConvert(h) PROVE HandlersInv'
  <2>1. OnlyMoves(h) /\ pc'[h] \in {"patch", "convert"}
    BY <1>15 DEF BeginPatch, BeginConvert, BeginAdmin, OnlyMoves
  <2> QED BY <1>0, <2>1, RestingHandler
<1>16. ASSUME UNCHANGED handlers PROVE HandlersInv'
  BY <1>16, HandlerKept DEF handlers, HandlersInv
<1>17. ASSUME Crash PROVE HandlersInv'
  BY <1>17, RestingHandler DEF Crash, HandlersInv
<1>18. ASSUME \/ Suspend \/ Restore \/ EarnPoints \/ Tick
              \/ \E p \in Payments : AttemptFails(p) \/ Capture(p) \/ LinkExpires(p)
       PROVE  HandlersInv'
  BY <1>16, <1>18
  DEF Suspend, Restore, EarnPoints, Tick, AttemptFails, Capture, LinkExpires, UnchangedButGateway
<1> QED
  BY <1>2, <1>3, <1>4, <1>5, <1>6, <1>7, <1>8, <1>9, <1>11, <1>12, <1>13, <1>14, <1>15,
     <1>17, <1>18 DEF Next, Request, Step, Environment

-----------------------------------------------------------------------------
(* The theorems.                                                           *)

LEMMA InitInv == Init => Inv
<1> SUFFICES ASSUME Init PROVE Inv OBVIOUS
<1>1. TypeOK BY InitType
<1>2. HandlersInv
  BY RestingHandler DEF Init, HandlersInv
<1>3. \A p \in Payments : /\ payment[p] = NoPayment /\ quote[p] = NoPricing /\ ~Billed(p)
                          /\ redeemed[p] = 0 /\ gateway[p].state = "none"
  BY DEF Init, Billed, NoBill, NoOrder
<1>4. NoPayment.status = "NONE" /\ NoPayment.notes = NoPricing BY DEF NoPayment, Row
<1>5. BilledPayments = {} BY <1>3 DEF BilledPayments
<1>6. BillNumbersGapless
  <2>1. Cardinality(BilledPayments) = 0 BY <1>5, FS_EmptySet
  <2> QED BY <1>5, <2>1 DEF BillNumbersGapless
<1>7. points >= 0 BY DEF Init
<1>8. UnusedInv /\ NotesInv /\ LedgerInv BY <1>3, <1>4 DEF UnusedInv, NotesInv, LedgerInv
<1>9. PaidIsBilled /\ DiscountsAreFunded BY <1>3, <1>4, <1>5 DEF PaidIsBilled, DiscountsAreFunded
<1> QED BY <1>1, <1>2, <1>6, <1>7, <1>8, <1>9 DEF Inv, TablesInv

LEMMA StepInv == Inv /\ [Next]_vars => Inv'
<1> SUFFICES ASSUME Inv, [Next]_vars PROVE Inv' OBVIOUS
<1>1. CASE Next
  <2>1. TypeOK' BY <1>1, TypeStep DEF Inv
  <2>2. RowsStep /\ OrdersStep BY <1>1, RowsStepLemma
  <2>3. TablesInv' BY <2>1, <2>2, TablesStep
  <2>4. HandlersInv' BY <1>1, <2>1, <2>2, RowsKeptLemma, HandlersStep
  <2> QED BY <2>1, <2>3, <2>4 DEF Inv
<1>2. CASE UNCHANGED vars
  <2>1. UNCHANGED <<table, gateway, now, crashes, requests, pc, job, seen>>
    BY <1>2 DEF vars, outside, world, handlers
  <2>2. TypeOK' BY <2>1 DEF Inv, TypeOK, table
  <2>3. RowsStep /\ OrdersStep BY <2>1 DEF Inv, TypeOK, table, RowsStep, KeepsRows, OrdersStep
  <2>4. TablesInv' BY <2>2, <2>3, TablesStep
  <2>5. HandlersInv' BY <2>1, <2>2, <2>3, RowsKeptLemma, HandlerKept DEF HandlersInv
  <2> QED BY <2>2, <2>4, <2>5 DEF Inv
<1> QED BY <1>1, <1>2

\* The strengthened invariant: it holds at every point of every interleaving
\* of any number of handlers, restarts and gateway events.
THEOREM Invariance == Spec => []Inv
  BY InitInv, StepInv, PTL DEF Spec

\* Every row, job and row read keeps its type (all handlers of
\* organization-subscription.service.ts).
THEOREM TypeCorrect == Spec => []TypeOK
  BY Invariance, PTL DEF Inv

\* Bills of an organization are numbered 1, 2, 3, ... without gap or repetition
\* although nextBillNumber counts outside the settlement transaction.
THEOREM GaplessNumbers == Spec => []BillNumbersGapless
<1>1. Inv => BillNumbersGapless BY DEF Inv, TablesInv
<1> QED BY <1>1, Invariance, PTL

\* Whoever settles, retries or crashes: a PAID payment has its bill.
THEOREM PaymentsBilled == Spec => []PaidIsBilled
<1>1. Inv => PaidIsBilled BY DEF Inv, TablesInv
<1> QED BY <1>1, Invariance, PTL

\* A bill that takes points off its price was preceded by their debit.
THEOREM DiscountsFunded == Spec => []DiscountsAreFunded
<1>1. Inv => DiscountsAreFunded BY DEF Inv, TablesInv
<1> QED BY <1>1, Invariance, PTL

-----------------------------------------------------------------------------
(* Refinement.                                                             *)

\* Nobody else touches the wallet or the bills.
LEMMA LedgerTouched ==
  ASSUME Next
  PROVE  \/ EarnPoints
         \/ \E h \in Handlers : Redeem(h) \/ Settle(h)
         \/ UNCHANGED <<points, redeemed, bills, earned>>
<1> USE DEF table
<1>1. ASSUME NEW h \in Handlers, Request(h) PROVE UNCHANGED <<points, redeemed, bills, earned>>
  BY <1>1 DEF Request, RequestRenewal, RequestAddOns, InsertRequest, RequestPaymentLink, Confirm, Sync,
              AdminVerify, MarkPaid, WebhookPaid, WebhookFailed, BeginPatch, BeginConvert, BeginAdmin
<1>2. ASSUME NEW h \in Handlers, Step(h)
      PROVE  UNCHANGED <<points, redeemed, bills, earned>> \/ Redeem(h) \/ Settle(h)
  BY <1>2 DEF Step, CreateOrder, CreateOrderFails, FinishRequest, CreateLink, CreateLinkFails, StoreLink,
              FinishLink, MarkTerm, PollPaid, PollFailed, PollOpen, StaleFail, StaleKeep, VerifyReadOrg,
              VerifyReadPayment, CheckWallet, CountBills, SettleAborts, CreditReferrer, FailPayment,
              Patch, Convert
<1>3. ASSUME Suspend \/ Restore \/ Environment PROVE UNCHANGED <<points, redeemed, bills, earned>> \/ EarnPoints
  BY <1>3 DEF Suspend, Restore, Environment, Tick, Crash, AttemptFails, Capture, LinkExpires,
              UnchangedButGateway
<1> QED BY <1>1, <1>2, <1>3 DEF Next

\* The service implements the ledger: a debit is a Debit, a settlement an
\* Issue, points earned are an Earn, and everything else leaves it alone.
Numbers == [p \in Payments |-> bills[p].number]
Discounts == [p \in Payments |-> PointsApplied(bills[p].pricing)]

LEMMA LedgerInit == Init => Ledger!Init
<1> SUFFICES ASSUME Init PROVE Ledger!Init OBVIOUS
<1>1. Cardinality(BilledPayments) = 0
  <2>1. BilledPayments = {} BY DEF Init, BilledPayments, Billed, NoBill
  <2> QED BY <2>1, FS_EmptySet
<1>2. NoBill.number = 0 /\ PointsApplied(NoBill.pricing) = 0 BY DEF NoBill, PointsApplied
<1>3. \A p \in Payments : bills[p] = NoBill BY DEF Init
<1> QED BY <1>1, <1>2, <1>3 DEF Init, Ledger!Init

LEMMA LedgerStep == Inv /\ [Next]_vars => [Ledger!Next]_(Ledger!vars)
<1> SUFFICES ASSUME Inv, [Next]_vars PROVE Ledger!Next \/ UNCHANGED Ledger!vars OBVIOUS
<1> USE DEF Inv, TypeOK
<1>1. ASSUME NEW h \in Handlers, Settle(h) PROVE Ledger!Next
  <2> DEFINE p == Mine(h)
             n == PointsApplied(SeenPricing(h))
  <2>1. p \in Payments /\ bills[p].number = 0 /\ n \in {0, redeemed[p]}
    BY <1>1, SettleLemma DEF Billed
  <2>2. Cardinality(BilledPayments) \in Nat /\ Cardinality(BilledPayments') \in Nat
    <3>1. BilledPayments' \subseteq Payments BY DEF BilledPayments
    <3> QED BY <3>1, PaymentsFinite, FS_Subset, FS_CardinalityType
  <2>3. /\ nextBillNumber = Cardinality(BilledPayments) + 1
        /\ Cardinality(BilledPayments') = Cardinality(BilledPayments) + 1
    BY <1>1, <2>2, SettleLemma DEF nextBillNumber
  <2>4. \A q \in Payments :
          /\ bills'[q].number = IF q = p THEN nextBillNumber ELSE bills[q].number
          /\ bills'[q].pricing = IF q = p THEN SeenPricing(h) ELSE bills[q].pricing
    BY <1>1, <2>1, SettleLemma
  <2>5. Numbers' = [Numbers EXCEPT ![p] = nextBillNumber]
    BY <2>1, <2>4 DEF Numbers
  <2>6. Discounts' = [Discounts EXCEPT ![p] = n]
    BY <2>1, <2>4 DEF Discounts
  <2>7. UNCHANGED <<points, redeemed>> BY <1>1 DEF Settle
  <2> HIDE DEF p, n
  <2>8. PICK q \in Payments, m \in {0, redeemed[p]} : q = p /\ m = n BY <2>1
  <2>9. Ledger!Issue(q, m)
    BY <2>1, <2>3, <2>5, <2>6, <2>7, <2>8 DEF Ledger!Issue, Numbers, Discounts
  <2>10. m \in {0, redeemed[q]} BY <2>8
  <2> QED BY <2>9, <2>10 DEF Ledger!Next
<1>2. ASSUME NEW h \in Handlers, Redeem(h) PROVE Ledger!Next \/ UNCHANGED Ledger!vars
  <2> DEFINE p == Mine(h)
             n == PointsApplied(SeenPricing(h))
  <2>1. p \in Payments /\ n \in Nat BY <1>2, RedeemLemma
  <2>2. UNCHANGED bills /\ BilledPayments' = BilledPayments
    BY <1>2 DEF Redeem, BilledPayments, Billed
  <2>3. CASE UNCHANGED <<points, redeemed>> BY <2>2, <2>3 DEF Ledger!vars
  <2>4. CASE ~UNCHANGED <<points, redeemed>>
    <3>1. /\ redeemed[p] = 0 /\ n <= points /\ points' = points - n
          /\ redeemed' = [redeemed EXCEPT ![p] = n]
      BY <1>2, <2>4, RedeemLemma
    <3>2. n # 0 BY <2>1, <2>4, <3>1
    <3> HIDE DEF p, n
    <3>3. n \in 1..points BY <2>1, <3>1, <3>2
    <3>4. Ledger!Debit(p, n) BY <2>2, <3>1, <3>3 DEF Ledger!Debit
    <3> QED BY <2>1, <3>3, <3>4 DEF Ledger!Next
  <2> QED BY <2>3, <2>4
<1>3. CASE EarnPoints
  <2>1. Ledger!Earn BY <1>3 DEF EarnPoints, Ledger!Earn, BilledPayments, Billed
  <2> QED BY <2>1 DEF Ledger!Next
<1>4. ASSUME UNCHANGED <<points, redeemed, bills, earned>> PROVE UNCHANGED Ledger!vars
  BY <1>4 DEF Ledger!vars, BilledPayments, Billed
<1>5. CASE UNCHANGED vars BY <1>4, <1>5 DEF vars, table
<1>6. CASE Next
  <2>1. \/ EarnPoints
        \/ \E h \in Handlers : Redeem(h) \/ Settle(h)
        \/ UNCHANGED <<points, redeemed, bills, earned>>
    BY <1>6, LedgerTouched
  <2> QED BY <1>1, <1>2, <1>3, <1>4, <2>1
<1> QED BY <1>5, <1>6

\* The service implements BillingLedger, for every number of handlers.
THEOREM Refinement == Spec => ImplementsLedger
<1>1. Init => Ledger!Init BY LedgerInit
<1>2. Inv /\ [Next]_vars => [Ledger!Next]_(Ledger!vars) BY LedgerStep
<1> QED BY <1>1, <1>2, Invariance, PTL DEF Spec, ImplementsLedger, Ledger!Spec

-----------------------------------------------------------------------------
(* Sums over payments.  The library's induction theorems take an operator, *)
(* which no installed prover can give them; its theorem on well-founded    *)
(* relations takes sets, and that will do.                                 *)

\* A nonempty set of numbers has a least one.
LEMMA Least ==
  ASSUME NEW S, S \subseteq Nat, S # {}
  PROVE  \E n \in S : \A m \in S : n <= m
<1> DEFINE R == {ss \in Nat \X Nat : ss[1] < ss[2]}
<1>1. IsWellFoundedOn(R, Nat)
  BY NatLessThanWellFounded DEF OpToRel
<1> HIDE DEF R
<1>2. PICK n \in S : \A m \in S : ~(<<m, n>> \in R)
  BY <1>1, WFMin
<1>3. ASSUME NEW m \in S PROVE n <= m
  <2>1. m \in Nat /\ n \in Nat
    OBVIOUS
  <2>2. ~(m < n)
    BY <1>2, <2>1 DEF R
  <2> QED
    BY <2>1, <2>2
<1> QED
  BY <1>3

\* A set with 0 and every successor of its numbers holds all numbers.
LEMMA Induct ==
  ASSUME NEW S, 0 \in S, \A n \in Nat : n \in S => n + 1 \in S
  PROVE  Nat \subseteq S
<1> SUFFICES ASSUME Nat \ S # {} PROVE FALSE
  OBVIOUS
<1>1. PICK n \in Nat \ S : \A m \in Nat \ S : n <= m
  BY Least
<1>2. n # 0 /\ n - 1 \in Nat /\ n - 1 \in S
  BY <1>1
<1> QED
  BY <1>2

\* f holds the running totals of the rows up to n.
Totals(rows, n, f) ==
  f = [k \in 0..n |-> IF k = 0 THEN 0 ELSE f[k - 1] + rows[k]]

\* The running totals of SumOf's recursion exist.
LEMMA TotalsExist ==
  ASSUME NEW rows \in [Payments -> Nat]
  PROVE  \E f : Totals(rows, MaxPayments, f)
<1> DEFINE S == {n \in Nat : n <= MaxPayments => \E f : Totals(rows, n, f)}
<1>1. 0 \in S
  <2> DEFINE f == [k \in 0..0 |-> 0]
  <2>1. f = [k \in 0..0 |-> IF k = 0 THEN 0 ELSE f[k - 1] + rows[k]]
    OBVIOUS
  <2> QED
    BY <2>1 DEF Totals
<1>2. ASSUME NEW n \in Nat, n \in S PROVE n + 1 \in S
  <2> SUFFICES ASSUME n + 1 <= MaxPayments PROVE \E f : Totals(rows, n + 1, f)
    OBVIOUS
  <2>1. PICK f : Totals(rows, n, f)
    BY <1>2, PaymentsAssumption
  <2> DEFINE g == [k \in 0..n + 1 |-> IF k = n + 1 THEN f[n] + rows[n + 1] ELSE f[k]]
  <2>2. \A k \in 0..n : f[k] = IF k = 0 THEN 0 ELSE f[k - 1] + rows[k]
    BY <2>1 DEF Totals
  <2>3. \A k \in 0..n + 1 : g[k] = IF k = 0 THEN 0 ELSE g[k - 1] + rows[k]
    BY <2>2
  <2>4. g = [k \in 0..n + 1 |-> IF k = 0 THEN 0 ELSE g[k - 1] + rows[k]]
    BY <2>3
  <2> QED
    BY <2>4 DEF Totals
<1>3. Nat \subseteq S
  <2> HIDE DEF S
  <2> QED BY <1>1, <1>2, Induct
<1> QED
  BY <1>3, PaymentsAssumption

\* SumOf is the last running total.
LEMMA SumIs ==
  ASSUME NEW rows \in [Payments -> Nat]
  PROVE  \E f : /\ f[0] = 0 /\ \A k \in Payments : f[k] = f[k - 1] + rows[k]
                /\ SumOf(rows) = f[MaxPayments]
<1> DEFINE f == CHOOSE f : f = [k \in 0..MaxPayments |-> IF k = 0 THEN 0 ELSE f[k - 1] + rows[k]]
<1>1. f = [k \in 0..MaxPayments |-> IF k = 0 THEN 0 ELSE f[k - 1] + rows[k]]
  BY TotalsExist, Zenon DEF Totals
<1>2. SumOf(rows) = f[MaxPayments]
  BY DEF SumOf
<1> HIDE DEF f
<1>3. f[0] = 0 /\ \A k \in Payments : f[k] = f[k - 1] + rows[k]
  BY <1>1, PaymentsAssumption DEF Payments
<1> QED
  BY <1>2, <1>3

\* Rows that are all 0 sum to 0.
LEMMA SumOfZero ==
  ASSUME NEW rows \in [Payments -> Nat], \A p \in Payments : rows[p] = 0
  PROVE  SumOf(rows) = 0
<1>1. PICK f : /\ f[0] = 0 /\ \A k \in Payments : f[k] = f[k - 1] + rows[k]
               /\ SumOf(rows) = f[MaxPayments]
  BY SumIs
<1> DEFINE S == {n \in Nat : n <= MaxPayments => f[n] = 0}
<1>2. 0 \in S BY <1>1
<1>3. \A n \in Nat : n \in S => n + 1 \in S
  BY <1>1, PaymentsAssumption DEF Payments
<1>4. Nat \subseteq S
  <2> HIDE DEF S
  <2> QED BY <1>2, <1>3, Induct
<1> QED
  BY <1>1, <1>4, PaymentsAssumption

\* A sum of numbers is a number.
LEMMA SumTyped ==
  ASSUME NEW rows \in [Payments -> Nat]
  PROVE  SumOf(rows) \in Nat
<1>1. PICK f : /\ f[0] = 0 /\ \A k \in Payments : f[k] = f[k - 1] + rows[k]
               /\ SumOf(rows) = f[MaxPayments]
  BY SumIs
<1> DEFINE S == {n \in Nat : n <= MaxPayments => f[n] \in Nat}
<1>2. 0 \in S BY <1>1
<1>3. ASSUME NEW n \in Nat, n \in S PROVE n + 1 \in S
  <2> SUFFICES ASSUME n + 1 <= MaxPayments PROVE f[n + 1] \in Nat
    OBVIOUS
  <2>1. n + 1 \in Payments /\ (n + 1) - 1 = n /\ f[n] \in Nat
    BY <1>3, PaymentsAssumption DEF Payments
  <2> QED BY <1>1, <2>1
<1>4. Nat \subseteq S
  <2> HIDE DEF S
  <2> QED BY <1>2, <1>3, Induct
<1> QED BY <1>1, <1>4, PaymentsAssumption

\* A row written for the first time adds its points to the sum.
LEMMA SumGrows ==
  ASSUME NEW rows \in [Payments -> Nat], NEW p \in Payments, NEW x \in Nat, rows[p] = 0
  PROVE  SumOf([rows EXCEPT ![p] = x]) = SumOf(rows) + x /\ SumOf(rows) \in Nat
<1> DEFINE after == [rows EXCEPT ![p] = x]
<1>1. after \in [Payments -> Nat] /\ \A q \in Payments : after[q] = IF q = p THEN x ELSE rows[q]
  OBVIOUS
<1> HIDE DEF after
<1>2. PICK f : /\ f[0] = 0 /\ \A k \in Payments : f[k] = f[k - 1] + rows[k]
               /\ SumOf(rows) = f[MaxPayments]
  BY SumIs
<1>3. PICK g : /\ g[0] = 0 /\ \A k \in Payments : g[k] = g[k - 1] + after[k]
               /\ SumOf(after) = g[MaxPayments]
  BY <1>1, SumIs
<1> DEFINE S == {n \in Nat : n <= MaxPayments =>
                   f[n] \in Nat /\ g[n] = f[n] + (IF n < p THEN 0 ELSE x)}
<1>4. 0 \in S BY <1>2, <1>3, PaymentsAssumption DEF Payments
<1>5. ASSUME NEW n \in Nat, n \in S PROVE n + 1 \in S
  <2> SUFFICES ASSUME n + 1 <= MaxPayments
               PROVE  f[n + 1] \in Nat /\ g[n + 1] = f[n + 1] + (IF n + 1 < p THEN 0 ELSE x)
    OBVIOUS
  <2>1. /\ n + 1 \in Payments /\ (n + 1) - 1 = n
        /\ f[n] \in Nat /\ g[n] = f[n] + (IF n < p THEN 0 ELSE x)
    BY <1>5, PaymentsAssumption DEF Payments
  <2>2. f[n + 1] = f[n] + rows[n + 1] /\ g[n + 1] = g[n] + after[n + 1]
    BY <1>2, <1>3, <2>1
  <2>3. rows[n + 1] \in Nat /\ p \in Nat
    BY <2>1 DEF Payments
  <2>4. CASE n + 1 = p
    BY <1>1, <2>1, <2>2, <2>3, <2>4
  <2>5. CASE n + 1 # p
    BY <1>1, <2>1, <2>2, <2>3, <2>5
  <2> QED
    BY <2>4, <2>5
<1>6. Nat \subseteq S
  <2> HIDE DEF S
  <2> QED BY <1>4, <1>5, Induct
<1>7. MaxPayments \in S
  BY <1>6, PaymentsAssumption
<1>8. f[MaxPayments] \in Nat /\ g[MaxPayments] = f[MaxPayments] + x
  BY <1>7, PaymentsAssumption DEF Payments
<1> QED
  BY <1>2, <1>3, <1>8 DEF after

-----------------------------------------------------------------------------
(* The wallet.                                                             *)

\* No step makes the points and the rows disagree.
LEMMA WalletStep ==
  ASSUME Inv, WalletBalanced, [Next]_vars
  PROVE  points + SumOf(redeemed) = earned /\ points' + SumOf(redeemed') = earned'
<1>0. /\ points \in Int /\ earned \in Nat /\ redeemed \in [Payments -> Nat]
      /\ points + SumOf(redeemed) = earned
  BY DEF Inv, TypeOK, WalletBalanced
<1>1. ASSUME NEW h \in Handlers, Redeem(h) PROVE points' + SumOf(redeemed') = earned'
  <2>0. UNCHANGED earned BY <1>1 DEF Redeem
  <2>1. CASE UNCHANGED <<points, redeemed>> BY <1>0, <2>0, <2>1
  <2>2. CASE ~UNCHANGED <<points, redeemed>>
    <3> DEFINE p == Mine(h)
               n == PointsApplied(SeenPricing(h))
    <3>1. /\ p \in Payments /\ n \in Nat /\ redeemed[p] = 0 /\ points' = points - n
          /\ redeemed' = [redeemed EXCEPT ![p] = n]
      BY <1>1, <2>2, RedeemLemma
    <3> HIDE DEF p, n
    <3>2. SumOf(redeemed') = SumOf(redeemed) + n /\ SumOf(redeemed) \in Nat
      BY <1>0, <3>1, SumGrows
    <3> QED BY <1>0, <2>0, <3>1, <3>2
  <2> QED BY <2>1, <2>2
<1>2. CASE EarnPoints
  <2>1. points' = points + 1 /\ earned' = earned + 1 /\ UNCHANGED redeemed
    BY <1>2 DEF EarnPoints
  <2>2. SumOf(redeemed) \in Nat BY <1>0, SumTyped
  <2> QED BY <1>0, <2>1, <2>2
<1>3. CASE UNCHANGED <<points, redeemed, bills, earned>> BY <1>0, <1>3
<1>4. ASSUME NEW h \in Handlers, Settle(h) PROVE UNCHANGED <<points, redeemed, earned>>
  BY <1>4 DEF Settle
<1>5. CASE UNCHANGED vars BY <1>0, <1>5 DEF vars, table
<1> QED BY <1>0, <1>1, <1>2, <1>3, <1>4, <1>5, LedgerTouched

\* The points of a workshop are those it earned less those its payments have
\* taken, and never negative, whoever redeems at once (redeemWalletPoints,
\* whose updateMany asks for enough points).
THEOREM WalletBalances == Spec => []WalletBalanced
<1>1. Init => WalletBalanced
  <2> SUFFICES ASSUME Init PROVE WalletBalanced OBVIOUS
  <2>1. redeemed \in [Payments -> Nat] /\ \A p \in Payments : redeemed[p] = 0 BY DEF Init
  <2>2. SumOf(redeemed) = 0 BY <2>1, SumOfZero
  <2> QED BY <2>2 DEF Init, WalletBalanced
<1>2. Inv /\ WalletBalanced /\ [Next]_vars /\ Inv' => WalletBalanced'
  <2>1. Inv => points >= 0 BY DEF Inv, TablesInv
  <2> QED BY <2>1, WalletStep DEF WalletBalanced, Inv, TablesInv
<1> QED BY <1>1, <1>2, Invariance, PTL DEF Spec

-----------------------------------------------------------------------------
(* No term is lost, one request at a time.                                 *)

\* A handler has dated the period of a renewal after the end it has read, by
\* the whole term and by no more unless that end had passed; and while it verifies, that end and term are the stored ones.
Verifying(h) == pc[h] \in {"readPayment", "checkWallet", "redeem", "countBills", "settle"}
Extends(row, pricing, end, t) ==
  LET term == settledTerm(row, pricing)
  IN  /\ end >= row.expiresAt + term
      /\ end <= row.expiresAt + term \/ end <= t + term
Dated(h) ==
  pc[h] = "settle" /\ ~isAddOnBreakdown(SeenPricing(h)) =>
    seen[h].end \in Int /\ Extends(seen[h].sub, SeenPricing(h), seen[h].end, now)
Fresh(h) ==
  Verifying(h) => /\ seen[h].sub.expiresAt = sub.expiresAt
                  /\ seen[h].sub.termMonths = sub.termMonths
TermsInv == \A h \in Handlers : Dated(h) /\ Fresh(h)

\* A period ends a term after the row's end, or after the present if that is later.
LEMMA PeriodIs ==
  ASSUME NEW row \in Subscription, NEW pricing \in Pricing, NEW t \in Nat,
         ~isAddOnBreakdown(pricing)
  PROVE  /\ periodEnd(row, pricing, t) \in Int
         /\ Extends(row, pricing, periodEnd(row, pricing, t), t)
<1>1. settledTerm(row, pricing) \in Nat
  BY RulesAssumption DEF settledTerm, normalizeTermMonths
<1>2. row.expiresAt \in Nat
  BY DEF Subscription
<1> QED
  BY <1>1, <1>2 DEF periodEnd, periodStart, Extends

\* It still does later on.
LEMMA StillExtends ==
  ASSUME NEW row \in Subscription, NEW pricing \in Pricing, NEW end \in Int, NEW t \in Nat,
         NEW u \in Nat, u >= t, Extends(row, pricing, end, t)
  PROVE  Extends(row, pricing, end, u)
<1>1. settledTerm(row, pricing) \in Nat
  BY RulesAssumption DEF settledTerm, normalizeTermMonths, Subscription
<1> QED
  BY <1>1 DEF Extends

\* What a handler's next call leaves of the row and of what it has read.
LEMMA StepKeepsTerms ==
  ASSUME Inv, NEW h \in Handlers, Dated(h), Fresh(h), Step(h)
  PROVE  Dated(h)' /\ Fresh(h)'
<1>0. /\ pc \in [Handlers -> ProgramCounter] /\ seen \in [Handlers -> Seen]
      /\ job \in [Handlers -> Job] /\ sub \in Subscription /\ now \in Nat
      /\ payment \in [Payments -> Payment]
  BY DEF Inv, TypeOK
<1>1. CASE Verifying(h)' => FALSE
  BY <1>1 DEF Verifying, Dated, Fresh
<1>2. CASE CreateOrder(h) \/ CreateOrderFails(h) \/ FinishRequest(h) \/ CreateLink(h)
             \/ CreateLinkFails(h) \/ StoreLink(h) \/ FinishLink(h) \/ MarkTerm(h)
  <2>1. ~Verifying(h)'
    BY <1>0, <1>2 DEF CreateOrder, CreateOrderFails, FinishRequest, CreateLink, CreateLinkFails,
          StoreLink, FinishLink, MarkTerm, Goto, Return, Verifying
  <2> QED
    BY <1>1, <2>1
<1>3. CASE PollPaid(h) \/ PollFailed(h) \/ PollOpen(h) \/ StaleFail(h) \/ StaleKeep(h)
             \/ SettleAborts(h) \/ CreditReferrer(h) \/ FailPayment(h) \/ Patch(h) \/ Convert(h)
             \/ Settle(h)
  <2>1. ~Verifying(h)'
    BY <1>0, <1>3 DEF PollPaid, PollFailed, PollOpen, StaleFail, StaleKeep, SettleAborts,
          CreditReferrer, FailPayment, Patch, Convert, Settle, Verify, Throw, Goto, Return, Verifying
  <2> QED
    BY <1>1, <2>1
<1>4. CASE VerifyReadOrg(h)
  <2>1. pc'[h] = "readPayment" /\ seen'[h].sub = sub /\ sub' = sub
    BY <1>0, <1>4 DEF VerifyReadOrg, Goto, table, Seen
  <2> QED
    BY <2>1 DEF Dated, Fresh
<1>5. CASE VerifyReadPayment(h)
  <2>1. /\ pc[h] = "readPayment" /\ pc'[h] \in {"fail", "checkWallet", "countBills"}
        /\ seen'[h].sub = seen[h].sub /\ sub' = sub
    BY <1>0, <1>5 DEF VerifyReadPayment, AfterRead, Goto, table, Seen
  <2> QED
    BY <2>1 DEF Dated, Fresh, Verifying
<1>6. CASE CheckWallet(h) \/ Redeem(h)
  <2>1. CASE pc'[h] \in {"redeem", "countBills"}
    <3>1. pc[h] \in {"checkWallet", "redeem"} /\ seen' = seen /\ sub' = sub
      BY <1>0, <1>6, <2>1 DEF CheckWallet, Redeem, Throw, Goto, Return, table
    <3> QED
      BY <2>1, <3>1 DEF Dated, Fresh, Verifying
  <2>2. CASE pc'[h] \notin {"redeem", "countBills"}
    <3>1. ~Verifying(h)'
      BY <1>0, <1>6, <2>2 DEF CheckWallet, Redeem, Throw, Goto, Return, Verifying
    <3> QED
      BY <1>1, <3>1
  <2> QED
    BY <2>1, <2>2
<1>7. CASE CountBills(h)
  <2>1. /\ pc[h] = "countBills" /\ pc'[h] = "settle" /\ sub' = sub /\ now' = now
        /\ seen'[h].sub = seen[h].sub /\ seen'[h].row = seen[h].row
        /\ seen'[h].end = periodEnd(seen[h].sub, SeenPricing(h), now)
    BY <1>0, <1>7 DEF CountBills, Goto, table, outside, world, Seen
  <2>2. seen[h].sub \in Subscription /\ SeenPricing(h) \in Pricing
    BY <1>0 DEF Seen, SeenPricing, Payment
  <2>3. SeenPricing(h)' = SeenPricing(h)
    BY <2>1 DEF SeenPricing
  <2>4. Fresh(h)'
    BY <2>1 DEF Fresh, Verifying
  <2>5. Dated(h)'
    BY <1>0, <2>1, <2>2, <2>3, PeriodIs DEF Dated
  <2> QED
    BY <2>4, <2>5
<1> QED
  BY <1>2, <1>3, <1>4, <1>5, <1>6, <1>7 DEF Step

\* Where one request is served at a time, no other call comes in between.
LEMMA NextKeepsTerms ==
  ASSUME \A g, h \in Handlers : g = h, Inv, TermsInv, [Next]_vars
  PROVE  TermsInv'
<1> SUFFICES ASSUME NEW h \in Handlers
             PROVE  Dated(h)' /\ Fresh(h)'
  BY DEF TermsInv
<1>0. /\ pc \in [Handlers -> ProgramCounter] /\ sub \in Subscription
      /\ Dated(h) /\ Fresh(h)
  BY DEF Inv, TypeOK, TermsInv
<1>1. CASE Request(h)
  <2>1. ~Verifying(h)'
    BY <1>0, <1>1 DEF Request, RequestRenewal, RequestAddOns, InsertRequest, RequestPaymentLink, Confirm,
          Sync, AdminVerify, MarkPaid, WebhookPaid, WebhookFailed, BeginPatch, BeginConvert, BeginAdmin,
          Begin, Verifying
  <2> QED
    BY <2>1 DEF Verifying, Dated, Fresh
<1>2. CASE Step(h)
  BY <1>0, <1>2, StepKeepsTerms
<1>3. CASE /\ UNCHANGED <<pc, seen>> /\ sub'.expiresAt = sub.expiresAt
           /\ sub'.termMonths = sub.termMonths /\ now' \in {now, now + 1}
  <2>1. Fresh(h)'
    BY <1>0, <1>3 DEF Fresh, Verifying
  <2>2. SeenPricing(h)' = SeenPricing(h)
    BY <1>3 DEF SeenPricing
  <2>3. Dated(h)'
    <3> SUFFICES ASSUME pc[h] = "settle", ~isAddOnBreakdown(SeenPricing(h)),
                        seen[h].end \in Int, Extends(seen[h].sub, SeenPricing(h), seen[h].end, now)
                 PROVE  Extends(seen[h].sub, SeenPricing(h), seen[h].end, now')
      BY <1>0, <1>3, <2>2 DEF Dated, Extends
    <3>1. /\ seen[h].sub \in Subscription /\ SeenPricing(h) \in Pricing
          /\ now \in Nat /\ now' \in Nat /\ now' >= now
      BY <1>3 DEF Inv, TypeOK, Seen, SeenPricing, Payment
    <3> QED
      BY <3>1, StillExtends
  <2> QED
    BY <2>1, <2>3
<1>4. CASE Suspend \/ Restore
  BY <1>0, <1>3, <1>4 DEF Suspend, Restore, Subscription, handlers, world
<1>5. CASE Crash
  <2>1. ~Verifying(h)'
    BY <1>5 DEF Crash, Verifying
  <2> QED
    BY <2>1 DEF Verifying, Dated, Fresh
<1>6. CASE EarnPoints \/ Tick \/ \E p \in Payments : AttemptFails(p) \/ Capture(p) \/ LinkExpires(p)
  BY <1>3, <1>6 DEF EarnPoints, Tick, AttemptFails, Capture, LinkExpires, UnchangedButGateway, table,
                    handlers, world, outside
<1>7. CASE UNCHANGED vars
  BY <1>3, <1>7 DEF vars, table, handlers, outside, world
<1> QED
  BY <1>1, <1>2, <1>4, <1>5, <1>6, <1>7 DEF Next, Environment

\* A settlement by a row that is still the stored one extends the period.
LEMMA FreshSettles ==
  ASSUME Inv, NEW h \in Handlers, Dated(h), Fresh(h), Settle(h)
  PROVE  LET pricing == SeenPricing(h)
         IN  IF isAddOnBreakdown(pricing) THEN sub'.expiresAt = sub.expiresAt
             ELSE Extends(sub, pricing, sub'.expiresAt, now)
<1>1. sub \in Subscription /\ seen[h].sub \in Subscription /\ pc[h] = "settle"
  BY DEF Inv, TypeOK, Seen, Settle
<1>2. CASE isAddOnBreakdown(SeenPricing(h))
  BY <1>1, <1>2 DEF Settle, AddOnSubscription, Subscription
<1>3. CASE ~isAddOnBreakdown(SeenPricing(h))
  <2>1. sub'.expiresAt = seen[h].end
    BY <1>1, <1>3 DEF Settle, RenewedSubscription, Subscription
  <2>2. settledTerm(sub, SeenPricing(h)) = settledTerm(seen[h].sub, SeenPricing(h))
    BY <1>1 DEF settledTerm, Fresh, Verifying
  <2> QED
    BY <1>1, <1>3, <2>1, <2>2 DEF Dated, Fresh, Verifying, Extends
<1> QED
  BY <1>2, <1>3

\* One request at a time, no settlement loses or gives away a month and none of an add-on
\* moves the end, in any order of requests and restarts; two overlapping ones do
\* (the run MCLostTerm), since both may date their period by one row.
THEOREM TermsAdd == (\A g, h \in Handlers : g = h) => (Spec => SettlementExtends)
<1> SUFFICES ASSUME \A g, h \in Handlers : g = h
             PROVE  Spec => SettlementExtends
  OBVIOUS
<1>1. Init => TermsInv
  BY DEF Init, TermsInv, Dated, Fresh, Verifying
<1>2. Inv /\ TermsInv /\ [Next]_vars => TermsInv'
  BY NextKeepsTerms
<1>3. Inv /\ TermsInv /\ [Next]_vars =>
        \/ UNCHANGED vars
        \/ \A p \in Payments : Settles(p) =>
             LET pricing == bills'[p].pricing
             IN  IF isAddOnBreakdown(pricing) THEN sub'.expiresAt = sub.expiresAt
                 ELSE Extends(sub, pricing, sub'.expiresAt, now)
  <2> SUFFICES ASSUME Inv, TermsInv, [Next]_vars, NEW p \in Payments, Settles(p)
               PROVE  LET pricing == bills'[p].pricing
                      IN  IF isAddOnBreakdown(pricing) THEN sub'.expiresAt = sub.expiresAt
                          ELSE Extends(sub, pricing, sub'.expiresAt, now)
    OBVIOUS
  <2>1. bills' # bills
    BY DEF Settles, Billed
  <2>2. Next
    BY <2>1 DEF vars, table
  <2>3. ASSUME NEW h \in Handlers, Redeem(h)
        PROVE  FALSE
    BY <2>1, <2>3 DEF Redeem
  <2>4. PICK h \in Handlers : Settle(h)
    BY <2>1, <2>2, <2>3, LedgerTouched DEF EarnPoints
  <2>5. bills'[p].pricing = SeenPricing(h)
    <3>1. bills \in [Payments -> Bill]
      BY DEF Inv, TypeOK
    <3> QED
      BY <2>4, <3>1 DEF Settle, Settles, Billed
  <2> QED
    BY <2>4, <2>5, FreshSettles DEF TermsInv
<1>4. Spec => []Inv
  BY Invariance
<1> QED
  BY <1>1, <1>2, <1>3, <1>4, PTL DEF Spec, SettlementExtends, Extends
=============================================================================
