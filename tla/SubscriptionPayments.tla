------------------------ MODULE SubscriptionPayments ------------------------
(***************************************************************************)
(* The subscription of one organization: its payments, bills, wallet and   *)
(* subscription row in PostgreSQL, the request handlers of                 *)
(* organization-subscription.service.ts that read and write them, and the  *)
(* Razorpay gateway they talk to.                                          *)
(*                                                                         *)
(* A handler runs without a lock: it is a sequence of database calls, and  *)
(* an action is one such call (or one transaction, or a run of calls whose *)
(* interleaving nobody can see).  pc says which call comes next, job holds *)
(* the request, seen the rows read so far.  A constraint the database      *)
(* refuses, or an exception, ends the handler.                             *)
(***************************************************************************)
EXTENDS SubscriptionRules, FiniteSets

CONSTANTS
  Handlers,     \* request handlers that may run at the same time
  MaxPayments,  \* bound: payment rows ever created
  MaxExtra,     \* bound: capacity bought on top of a plan or a cap
  MaxEarned,    \* bound: wallet points the organization ever earns
  MaxNow,       \* bound: the last month of the clock
  MaxCrashes,   \* bound: restarts of the server
  MaxRequests,  \* bound: calls by the studio and the platform admin
  Referred,     \* the organization signed up with a usable referral code
  Origins,      \* how the organization was created: "trial", "seed"
  Operations    \* the endpoints that are called, the outside events that occur

ASSUME PaymentsAssumption ==
  /\ {MaxPayments, MaxExtra, MaxEarned, MaxNow, MaxCrashes, MaxRequests} \subseteq Nat
  /\ Referred \in BOOLEAN

Payments == 1..MaxPayments    \* rows by order of creation

VARIABLES
  payment,   \* SubscriptionPayment rows
  quote,     \* the breakdown each payment was requested with
  bills,     \* SubscriptionBill rows, by their unique paymentId
  sub,       \* the OrganizationSubscription row
  active,    \* Organization.isActive
  points,    \* ReferralWallet.points
  redeemed,  \* POINTS_REDEEM rows, by their unique paymentId (0: no row)
  credited,  \* payments with a REFERRER_POINTS row in the referrer's wallet
  earned,    \* points ever credited to this organization's wallet
  gateway,   \* what Razorpay knows of each payment
  now,       \* the clock, in months
  crashes,   \* restarts so far
  requests,  \* calls so far
  pc, job, seen

table    == <<payment, quote, bills, sub, active, points, redeemed, credited, earned>>
world    == <<gateway, now, crashes>>
outside  == <<world, requests>>
handlers == <<pc, job, seen>>
vars     == <<table, outside, handlers>>

-----------------------------------------------------------------------------
(* Types.                                                                  *)

PaymentStatus == {"NONE", "PENDING", "PROCESSING", "PAID", "FAILED"}
Payment == [status: PaymentStatus, notes: Pricing, gatewayOrder: {"none", "order", "plink"}]
Row(status, notes, order) == [status |-> status, notes |-> notes, gatewayOrder |-> order]
NoPayment == Row("NONE", NoPricing, "none")

Bill == [number: Nat, periodEnd: Nat, pricing: Pricing]
NoBill == [number |-> 0, periodEnd |-> 0, pricing |-> NoPricing]   \* no row

\* An order or link at Razorpay: made, handed to the customer, captured or
\* expired; tried: an attempt to pay it has failed.
GatewayOrder ==
  [kind: {"none", "order", "plink"},
   state: {"none", "made", "open", "captured", "expired"}, tried: BOOLEAN]
NoOrder == [kind |-> "none", state |-> "none", tried |-> FALSE]

ProgramCounter ==
  {"idle", "order", "subUpdate", "link", "linkRow", "linkSub", "markTerm", "poll",
   "readOrg", "readPayment", "checkWallet", "redeem", "countBills", "settle",
   "fail", "credit", "stale", "patch", "convert"}

\* outcome and notes are verifySubscriptionPayment's input: notes is null
\* ("keep"), prose that holds no breakdown ("text") or the notes the request
\* created ("quote").  via says what an error or an unpaid order leads to.
Job == [payment: 0..MaxPayments, outcome: {"PAID", "FAILED"},
        notes: {"keep", "text", "quote"},
        via: {"direct", "abandon", "reconcile"}, term: Nat]
JobOf(p, outcome, notes, via, term) ==
  [payment |-> p, outcome |-> outcome, notes |-> notes, via |-> via, term |-> term]
NoJob == JobOf(0, "PAID", "keep", "direct", 0)

AnyPlan == CHOOSE p \in Plans : TRUE
NoSubscription ==
  [status |-> "TRIAL", paymentStatus |-> "PENDING", expiresAt |-> 0,
   termMonths |-> 0, planCode |-> AnyPlan, limit |-> 0, override |-> NoOverride]
Seen == [sub: Subscription, row: Payment, number: Nat, end: Nat]
NothingSeen == [sub |-> NoSubscription, row |-> NoPayment, number |-> 0, end |-> 0]

TypeOK ==
  /\ payment \in [Payments -> Payment]
  /\ quote \in [Payments -> Pricing]
  /\ bills \in [Payments -> Bill]
  /\ sub \in Subscription
  /\ active \in BOOLEAN
  /\ points \in Int
  /\ redeemed \in [Payments -> Nat]
  /\ credited \subseteq Payments
  /\ earned \in Nat
  /\ gateway \in [Payments -> GatewayOrder]
  /\ now \in Nat
  /\ crashes \in Nat
  /\ requests \in Nat
  /\ pc \in [Handlers -> ProgramCounter]
  /\ job \in [Handlers -> Job]
  /\ seen \in [Handlers -> Seen]

-----------------------------------------------------------------------------
(* Initial states: an organization just provisioned on trial, or the       *)
(* default organization of the seed, which starts on a paid year.          *)

TrialSubscription(plan, expires) ==
  [status |-> "TRIAL", paymentStatus |-> "PENDING", expiresAt |-> expires,
   termMonths |-> 0, planCode |-> plan, limit |-> PlanLimit[plan], override |-> NoOverride]

DefaultSubscription(plan) ==
  [TrialSubscription(plan, DefaultTerm) EXCEPT
     !.status = "ACTIVE", !.paymentStatus = "PAID", !.termMonths = DefaultTerm]

Init ==
  /\ payment = [p \in Payments |-> NoPayment]
  /\ quote = [p \in Payments |-> NoPricing]
  /\ bills = [p \in Payments |-> NoBill]
  /\ \E plan \in Plans, origin \in Origins :
       sub = IF origin = "trial" THEN TrialSubscription(plan, 1) ELSE DefaultSubscription(plan)
  /\ active = TRUE
  /\ points = 0
  /\ redeemed = [p \in Payments |-> 0]
  /\ credited = {}
  /\ earned = 0
  /\ gateway = [p \in Payments |-> NoOrder]
  /\ now = 0
  /\ crashes = 0
  /\ requests = 0
  /\ pc = [h \in Handlers |-> "idle"]
  /\ job = [h \in Handlers |-> NoJob]
  /\ seen = [h \in Handlers |-> NothingSeen]

-----------------------------------------------------------------------------
(* Control of a handler.                                                   *)

Offered(operation) == operation \in Operations

\* The studio or the platform admin calls an endpoint.
Called == requests < MaxRequests /\ requests' = requests + 1
Call(operation) == Offered(operation) /\ Called

Begin(h, call, request) ==
  /\ pc[h] = "idle"
  /\ pc' = [pc EXCEPT ![h] = call]
  /\ job' = [job EXCEPT ![h] = request]
  /\ UNCHANGED seen

Goto(h, call) == pc' = [pc EXCEPT ![h] = call] /\ UNCHANGED job

Return(h) ==
  /\ pc' = [pc EXCEPT ![h] = "idle"]
  /\ job' = [job EXCEPT ![h] = NoJob]
  /\ seen' = [seen EXCEPT ![h] = NothingSeen]

\* With a bug: reconcile asks again instead of giving up.
ThrowAndRetry(h) ==
  IF job[h].via = "reconcile"
    THEN /\ Goto(h, "poll")
         /\ seen' = [seen EXCEPT ![h] = NothingSeen]
    ELSE Return(h)

\* An exception ends the handler; reconcile catches it and looks at the age.
Throw(h) ==
  IF job[h].via = "reconcile"
    THEN /\ Goto(h, "stale")
         /\ seen' = [seen EXCEPT ![h] = NothingSeen]
    ELSE Return(h)

\* Hand over to verifySubscriptionPayment.
Verify(h, outcome, notes, via) ==
  /\ pc' = [pc EXCEPT ![h] = "readOrg"]
  /\ job' = [job EXCEPT ![h] = JobOf(job[h].payment, outcome, notes, via, job[h].term)]
  /\ UNCHANGED seen

\* What a new request of verifySubscriptionPayment looks like, and one that is
\* about a payment but has not come to verify it.
VerifyJob(p, outcome, notes) == JobOf(p, outcome, notes, "direct", 0)
PaymentJob(p) == VerifyJob(p, "PAID", "keep")

Mine(h) == job[h].payment
Exists(p) == payment[p].status # "NONE"
Open(p) == payment[p].status \in {"PENDING", "PROCESSING"}
Captured(p) == gateway[p].state = "captured"

\* With a bug: a payment that was failed once is never taken up again.
UnsettledAndOpen(p) == payment[p].status \notin {"PAID", "FAILED"}

\* Confirm and the webhook answer at once for a payment that is PAID already.
Unsettled(p) == payment[p].status # "PAID"

\* A studio user gets past requireAuth only while the workshop is not suspended.
StudioAccess == active /\ sub.status # "CANCELLED"

\* An UPDATE of the columns a handler changes; the others keep their value.
SetStatus(p, status, notes) ==
  payment' = [payment EXCEPT ![p] = Row(status, notes, payment[p].gatewayOrder)]
SetOrder(p, order, notes) ==
  payment' = [payment EXCEPT ![p] = Row(payment[p].status, notes, order)]

\* The row a request inserts, with the breakdown in its notes.
InsertPayment(p, status, pricing) ==
  /\ p \in Payments
  /\ ~Exists(p)
  /\ \A q \in Payments : q < p => Exists(q)
  /\ payment' = [payment EXCEPT ![p] = Row(status, pricing, "none")]
  /\ quote' = [quote EXCEPT ![p] = pricing]

-----------------------------------------------------------------------------
(* requestSubscriptionRenewal and requestSubscriptionAddOns: quote, insert *)
(* the payment, create the order at the gateway, mark the subscription.    *)

\* A payment the wallet covers is settled at once; online needs an order.
RequestMode(pricing) == IF pricing.points = Price THEN {"wallet"} ELSE {"online", "manual"}

\* With a bug: a request the wallet covers is inserted as PAID.
StatusPaidAtOnce(mode) ==
  IF mode = "manual" THEN "PENDING" ELSE IF mode = "wallet" THEN "PAID" ELSE "PROCESSING"

RequestStatus(mode) == IF mode = "manual" THEN "PENDING" ELSE "PROCESSING"

InsertRequest(h, p, mode, pricing) ==
  /\ InsertPayment(p, RequestStatus(mode), pricing)
  /\ \/ mode = "wallet" /\ Begin(h, "readOrg", VerifyJob(p, "PAID", "quote"))
     \/ mode = "online" /\ Begin(h, "order", PaymentJob(p))
     \/ mode = "manual" /\ Begin(h, "subUpdate", PaymentJob(p))
  /\ UNCHANGED <<bills, sub, active, points, redeemed, credited, earned, world>>

RequestRenewal(h, p) ==
  /\ Call("renew")
  /\ StudioAccess
  /\ \E plan \in Plans, term \in Terms, extra \in 0..MaxExtra, n \in RedeemablePoints(points) :
       LET pricing == calculateSubscriptionPricing(plan, term, extra, n)
       IN  \E mode \in RequestMode(pricing) : InsertRequest(h, p, mode, pricing)

AddOnEligible == sub.status = "ACTIVE" /\ sub.expiresAt > now

RequestAddOns(h, p) ==
  /\ Call("addon")
  /\ StudioAccess
  /\ AddOnEligible
  /\ \E extra \in 1..MaxExtra, n \in RedeemablePoints(points) :
       LET pricing == calculateAddOnPricing(sub, extra, n)
       IN  \E mode \in RequestMode(pricing) : InsertRequest(h, p, mode, pricing)

\* The order exists and its id is stored; the studio gets it in the response.
CreateOrder(h) ==
  /\ pc[h] = "order"
  /\ gateway' = [gateway EXCEPT ![Mine(h)] = [kind |-> "order", state |-> "made", tried |-> FALSE]]
  /\ SetOrder(Mine(h), "order", payment[Mine(h)].notes)
  /\ Goto(h, "subUpdate")
  /\ UNCHANGED <<quote, bills, sub, active, points, redeemed, credited, earned, now, crashes, requests, seen>>

\* The gateway is down: the payment is queued for manual verification.
CreateOrderFails(h) ==
  /\ pc[h] = "order"
  /\ SetStatus(Mine(h), "PENDING", quote[Mine(h)])
  /\ Goto(h, "subUpdate")
  /\ UNCHANGED <<quote, bills, sub, active, points, redeemed, credited, earned, outside, seen>>

\* A renewal marks the subscription and overwrites its term before any money
\* has come; an add-on leaves it alone.  The checkout goes out with the answer.
FinishRequest(h) ==
  LET p == Mine(h)
      online == gateway[p].state = "made"
  IN  /\ pc[h] = "subUpdate"
      /\ sub' = IF isAddOnBreakdown(quote[p]) THEN sub
                ELSE [sub EXCEPT !.paymentStatus = IF online THEN "PROCESSING" ELSE "PENDING",
                                 !.termMonths = quote[p].termMonths]
      /\ gateway' = IF online THEN [gateway EXCEPT ![p].state = "open"] ELSE gateway
      /\ Return(h)
      /\ UNCHANGED <<payment, quote, bills, active, points, redeemed, credited, earned, now, crashes, requests>>

-----------------------------------------------------------------------------
(* createAdminPaymentLink.                                                 *)

RequestPaymentLink(h, p) ==
  /\ Call("link")
  /\ \E plan \in Plans, term \in Terms, extra \in 0..MaxExtra :
       InsertPayment(p, "PROCESSING", calculateSubscriptionPricing(plan, term, extra, 0))
  /\ Begin(h, "link", PaymentJob(p))
  /\ UNCHANGED <<bills, sub, active, points, redeemed, credited, earned, world>>

\* Razorpay notifies the customer itself, so the link is open from here on.
CreateLink(h) ==
  /\ pc[h] = "link"
  /\ gateway' = [gateway EXCEPT ![Mine(h)] = [kind |-> "plink", state |-> "open", tried |-> FALSE]]
  /\ Goto(h, "linkRow")
  /\ UNCHANGED <<table, now, crashes, requests, seen>>

\* Text after the JSON of the breakdown: JSON.parse rejects the whole.
AppendToNotes(pricing) == NoPricing

CreateLinkFails(h) ==
  /\ pc[h] = "link"
  /\ SetStatus(Mine(h), "FAILED", AppendToNotes(quote[Mine(h)]))
  /\ Return(h)
  /\ UNCHANGED <<quote, bills, sub, active, points, redeemed, credited, earned, outside>>

StoreLink(h) ==
  /\ pc[h] = "linkRow"
  /\ SetOrder(Mine(h), "plink", AppendToNotes(quote[Mine(h)]))
  /\ Goto(h, "linkSub")
  /\ UNCHANGED <<quote, bills, sub, active, points, redeemed, credited, earned, outside, seen>>

FinishLink(h) ==
  /\ pc[h] = "linkSub"
  /\ sub' = [sub EXCEPT !.paymentStatus = "PROCESSING",
                        !.planCode = quote[Mine(h)].planCode,
                        !.termMonths = quote[Mine(h)].termMonths]
  /\ Return(h)
  /\ UNCHANGED <<payment, quote, bills, active, points, redeemed, credited, earned, outside>>

-----------------------------------------------------------------------------
(* The ways into verifySubscriptionPayment.                                *)

\* confirmRazorpaySubscriptionPayment: the browser brings Razorpay's signature of
\* the order it was given, which the payment's row has had since before that
\* answer (CreateOrder); so a row without an order, which the code lets pass, is
\* not met.
Confirm(h, p) ==
  /\ Call("confirm")
  /\ StudioAccess
  /\ payment[p].gatewayOrder = "order"
  /\ Captured(p)
  /\ Unsettled(p)
  /\ Begin(h, "readOrg", VerifyJob(p, "PAID", "text"))
  /\ UNCHANGED <<table, world>>

\* settleRazorpayOrderFromWebhook: delivered late, again or out of order; the
\* payment of a link brings an order id of its own.
WebhookPaid(h, p) ==
  /\ Offered("webhook")
  /\ Captured(p)
  /\ Unsettled(p)
  /\ SetOrder(p, "order", payment[p].notes)
  /\ Begin(h, "readOrg", VerifyJob(p, "PAID", "text"))
  /\ UNCHANGED <<quote, bills, sub, active, points, redeemed, credited, earned, outside>>

\* markRazorpayPaymentFailedFromWebhook: an attempt on an order failed, or a
\* link expired; a failed attempt on a link is ignored.
WebhookFailed(h, p) ==
  /\ Offered("webhook")
  /\ Open(p)
  /\ \/ gateway[p].tried /\ payment[p].gatewayOrder # "plink"
     \/ gateway[p].state = "expired"
  /\ Begin(h, "readOrg", VerifyJob(p, "FAILED", "text"))
  /\ UNCHANGED <<table, outside>>

\* syncRazorpaySubscriptionPayment, from the studio (abandonIfUnpaid or not)
\* or from reconcileOpenRazorpayPayments.  An order id the browser sends along is
\* the stored one, for the same reason.
Sync(h, p) ==
  /\ Called
  /\ Open(p)
  /\ payment[p].gatewayOrder # "none"
  /\ \E via \in {v \in {"direct", "abandon", "reconcile"} :
                  Offered(IF v = "direct" THEN "sync" ELSE v)} :
       /\ via # "reconcile" => StudioAccess
       /\ Begin(h, "poll", JobOf(p, "PAID", "keep", via, 0))
  /\ UNCHANGED <<table, world>>

\* The route of a platform admin takes either outcome for any payment.
AdminVerify(h, p) ==
  /\ Call("verify")
  /\ Exists(p)
  /\ \E outcome \in {"PAID", "FAILED"}, notes \in {"keep", "text"} :
       Begin(h, "readOrg", VerifyJob(p, outcome, notes))
  /\ UNCHANGED <<table, world>>

\* adminMarkSubscriptionPaid reuses the latest PENDING payment, else the
\* latest PROCESSING one, else inserts a payment without a breakdown.
Latest(status) ==
  {p \in Payments : /\ payment[p].status = status
                    /\ \A q \in Payments : payment[q].status = status => q <= p}
OpenPayment == IF Latest("PENDING") # {} THEN Latest("PENDING") ELSE Latest("PROCESSING")

MarkPaid(h, p) ==
  /\ Call("markPaid")
  /\ IF OpenPayment # {}
       THEN p \in OpenPayment /\ UNCHANGED <<payment, quote>>
       ELSE InsertPayment(p, "PROCESSING", NoPricing)
  /\ \E term \in Terms \cup {0}, notes \in {"keep", "text"} :
       Begin(h, IF term = 0 THEN "readOrg" ELSE "markTerm",
             JobOf(p, "PAID", notes, "direct", term))
  /\ UNCHANGED <<bills, sub, active, points, redeemed, credited, earned, world>>

MarkTerm(h) ==
  /\ pc[h] = "markTerm"
  /\ sub' = [sub EXCEPT !.termMonths = job[h].term]
  /\ Goto(h, "readOrg")
  /\ UNCHANGED <<payment, quote, bills, active, points, redeemed, credited, earned, outside, seen>>

\* The answer of Razorpay for the polled order or link.
PollPaid(h) ==
  /\ pc[h] = "poll"
  /\ Captured(Mine(h))
  /\ Verify(h, "PAID", "text", job[h].via)
  /\ UNCHANGED <<table, outside>>

\* One failed attempt on an order counts, though the customer may try again.
PollFailed(h) ==
  /\ pc[h] = "poll"
  /\ ~Captured(Mine(h))
  /\ \/ gateway[Mine(h)].kind = "order" /\ gateway[Mine(h)].tried
     \/ gateway[Mine(h)].state = "expired"
  /\ Verify(h, "FAILED", "text", job[h].via)
  /\ UNCHANGED <<table, outside>>

\* Nothing captured yet, or (in any state) the API call failed: a closed
\* checkout is failed, reconcile looks at the age, a plain sync is a 402.
PollOpen(h) ==
  /\ pc[h] = "poll"
  /\ IF job[h].via = "abandon" THEN Verify(h, "FAILED", "text", "abandon") ELSE Throw(h)
  /\ UNCHANGED <<table, outside>>

\* reconcile's catch block: a payment older than 15 minutes and still open is
\* failed; minutes are not modelled, so any payment may be that old.
StaleFail(h) ==
  /\ pc[h] = "stale"
  /\ Open(Mine(h))
  /\ Verify(h, "FAILED", "text", "direct")
  /\ UNCHANGED <<table, outside>>

StaleKeep(h) ==
  /\ pc[h] = "stale"
  /\ Return(h)
  /\ UNCHANGED <<table, outside>>

-----------------------------------------------------------------------------
(* verifySubscriptionPayment.                                              *)

VerifyReadOrg(h) ==
  /\ pc[h] = "readOrg"
  /\ seen' = [seen EXCEPT ![h].sub = sub]
  /\ Goto(h, "readPayment")
  /\ UNCHANGED <<table, outside>>

\* With a bug: only an open payment goes to the wallet, a failed one does not.
AfterReadOpenOnly(outcome, row) ==
  IF outcome = "FAILED" THEN "fail"
  ELSE IF row.status \in {"PENDING", "PROCESSING"} /\ PointsApplied(row.notes) > 0 THEN "checkWallet"
  ELSE "countBills"

\* A payment already PAID skips the wallet, as does one without points.
AfterRead(outcome, row) ==
  IF outcome = "FAILED" THEN "fail"
  ELSE IF row.status # "PAID" /\ PointsApplied(row.notes) > 0 THEN "checkWallet"
  ELSE "countBills"

VerifyReadPayment(h) ==
  LET row == payment[Mine(h)]
  IN  /\ pc[h] = "readPayment"
      /\ seen' = [seen EXCEPT ![h].row = row]
      /\ Goto(h, AfterRead(job[h].outcome, row))
      /\ UNCHANGED <<table, outside>>

\* parsePricingFromNotes of the row as it was read.
SeenPricing(h) == seen[h].row.notes

\* redeemWalletPointsForPaidSubscription, first its reads ...
CheckWallet(h) ==
  LET applied == PointsApplied(SeenPricing(h))
  IN  /\ pc[h] = "checkWallet"
      /\ \/ redeemed[Mine(h)] # 0 /\ Goto(h, "countBills") /\ UNCHANGED seen
         \/ redeemed[Mine(h)] = 0 /\ points >= applied /\ Goto(h, "redeem") /\ UNCHANGED seen
         \/ redeemed[Mine(h)] = 0 /\ points < applied /\ Throw(h)
      /\ UNCHANGED <<table, outside>>

\* ... then its transaction, whose guards are the WHERE clause of the debit
\* and the unique (paymentId, type) of the ledger row.
\* With a bug: the debit does not ask for the points again, or takes them again.
WalletNotAsked(applied) == TRUE
RedeemRowIgnored(p) == TRUE

WalletCovers(applied) == points >= applied
RedeemRowFree(p) == redeemed[p] = 0

Redeem(h) ==
  LET applied == PointsApplied(SeenPricing(h))
  IN  /\ pc[h] = "redeem"
      /\ \/ /\ WalletCovers(applied) /\ RedeemRowFree(Mine(h))
            /\ points' = points - applied
            /\ redeemed' = [redeemed EXCEPT ![Mine(h)] = applied]
            /\ Goto(h, "countBills") /\ UNCHANGED seen
         \/ /\ WalletCovers(applied) /\ ~RedeemRowFree(Mine(h))    \* P2002: rolled back, already done
            /\ Goto(h, "countBills") /\ UNCHANGED <<points, redeemed, seen>>
         \/ /\ ~WalletCovers(applied)
            /\ Throw(h) /\ UNCHANGED <<points, redeemed>>
      /\ UNCHANGED <<payment, quote, bills, sub, active, credited, earned, outside>>

Billed(p) == bills[p].number # 0
BilledPayments == {p \in Payments : Billed(p)}
nextBillNumber == Cardinality(BilledPayments) + 1

\* The period is computed from the row read before the wallet was debited.
CountBills(h) ==
  /\ pc[h] = "countBills"
  /\ seen' = [seen EXCEPT ![h].number = nextBillNumber,
                          ![h].end = periodEnd(seen[h].sub, SeenPricing(h), now)]
  /\ Goto(h, "settle")
  /\ UNCHANGED <<table, outside>>

NotesAfter(h) ==
  CASE job[h].notes = "keep" -> seen[h].row.notes
    [] job[h].notes = "text" -> NoPricing
    [] job[h].notes = "quote" -> quote[Mine(h)]

\* With a bug: nothing keeps two bills from having the same number.
BillNumberNotUnique(p, number) == ~Billed(p)

\* Unique paymentId, and unique billNumber within the organization.
BillAccepted(p, number) ==
  /\ ~Billed(p)
  /\ \A q \in Payments : bills[q].number # number

\* The settlement transaction of a renewal or of an add-on.
Settle(h) ==
  LET p == Mine(h)
      pricing == SeenPricing(h)
  IN  /\ pc[h] = "settle"
      /\ BillAccepted(p, seen[h].number)
      /\ SetStatus(p, "PAID", NotesAfter(h))
      /\ sub' = IF isAddOnBreakdown(pricing)
                  THEN AddOnSubscription(sub, pricing)
                  ELSE RenewedSubscription(seen[h].sub, pricing, seen[h].end)
      /\ active' = TRUE
      /\ bills' = [bills EXCEPT ![p] = [number |-> seen[h].number,
                                        periodEnd |-> seen[h].end, pricing |-> pricing]]
      /\ IF isAddOnBreakdown(pricing) THEN Return(h) ELSE Goto(h, "credit") /\ UNCHANGED seen
      /\ UNCHANGED <<quote, points, redeemed, credited, earned, outside>>

SettleAborts(h) ==
  /\ pc[h] = "settle"
  /\ ~BillAccepted(Mine(h), seen[h].number)
  /\ Throw(h)
  /\ UNCHANGED <<table, outside>>

\* The referrer is credited when exactly one payment counts as PAID.
PaidCount == Cardinality({p \in Payments : payment[p].status = "PAID"})
FirstConversion == PaidCount = 1 /\ Referred

CreditReferrer(h) ==
  /\ pc[h] = "credit"
  /\ credited' = IF FirstConversion THEN credited \cup {Mine(h)} ELSE credited
  /\ Return(h)
  /\ UNCHANGED <<payment, quote, bills, sub, active, points, redeemed, earned, outside>>

\* The FAILED branch asks nothing of the payment's status.
FailPayment(h) ==
  /\ pc[h] = "fail"
  /\ SetStatus(Mine(h), "FAILED", NotesAfter(h))
  /\ sub' = IF isAddOnBreakdown(SeenPricing(h)) THEN sub ELSE [sub EXCEPT !.paymentStatus = "FAILED"]
  /\ Return(h)
  /\ UNCHANGED <<quote, bills, active, points, redeemed, credited, earned, outside>>

-----------------------------------------------------------------------------
(* Administration of the subscription row.                                 *)

BeginAdmin(h, operation, call) ==
  /\ Call(operation)
  /\ pc[h] = "idle"
  /\ pc' = [pc EXCEPT ![h] = call]
  /\ seen' = [seen EXCEPT ![h].sub = sub]
  /\ UNCHANGED <<job, table, world>>

\* patchOrganizationSubscription writes back every field of the row it read,
\* the patched one (here the expiry) and the others.
BeginPatch(h) == BeginAdmin(h, "patch", "patch")

Patch(h) ==
  /\ pc[h] = "patch"
  /\ \E end \in {seen[h].sub.expiresAt} \cup {now + term : term \in Terms} :
       sub' = [seen[h].sub EXCEPT !.expiresAt = end,
                                  !.termMonths = normalizeTermMonths(@)]
  /\ Return(h)
  /\ UNCHANGED <<payment, quote, bills, active, points, redeemed, credited, earned, outside>>

\* convertTrialSubscription.
BeginConvert(h) == sub.status = "TRIAL" /\ BeginAdmin(h, "convert", "convert")

Convert(h) ==
  /\ pc[h] = "convert"
  /\ \E term \in Terms, status \in {"PAID", "PENDING"} :
       sub' = [sub EXCEPT !.status = "ACTIVE", !.paymentStatus = status,
                          !.termMonths = term, !.expiresAt = now + term,
                          !.planCode = seen[h].sub.planCode,
                          !.limit = PlanLimit[seen[h].sub.planCode]]
  /\ Return(h)
  /\ UNCHANGED <<payment, quote, bills, active, points, redeemed, credited, earned, outside>>

Suspend ==
  /\ Call("suspend")
  /\ sub.status # "CANCELLED"
  /\ sub' = [sub EXCEPT !.status = "CANCELLED"]
  /\ active' = FALSE
  /\ UNCHANGED <<payment, quote, bills, points, redeemed, credited, earned, world, handlers>>

Restore ==
  /\ Call("suspend")
  /\ sub' = [sub EXCEPT !.status = "ACTIVE"]
  /\ active' = TRUE
  /\ UNCHANGED <<payment, quote, bills, points, redeemed, credited, earned, world, handlers>>

-----------------------------------------------------------------------------
(* What happens outside the handlers.                                      *)

\* The organization refers somebody who pays (creditReferrerWallet... upsert).
EarnPoints ==
  /\ Offered("earn")
  /\ earned < MaxEarned
  /\ points' = points + 1
  /\ earned' = earned + 1
  /\ UNCHANGED <<payment, quote, bills, sub, active, redeemed, credited, outside, handlers>>

UnchangedButGateway == UNCHANGED <<table, now, crashes, requests, handlers>>

AttemptFails(p) ==
  /\ Offered("decline")
  /\ gateway[p].state = "open" /\ ~gateway[p].tried
  /\ gateway' = [gateway EXCEPT ![p].tried = TRUE]
  /\ UnchangedButGateway

Capture(p) ==
  /\ gateway[p].state = "open"
  /\ gateway' = [gateway EXCEPT ![p].state = "captured"]
  /\ UnchangedButGateway

LinkExpires(p) ==
  /\ gateway[p].kind = "plink" /\ gateway[p].state = "open"
  /\ gateway' = [gateway EXCEPT ![p].state = "expired"]
  /\ UnchangedButGateway

Tick ==
  /\ now < MaxNow
  /\ now' = now + 1
  /\ UNCHANGED <<table, gateway, crashes, requests, handlers>>

\* The process dies: every handler stops where it is, the database stays.
Crash ==
  /\ crashes < MaxCrashes
  /\ crashes' = crashes + 1
  /\ pc' = [h \in Handlers |-> "idle"]
  /\ job' = [h \in Handlers |-> NoJob]
  /\ seen' = [h \in Handlers |-> NothingSeen]
  /\ UNCHANGED <<table, gateway, now, requests>>

-----------------------------------------------------------------------------
\* A call by the studio, the platform admin or Razorpay.
Request(h) ==
  \/ \E p \in Payments :
       \/ RequestRenewal(h, p) \/ RequestAddOns(h, p) \/ RequestPaymentLink(h, p)
       \/ Confirm(h, p) \/ Sync(h, p) \/ AdminVerify(h, p) \/ MarkPaid(h, p)
       \/ WebhookPaid(h, p) \/ WebhookFailed(h, p)
  \/ BeginPatch(h) \/ BeginConvert(h)

\* The next call of a handler that is at work.
Step(h) ==
  \/ CreateOrder(h) \/ CreateOrderFails(h) \/ FinishRequest(h)
  \/ CreateLink(h) \/ CreateLinkFails(h) \/ StoreLink(h) \/ FinishLink(h)
  \/ MarkTerm(h)
  \/ PollPaid(h) \/ PollFailed(h) \/ PollOpen(h) \/ StaleFail(h) \/ StaleKeep(h)
  \/ VerifyReadOrg(h) \/ VerifyReadPayment(h) \/ CheckWallet(h) \/ Redeem(h)
  \/ CountBills(h) \/ Settle(h) \/ SettleAborts(h) \/ CreditReferrer(h) \/ FailPayment(h)
  \/ Patch(h) \/ Convert(h)

Environment ==
  \/ EarnPoints \/ Tick \/ Crash
  \/ \E p \in Payments : AttemptFails(p) \/ Capture(p) \/ LinkExpires(p)

Next ==
  \/ \E h \in Handlers : Request(h) \/ Step(h)
  \/ Suspend \/ Restore
  \/ Environment

Spec == Init /\ [][Next]_vars

\* The server runs what it has accepted, and Razorpay redelivers a captured
\* payment's webhook until a handler has taken it.
FairSpec ==
  /\ Spec
  /\ \A h \in Handlers : WF_vars(Step(h))
  /\ \A p \in Payments : SF_vars(\E h \in Handlers : WebhookPaid(h, p))

-----------------------------------------------------------------------------
(* Properties that hold for every interleaving.                            *)

\* Two settlements may count the same bills, but the numbers of an
\* organization's bills stay 1, 2, 3, ... without a gap or a repetition
\* (nextBillNumber, the unique (organizationId, billNumber)).
BillNumbersGapless ==
  {bills[p].number : p \in BilledPayments} = 1..Cardinality(BilledPayments)

\* A payment that counts as PAID has its bill: no crash, abort or race leaves
\* money taken without one (the settlement transaction).
PaidIsBilled == \A p \in Payments : payment[p].status = "PAID" => Billed(p)

\* A bill that takes points off the price is preceded by the debit of exactly
\* those points, across retries, crashes and concurrent settlements
\* (redeemWalletPointsForPaidSubscription before the settlement).
DiscountsAreFunded ==
  \A p \in BilledPayments :
    PointsApplied(bills[p].pricing) > 0 => redeemed[p] = PointsApplied(bills[p].pricing)

\* What the ledger rows of all payments debit together.
SumOf(rows) == LET sum[n \in 0..MaxPayments] == IF n = 0 THEN 0 ELSE sum[n - 1] + rows[n]
               IN  sum[MaxPayments]

\* The wallet never goes negative and equals what was earned minus the ledger
\* rows, whatever was quoted on the same points (updateMany with points >=,
\* unique (paymentId, type)).
WalletBalanced == points >= 0 /\ points + SumOf(redeemed) = earned

\* The rows implement the abstract ledger of bills and points.
Ledger == INSTANCE BillingLedger WITH
  balance  <- points,
  debited  <- redeemed,
  issued   <- Cardinality(BilledPayments),
  number   <- [p \in Payments |-> bills[p].number],
  discount <- [p \in Payments |-> PointsApplied(bills[p].pricing)]
ImplementsLedger == Ledger!Spec

\* The bill of p is created by this step.
Settles(p) == ~Billed(p) /\ Billed(p)'

-----------------------------------------------------------------------------
(* Properties that hold while requests are served one at a time; two       *)
(* handlers break the first (see the runs that expect a violation).        *)

\* "Renew: extends expiresAt by termMonths": no settled term is ever lost and none
\* is given away, as the paid period starts at the stored end or, if that has
\* passed, no later than the settlement; and the settlement of an add-on
\* breakdown leaves the expiry alone.
SettlementExtends ==
  [][\A p \in Payments : Settles(p) =>
       LET pricing == bills'[p].pricing
           term == settledTerm(sub, pricing)
       IN  IF isAddOnBreakdown(pricing) THEN sub'.expiresAt = sub.expiresAt
           ELSE /\ sub'.expiresAt >= sub.expiresAt + term
                /\ sub'.expiresAt <= sub.expiresAt + term \/ sub'.expiresAt <= now + term]_vars

-----------------------------------------------------------------------------
(* Liveness, under FairSpec.                                               *)

\* Money that was captured ends in a bill, through failed settlements, crashes
\* and auto-failed rows, unless the points its price was quoted with are gone.
CapturedIsBilled ==
  \A p \in Payments :
    Captured(p) ~> (Billed(p) \/ points < PointsApplied(payment[p].notes))

\* Every accepted request is answered: no retry or fallback runs in a circle.
RequestsAnswered == \A h \in Handlers : pc[h] # "idle" ~> pc[h] = "idle"
=============================================================================
