--------------------------- MODULE PartyStatements ---------------------------
(***************************************************************************)
(* The ledger of one customer or supplier: its balance, the summary, the   *)
(* transactions and the two statements that party-ledger.ts computes from  *)
(* the invoices or expenses of the party, whenever one of them is opened.  *)
(* Amounts are whole numbers, so rounding to cents changes nothing; the    *)
(* order of lines and their wording are left out.                          *)
(***************************************************************************)
EXTENDS Integers, FiniteSets, Functions

CONSTANTS
  Documents,  \* ids of invoices, or of expenses
  Days,
  Items,      \* descriptions of line items, titles of expenses
  MaxAmount, MaxOpening,  \* bounds: an amount, an opening balance
  None

StatementsAssumption ==
  /\ IsFiniteSet(Documents) /\ IsFiniteSet(Items)
  /\ Days \subseteq Nat /\ IsFiniteSet(Days) /\ Days # {}
  /\ {MaxAmount, MaxOpening} \subseteq Nat
  /\ None \notin Days \cup Items

Amounts == 1..MaxAmount

VARIABLES
  party,   \* the row of the party, as its balance needs it
  booked,  \* its invoices, or expenses
  paid     \* the payment of an invoice, or what an expense says of one

vars == <<party, booked, paid>>

-----------------------------------------------------------------------------
(* Documents.                                                              *)

Party == [kind: {"customer", "supplier"}, opening: 0..MaxOpening,
          side: {None, "toCollect", "toPay"}]
Document == [day: Days, total: Amounts, item: Items]

\* Of an invoice: one payment, its date missing in old documents, what was
\* taken from the wallet, and whether its status says PAID.  Of an expense:
\* amountPaid and the status, whose date is the expense's own and which also
\* may be OVERDUE, with or without a part that has been paid.
Paid == [day: Days \cup {None}, amount: 0..MaxAmount, wallet: 0..MaxAmount,
         status: {"PENDING", "PARTIAL", "PAID", "OVERDUE"}]
Unpaid == [day |-> None, amount |-> 0, wallet |-> 0, status |-> "PENDING"]

Written == {d \in Documents : booked[d] # None}
invoices == IF party.kind = "customer" THEN Written ELSE {}
expenses == IF party.kind = "supplier" THEN Written ELSE {}

TypeOK ==
  /\ party \in Party
  /\ booked \in [Documents -> Document \cup {None}]
  /\ paid \in [Documents -> Paid]

Init ==
  /\ party \in Party
  /\ booked = [d \in Documents |-> None]
  /\ paid = [d \in Documents |-> Unpaid]

Book(d) ==
  /\ booked[d] = None
  /\ \E document \in Document : booked' = [booked EXCEPT ![d] = document]
  /\ UNCHANGED <<party, paid>>

\* The browser keeps the status of an invoice and of an expense in line with
\* what has been paid; nothing keeps anybody from paying too much.
StatusOf(d, sum) ==
  IF sum = 0 THEN "PENDING" ELSE IF sum < booked[d].total THEN "PARTIAL" ELSE "PAID"

Pay(d) ==
  /\ d \in Written
  /\ paid[d].status = "PENDING"
  /\ \E amount \in 0..MaxAmount, wallet \in 0..MaxAmount, day \in Days \cup {None} :
       /\ amount + wallet > 0
       /\ amount = 0 => day = None
       /\ party.kind = "supplier" => wallet = 0 /\ day = None
       /\ paid' = [paid EXCEPT ![d] = [day |-> day, amount |-> amount, wallet |-> wallet,
                                       status |-> StatusOf(d, amount + wallet)]]
  /\ UNCHANGED <<party, booked>>

Overdue(d) ==
  /\ d \in expenses /\ paid[d].status \in {"PENDING", "PARTIAL"}
  /\ paid' = [paid EXCEPT ![d].status = "OVERDUE"]
  /\ UNCHANGED <<party, booked>>

Next == \E d \in Documents : Book(d) \/ Pay(d) \/ Overdue(d)
Spec == Init /\ [][Next]_vars

-----------------------------------------------------------------------------
(* Balances.                                                               *)

Positive(n) == IF n > 0 THEN n ELSE 0

invoicePaidTotal(d) == paid[d].amount + paid[d].wallet
invoiceOutstanding(d) == Positive(booked[d].total - invoicePaidTotal(d))
expenseOutstanding(d) ==
  IF paid[d].status = "PAID" THEN 0 ELSE Positive(booked[d].total - paid[d].amount)

openingSide ==
  IF party.side # None THEN party.side
  ELSE IF party.kind = "customer" THEN "toCollect" ELSE "toPay"
signedOpeningBalance ==
  IF openingSide = (IF party.kind = "customer" THEN "toCollect" ELSE "toPay")
    THEN party.opening ELSE -party.opening

partyCurrentBalance ==
  signedOpeningBalance + SumFunction([d \in invoices |-> invoiceOutstanding(d)])
                       + SumFunction([d \in expenses |-> expenseOutstanding(d)])

-----------------------------------------------------------------------------
(* Statements: a set of entries, a debit above and a credit below zero.    *)

Entry(voucher, d, at, amount) == [voucher |-> voucher, of |-> d, at |-> at, amount |-> amount]
Within(entries, period) == {e \in entries : e.at \in period}
Closing(entries) == signedOpeningBalance + SumFunction([e \in entries |-> e.amount])

\* A payment whose date is missing counts on the day of its invoice.
paymentLedgerTimestamp(d) == IF paid[d].day # None THEN paid[d].day ELSE booked[d].day

SaleEntries == {Entry("sale", d, booked[d].day, booked[d].total) : d \in invoices}
PaymentEntries ==
  {Entry("payment", d, paymentLedgerTimestamp(d), -paid[d].amount) :
     d \in {i \in invoices : paid[i].amount > 0}}

\* What is paid of an expense: all of it when it is PAID, else amountPaid.
amountPaidOut(d) == IF paid[d].status = "PAID" THEN booked[d].total ELSE paid[d].amount
ExpenseEntries ==
  {Entry("purchase", d, booked[d].day, booked[d].total) : d \in expenses}
    \cup {Entry("paid", d, booked[d].day, -amountPaidOut(d)) :
            d \in {e \in expenses : amountPaidOut(e) > 0}}

\* The wallet's share is a credit of the public page alone, on the day of the
\* invoice's last payment.  With a bug: the page has none either.
NoWalletEntries == {}

WalletEntries ==
  {Entry("wallet", d, paymentLedgerTimestamp(d), -paid[d].wallet) :
     d \in {i \in invoices : paid[i].wallet > 0}}

buildPartyStatement(period) ==
  Within(SaleEntries \cup PaymentEntries \cup ExpenseEntries, period)
buildPublicCustomerStatement(period) ==
  Within(SaleEntries \cup PaymentEntries \cup WalletEntries, period)

-----------------------------------------------------------------------------
(* Transactions, summary, items.                                           *)

Status(d, due, part) ==
  IF paid[d].status = "PAID" \/ due = 0 THEN "Paid"
  ELSE IF part THEN "Partially paid" ELSE "Outstanding"

buildPartyTransactions(period) ==
  {[of |-> d, type |-> "sale", amount |-> booked[d].total,
    status |-> Status(d, invoiceOutstanding(d), invoicePaidTotal(d) > 0)] :
     d \in {i \in invoices : booked[i].day \in period}}
  \cup {[of |-> d, type |-> "payment", amount |-> paid[d].amount, status |-> ""] :
     d \in {i \in invoices : paid[i].amount > 0 /\ paymentLedgerTimestamp(i) \in period}}
  \cup {[of |-> d, type |-> "purchase", amount |-> booked[d].total,
         status |-> Status(d, expenseOutstanding(d), paid[d].status = "PARTIAL")] :
     d \in {e \in expenses : booked[e].day \in period}}

buildPartySummary(period) ==
  LET dated == {d \in Written : booked[d].day \in period}
      received == {d \in invoices : paymentLedgerTimestamp(d) \in period}
      unsettled == {d \in invoices : paid[d].status # "PAID"}
  IN  [current |-> partyCurrentBalance,
       overdue |-> SumFunction([d \in unsettled |-> invoiceOutstanding(d)])
                     + SumFunction([d \in expenses |-> expenseOutstanding(d)]),
       turnover |-> SumFunction([d \in dated |-> booked[d].total]),
       settled |-> IF party.kind = "customer"
                     THEN SumFunction([d \in received |-> paid[d].amount])
                     ELSE SumFunction([d \in dated |-> IF paid[d].status \in {"PARTIAL", "PAID"}
                                                         THEN amountPaidOut(d) ELSE 0])]

buildPartyItemWise(period) ==
  [item \in Items |->
     SumFunction([d \in {e \in Written : booked[e].day \in period /\ booked[e].item = item} |->
                    booked[d].total])]

\* GET of the public page: without an open invoice it shows the balance.
totalOutstanding ==
  LET open == SumFunction([d \in invoices |-> invoiceOutstanding(d)])
  IN  IF open > 0 THEN open ELSE partyCurrentBalance

-----------------------------------------------------------------------------
(* Properties.                                                             *)

OverPaid(d) == invoicePaidTotal(d) > booked[d].total
Periods == {{d \in Days : from <= d /\ d <= to} : from \in Days, to \in Days}

\* The views of a ledger are computed apart and must add up: over all
\* days the statement a customer is sent, and the one of a supplier, close at
\* the balance of the party unless somebody paid too much; over any period the
\* studio's statement moves by the summary's turnover less what it settled
\* (the summary forgets what was paid of an overdue expense), transactions and
\* the items of a supplier add up to the same, a transaction is called paid if
\* nothing is due of it, and all that is overdue is what the documents add to
\* the opening balance; without one, the public page asks for the balance
\* (party-ledger.ts).
LedgersAgree ==
  /\ party.kind = "customer" /\ party.opening = 0 => totalOutstanding = partyCurrentBalance
  /\ (\A d \in Written : ~OverPaid(d)) =>
       Closing(IF party.kind = "customer" THEN buildPublicCustomerStatement(Days)
               ELSE buildPartyStatement(Days)) = partyCurrentBalance
  /\ \A period \in Periods :
       LET summary == buildPartySummary(period)
           rows == buildPartyTransactions(period)
           TotalOf(types) == SumFunction([r \in {row \in rows : row.type \in types} |-> r.amount])
           due == {d \in Written : \A r \in buildPartyTransactions(Days) :
                                     r.of = d /\ r.type # "payment" => r.status # "Paid"}
       IN  /\ (\A d \in Written : paid[d].status = "OVERDUE" => paid[d].amount = 0) =>
                Closing(buildPartyStatement(period)) =
                  signedOpeningBalance + summary.turnover - summary.settled
           /\ TotalOf({"sale", "purchase"}) = summary.turnover
           /\ party.kind = "customer" => TotalOf({"payment"}) = summary.settled
           /\ summary.overdue =
                SumFunction([d \in due |-> IF d \in invoices THEN invoiceOutstanding(d)
                                                              ELSE expenseOutstanding(d)])
           /\ party.kind = "supplier" =>
                SumFunction(buildPartyItemWise(period)) = summary.turnover
           /\ summary.overdue = summary.current - signedOpeningBalance
=============================================================================
