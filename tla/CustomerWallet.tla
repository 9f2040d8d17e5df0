----------------------------- MODULE CustomerWallet -----------------------------
(***************************************************************************)
(* The wallet of one customer and the invoices that use it: the customer's *)
(* walletBalance, the walletTransactions rows that explain it, and the     *)
(* invoices, each a JSON document of the collection store.                 *)
(*                                                                         *)
(* Saving an invoice reads the stored one, settles the difference with the *)
(* wallet in a transaction of its own and stores the invoice afterwards.   *)
(* The transaction runs at READ COMMITTED and writes the balance it has    *)
(* computed from its read.  Amounts are small integers; every payment with *)
(* an extra amount has one of 1.                                           *)
(***************************************************************************)
EXTENDS Integers, FiniteSets, FiniteSetsExt

CONSTANTS
  Browsers,    \* of the staff, each with one request at a time
  Invoices,    \* ids of the customer's invoices
  Payments,    \* ids of payments on an invoice, all with an extra amount
  None,
  MaxUsed,     \* bound: walletAmountUsed of an invoice
  MaxRequests  \* bound: requests that change something

WalletAssumption ==
  /\ None \notin Invoices
  /\ IsFiniteSet(Invoices) /\ IsFiniteSet(Payments)
  /\ {MaxUsed, MaxRequests} \subseteq Nat

VARIABLES
  wallet,     \* Customer.walletBalance
  manual,     \* what patches of the customer have added to it, without a row
  entered,    \* what adjustWallet has added to it, in rows of its own
  debited,    \* by invoice: DEBIT rows for its walletAmountUsed less the CREDIT ones
  credited,   \* by invoice and payment: CREDIT rows for its extra less the DEBIT ones
  invoice,    \* the stored invoices
  copy,       \* the invoice each browser has open
  task,       \* its request
  doubtful,   \* invoices that two browsers have had open at once, or that were
              \* written past the wallet or not at all
  requests    \* how many there were

vars == <<wallet, manual, entered, debited, credited, invoice, copy, task, doubtful, requests>>

-----------------------------------------------------------------------------
(* Rows and requests.                                                      *)

\* What an invoice says of the wallet; stamped: with a walletTransactionId.
Content == [used: 0..MaxUsed, payments: SUBSET Payments, stamped: SUBSET Payments]
Blank == [used |-> 0, payments |-> {}, stamped |-> {}]

Invoice == [state: {"none", "kept", "deleted"}, content: Content]
NoInvoice == [state |-> "none", content |-> Blank]

Copy == [invoice: Invoices \cup {None}, content: Content]
NoCopy == [invoice |-> None, content |-> Blank]

Task == [at: {"idle", "settle", "write", "store", "adjust"}, invoice: Invoices \cup {None},
         old: Content, new: Content, balance: Int, amount: Int]
NoTask == [at |-> "idle", invoice |-> None, old |-> Blank, new |-> Blank,
           balance |-> 0, amount |-> 0]

\* The wallet never goes negative, however its writers overlap.
TypeOK ==
  /\ wallet \in Nat
  /\ manual \in Int /\ entered \in Int
  /\ debited \in [Invoices -> Int]
  /\ credited \in [Invoices -> [Payments -> Int]]
  /\ invoice \in [Invoices -> Invoice]
  /\ copy \in [Browsers -> Copy]
  /\ task \in [Browsers -> Task]
  /\ doubtful \subseteq Invoices
  /\ requests \in 0..MaxRequests

Init ==
  /\ wallet = 0 /\ manual = 0 /\ entered = 0
  /\ debited = [i \in Invoices |-> 0]
  /\ credited = [i \in Invoices |-> [p \in Payments |-> 0]]
  /\ invoice = [i \in Invoices |-> NoInvoice]
  /\ copy = [b \in Browsers |-> NoCopy]
  /\ task = [b \in Browsers |-> NoTask]
  /\ doubtful = {}
  /\ requests = 0

At(b, step) == task[b].at = step
Mine(b) == task[b].invoice
Goto(b, step) == task' = [task EXCEPT ![b].at = step]
Return(b) == task' = [task EXCEPT ![b] = NoTask]
Request(b) == At(b, "idle") /\ requests < MaxRequests /\ requests' = requests + 1

Busy(i) == \E b \in Browsers : Mine(b) = i

-----------------------------------------------------------------------------
(* Browsers.                                                               *)

Open(b, i) ==
  /\ At(b, "idle")
  /\ invoice[i].state = "kept"
  /\ copy[b] # [invoice |-> i, content |-> invoice[i].content]
  /\ copy' = [copy EXCEPT ![b] = [invoice |-> i, content |-> invoice[i].content]]
  /\ doubtful' = IF \E other \in Browsers \ {b} : copy[other].invoice = i
                    THEN doubtful \cup {i} ELSE doubtful
  /\ UNCHANGED <<wallet, manual, entered, debited, credited, invoice, task, requests>>

\* A new invoice has an id of its own.
Start(b, i) ==
  /\ At(b, "idle")
  /\ invoice[i].state = "none"
  /\ \A other \in Browsers : copy[other].invoice # i
  /\ copy' = [copy EXCEPT ![b] = [invoice |-> i, content |-> Blank]]
  /\ UNCHANGED <<wallet, manual, entered, debited, credited, invoice, task, doubtful, requests>>

\* The edit of an open invoice keeps the stamps that came with it.
Edits(content) ==
  {[used |-> used, payments |-> payments, stamped |-> content.stamped \cap payments] :
     used \in 0..MaxUsed, payments \in SUBSET Payments}

-----------------------------------------------------------------------------
(* upsertInvoice: the stored invoice, the wallet, the new invoice.         *)

\* Whatever the browser has open, though it was deleted: no row is a blank one.
\* The answer is "ok": a browser keeps what it has sent, without new stamps.
Save(b) ==
  LET i == copy[b].invoice IN
  /\ Request(b)
  /\ i # None
  /\ \E new \in Edits(copy[b].content) :
       /\ task' = [task EXCEPT ![b] = [NoTask EXCEPT !.at = "settle", !.invoice = i,
                                         !.old = invoice[i].content, !.new = new]]
       /\ copy' = [copy EXCEPT ![b].content = new]
  /\ UNCHANGED <<wallet, manual, entered, debited, credited, invoice, doubtful>>

\* The transaction begins: customer.walletBalance.
ReadBalance(b) ==
  /\ At(b, "settle")
  /\ task' = [task EXCEPT ![b].at = "write", ![b].balance = wallet]
  /\ UNCHANGED <<wallet, manual, entered, debited, credited, invoice, copy, doubtful, requests>>

\* With a bug: the whole amount is taken, not the difference to the stored one.
WholeAmount(old, new) == new.used
UsedDiff(old, new) == new.used - old.used

\* With a bug: a payment counts by its id, not by its stamp.
FreshById(old, new) == (new.payments \ old.payments) \ new.stamped
Fresh(old, new) == new.payments \ new.stamped
Removed(old, new) == old.stamped \ new.payments

Reversible(balance, credit, reversal) == balance + credit >= reversal

Payable(b) ==
  LET old == task[b].old
      new == task[b].new
      diff == UsedDiff(old, new)
  IN  /\ diff > 0 => task[b].balance >= diff
      /\ Removed(old, new) # {} =>
           Reversible(task[b].balance - diff, Cardinality(Fresh(old, new)), Cardinality(Removed(old, new)))

NewBalance(b) ==
  task[b].balance - UsedDiff(task[b].old, task[b].new)
    + Cardinality(Fresh(task[b].old, task[b].new)) - Cardinality(Removed(task[b].old, task[b].new))

\* The rows, the balance and the commit; fresh payments are stamped.
Settle(b) ==
  LET i == Mine(b)
      fresh == Fresh(task[b].old, task[b].new)
      removed == Removed(task[b].old, task[b].new)
  IN  /\ At(b, "write")
      /\ Payable(b)
      /\ wallet' = NewBalance(b)
      /\ debited' = [debited EXCEPT ![i] = @ + UsedDiff(task[b].old, task[b].new)]
      /\ credited' = [credited EXCEPT ![i] =
                        [p \in Payments |-> @[p] + (IF p \in fresh THEN 1 ELSE 0)
                                                 - (IF p \in removed THEN 1 ELSE 0)]]
      /\ task' = [task EXCEPT ![b].at = "store", ![b].new.stamped = @ \cup fresh]
      /\ UNCHANGED <<manual, entered, invoice, copy, doubtful, requests>>

\* The balance does not cover it: nothing is settled and nothing stored.
Refuse(b) ==
  /\ At(b, "write")
  /\ ~Payable(b)
  /\ Return(b)
  /\ UNCHANGED <<wallet, manual, entered, debited, credited, invoice, copy, doubtful, requests>>

\* upsertCollectionItem; the row of an invoice deleted meanwhile comes back.
Store(b) ==
  LET i == Mine(b) IN
  /\ At(b, "store")
  /\ invoice' = [invoice EXCEPT ![i] = [state |-> "kept", content |-> task[b].new]]
  /\ Return(b)
  /\ UNCHANGED <<wallet, manual, entered, debited, credited, copy, doubtful, requests>>

\* A crash or an error of the database between the commit and the store.
StoreFails(b) ==
  /\ At(b, "store")
  /\ doubtful' = doubtful \cup {Mine(b)}
  /\ Return(b)
  /\ UNCHANGED <<wallet, manual, entered, debited, credited, invoice, copy, requests>>

\* deleteInvoice leaves the wallet alone.
Delete(b) ==
  LET i == copy[b].invoice IN
  /\ Request(b)
  /\ i # None /\ invoice[i].state = "kept"
  /\ invoice' = [invoice EXCEPT ![i] = [state |-> "deleted", content |-> Blank]]
  /\ doubtful' = doubtful \cup {i}
  /\ UNCHANGED <<wallet, manual, entered, debited, credited, copy, task>>

\* replaceInvoices with the invoice as the browser has it, past the wallet:
\* a snapshot holds every invoice, the others as they are.
Snapshot(b) ==
  LET i == copy[b].invoice IN
  /\ Request(b)
  /\ i # None
  /\ \E new \in Edits(copy[b].content) :
       invoice' = [invoice EXCEPT ![i] = [state |-> "kept", content |-> new]]
  /\ doubtful' = doubtful \cup {i}
  /\ UNCHANGED <<wallet, manual, entered, debited, credited, copy, task>>

-----------------------------------------------------------------------------
(* The customer: PATCH /:id/wallet and PATCH /:id.                         *)

Adjust(b, amount) ==
  /\ Request(b)
  /\ task' = [task EXCEPT ![b] = [NoTask EXCEPT !.at = "adjust", !.balance = wallet,
                                                !.amount = amount]]
  /\ UNCHANGED <<wallet, manual, entered, debited, credited, invoice, copy, doubtful>>

Covered(b) == task[b].balance + task[b].amount >= 0

AdjustWallet(b) ==
  /\ At(b, "adjust")
  /\ IF Covered(b)
       THEN /\ wallet' = task[b].balance + task[b].amount
            /\ entered' = entered + task[b].amount
       ELSE UNCHANGED <<wallet, entered>>
  /\ Return(b)
  /\ UNCHANGED <<manual, debited, credited, invoice, copy, doubtful, requests>>

PatchCustomer(b, balance) ==
  /\ Request(b)
  /\ wallet' = balance
  /\ manual' = manual + balance - wallet
  /\ UNCHANGED <<entered, debited, credited, invoice, copy, task, doubtful>>

-----------------------------------------------------------------------------
Next ==
  \E b \in Browsers :
    \/ \E i \in Invoices : Open(b, i) \/ Start(b, i)
    \/ Save(b) \/ ReadBalance(b) \/ Settle(b) \/ Refuse(b) \/ Store(b) \/ StoreFails(b)
    \/ Delete(b) \/ Snapshot(b)
    \/ \E amount \in {-1, 1} : Adjust(b, amount)
    \/ AdjustWallet(b)
    \/ \E balance \in 0..MaxUsed : PatchCustomer(b, balance)

Spec == Init /\ [][Next]_vars

-----------------------------------------------------------------------------
(* Properties.                                                             *)

Settled(i) == invoice[i].state = "kept" /\ i \notin doubtful /\ ~Busy(i)

\* What an invoice says was paid from the wallet is what its rows debit, over
\* every save that raised, lowered or was refused it, while other invoices
\* and adjustments use the same wallet.
WalletIsDebited == \A i \in Invoices : Settled(i) => debited[i] = invoice[i].content.used

\* The extra of every payment on an invoice has been credited, and has its
\* stamp: the payment can be reversed when it is deleted.
ExtrasAreCredited ==
  \A i \in Invoices : Settled(i) =>
    \A p \in invoice[i].content.payments : p \in invoice[i].content.stamped /\ credited[i][p] >= 1

\* "inside a single Prisma transaction to ensure strict consistency": where
\* only invoices have moved the balance, it is what their rows add up to.
Sum(f) == MapThenSumSet(LAMBDA x : f[x], DOMAIN f)
BalanceIsExplained ==
  manual = 0 /\ entered = 0 =>
    wallet = Sum([i \in Invoices |-> Sum(credited[i])]) - Sum(debited)
=============================================================================
