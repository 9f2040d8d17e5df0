------------------------------- MODULE JobCards -------------------------------
(***************************************************************************)
(* Job cards and the quotations they are made from: documents of the       *)
(* AppJsonRow table.  A save reads the stored card, asks whether an        *)
(* invoice names it, and writes later; prices may change only while there  *)
(* is none.                                                                *)
(***************************************************************************)
EXTENDS Naturals, FiniteSets

CONSTANTS
  Cards,      \* ids of job cards
  Quotes,     \* ids of quotations
  Keys,       \* what identifies a service line: its id or its catalogue entry
  Prices,     \* amounts
  Forms,      \* the versions of a card that clients save
  Workers,    \* requests that can be in progress at once
  None,
  MaxRequests \* bound: requests

VARIABLES
  card,      \* the jobCards collection
  quote,     \* the quotations: None, "open" or the card they were converted to
  invoice,   \* does an invoice name the card
  task,      \* the save of each worker
  overtaken, \* workers whose save was read before another request's write
  billed,    \* the card when its invoice was stored
  kept,      \* lines on the card ever since then, through saves nothing overtook
  requests   \* how many there were

vars == <<card, quote, invoice, task, overtaken, billed, kept, requests>>

-----------------------------------------------------------------------------
(* Documents.                                                              *)

\* custom: isCustomPrice, with the priceSource that goes with it.
Line == [price: Prices, custom: BOOLEAN]
NoLine == [price |-> None, custom |-> FALSE]

\* closed: DELIVERED or CANCELLED.  advance stands for the six fields of the
\* advance, all compared the same way.
JobCardLike == [lines: [Keys -> Line \cup {NoLine}], advance: Prices, closed: BOOLEAN]
NoCard == [lines |-> [k \in Keys |-> NoLine], advance |-> None, closed |-> FALSE]

JobCardsAssumption ==
  /\ IsFiniteSet(Cards) /\ IsFiniteSet(Workers)
  /\ None \notin Cards \cup Workers \cup {"open"}
  /\ Forms \subseteq JobCardLike
  /\ MaxRequests \in Nat

On(c, k) == c.lines[k] # NoLine
NoItems == [c \in Cards |-> NoCard]
Items(documents) == {c \in Cards : documents[c] # NoCard}

\* A save of one card, or of all of them (whole): what was stored when it
\* began, what shall be stored, the cards whose prices are not checked yet.
Save == [whole: BOOLEAN, prev: [Cards -> JobCardLike \cup {NoCard}],
         items: [Cards -> JobCardLike \cup {NoCard}], todo: SUBSET Cards, allowed: BOOLEAN]
NoSave == [whole |-> FALSE, prev |-> NoItems, items |-> NoItems, todo |-> {}, allowed |-> FALSE]

Busy(w) == task[w] # NoSave

TypeOK ==
  /\ card \in [Cards -> JobCardLike \cup {NoCard}]
  /\ quote \in [Quotes -> Cards \cup {None, "open"}]
  /\ invoice \in [Cards -> BOOLEAN]
  /\ task \in [Workers -> Save \cup {NoSave}]
  /\ overtaken \subseteq {w \in Workers : Busy(w)}
  /\ billed \in [Cards -> JobCardLike \cup {NoCard}]
  /\ kept \in [Cards -> SUBSET Keys]
  /\ requests \in 0..MaxRequests

Init ==
  /\ card = NoItems
  /\ quote = [q \in Quotes |-> None]
  /\ invoice = [c \in Cards |-> FALSE]
  /\ task = [w \in Workers |-> NoSave]
  /\ overtaken = {}
  /\ billed = NoItems /\ kept = [c \in Cards |-> {}]
  /\ requests = 0

Request == requests < MaxRequests /\ requests' = requests + 1

\* Every other save in progress goes by what it read before this write.
Overtakes(w) == overtaken' = (overtaken \cup {v \in Workers : Busy(v)}) \ {w}

-----------------------------------------------------------------------------
(* Saving cards.                                                           *)

\* With a bug: an invoice no longer locks the prices.
EditableUntilClosed(c, hasInvoice) == ~c.closed
jobCardPricingEditable(c, hasInvoice) == ~c.closed /\ ~hasInvoice

\* Only the lines of the new version are looked at, and of those with one key only
\* the last, as a Map keeps it: that is the line lines[k] stands for.
jobCardHasPricingDelta(prev, next) ==
  \/ prev.advance # next.advance
  \/ \E k \in Keys : /\ On(next, k)
                     /\ IF On(prev, k) THEN prev.lines[k] # next.lines[k]
                                       ELSE next.lines[k].custom

evaluateJobCardPricingWrite(allowed, prev, next, hasInvoice) ==
  jobCardHasPricingDelta(prev, next) => allowed /\ jobCardPricingEditable(prev, hasInvoice)

\* upsertJobCard, replaceJobCards: what is stored is read first.
BeginSave(w, whole, items, allowed) ==
  /\ ~Busy(w) /\ Request
  /\ task' = [task EXCEPT ![w] = [whole |-> whole, prev |-> card, items |-> items,
                                  todo |-> Items(items) \cap Items(card), allowed |-> allowed]]
  /\ UNCHANGED <<card, quote, invoice, overtaken, billed, kept>>

PutJobCard(w, c, next, allowed) == BeginSave(w, FALSE, [NoItems EXCEPT ![c] = next], allowed)
PostSnapshot(w, items, allowed) == BeginSave(w, TRUE, items, allowed)

\* assertJobCardPricingAllowed, card by card; a refusal ends the request.
CheckPricing(w, c) ==
  /\ c \in task[w].todo
  /\ LET ok == evaluateJobCardPricingWrite(task[w].allowed, task[w].prev[c], task[w].items[c],
                                           invoice[c])
     IN  /\ task' = [task EXCEPT ![w] = IF ok THEN [task[w] EXCEPT !.todo = @ \ {c}] ELSE NoSave]
         /\ overtaken' = IF ok THEN overtaken ELSE overtaken \ {w}
  /\ UNCHANGED <<card, quote, invoice, billed, kept, requests>>

\* What is left of the lines that stood since the invoice.
StillOn(c, next) == {k \in kept[c] : On(next, k)}

\* upsertCollectionItem, or replaceCollectionArray: all rows deleted, those of
\* the request created, in one transaction.
WriteCards(w) ==
  /\ Busy(w) /\ task[w].todo = {}
  /\ card' = [c \in Cards |-> IF task[w].whole \/ c \in Items(task[w].items)
                              THEN task[w].items[c] ELSE card[c]]
  /\ kept' = [c \in Cards |-> IF w \in overtaken /\ card'[c] # card[c] THEN {}
                              ELSE StillOn(c, card'[c])]
  /\ Overtakes(w)
  /\ task' = [task EXCEPT ![w] = NoSave]
  /\ UNCHANGED <<quote, invoice, billed, requests>>

DeleteJobCard(c) ==
  /\ Request
  /\ card[c] # NoCard
  /\ card' = [card EXCEPT ![c] = NoCard]
  /\ kept' = [kept EXCEPT ![c] = {}]
  /\ Overtakes(None)
  /\ UNCHANGED <<quote, invoice, task, billed>>

-----------------------------------------------------------------------------
(* Quotations.                                                             *)

\* convertQuotationToJob: both documents are stored in one transaction, whatever
\* is stored already, and without the check of the prices.
ConvertQuotation(q, c, next) ==
  /\ Request
  /\ card' = [card EXCEPT ![c] = next]
  /\ quote' = [quote EXCEPT ![q] = c]
  /\ kept' = [kept EXCEPT ![c] = {}]
  /\ Overtakes(None)
  /\ UNCHANGED <<invoice, task, billed>>

\* putQuotation, deleteQuotationRow and the snapshot: any version, or none.
SaveQuotation(q, version) ==
  /\ Request
  /\ quote' = [quote EXCEPT ![q] = version]
  /\ UNCHANGED <<card, invoice, task, overtaken, billed, kept>>

-----------------------------------------------------------------------------
(* Invoices, as the check of the prices sees them.                         *)

StoreInvoice(c) ==
  /\ Request
  /\ ~invoice[c] /\ card[c] # NoCard
  /\ invoice' = [invoice EXCEPT ![c] = TRUE]
  /\ billed' = [billed EXCEPT ![c] = card[c]]
  /\ kept' = [kept EXCEPT ![c] = {k \in Keys : On(card[c], k)}]
  /\ Overtakes(None)
  /\ UNCHANGED <<card, quote, task>>

RemoveInvoice(c) ==
  /\ Request
  /\ invoice[c]
  /\ invoice' = [invoice EXCEPT ![c] = FALSE]
  /\ billed' = [billed EXCEPT ![c] = NoCard]
  /\ kept' = [kept EXCEPT ![c] = {}]
  /\ Overtakes(None)
  /\ UNCHANGED <<card, quote, task>>

-----------------------------------------------------------------------------

Next ==
  \/ \E w \in Workers, c \in Cards, next \in Forms, allowed \in BOOLEAN :
       PutJobCard(w, c, next, allowed)
  \/ \E w \in Workers, items \in [Cards -> Forms \cup {NoCard}], allowed \in BOOLEAN :
       PostSnapshot(w, items, allowed)
  \/ \E w \in Workers, c \in Cards : CheckPricing(w, c)
  \/ \E w \in Workers : WriteCards(w)
  \/ \E c \in Cards : DeleteJobCard(c) \/ StoreInvoice(c) \/ RemoveInvoice(c)
  \/ \E q \in Quotes, c \in Cards, next \in Forms : ConvertQuotation(q, c, next)
  \/ \E q \in Quotes, version \in Cards \cup {None, "open"} : SaveQuotation(q, version)

Spec == Init /\ [][Next]_vars

\* What a customer was billed stands on the card: a line that has been on it
\* since the invoice was stored has the price of that moment, whatever saves
\* and snapshots, with and without the permission to price, came after.  The
\* lines of a card that was deleted, converted to again, or written by a save
\* that read before another write, are left out: there the code does not keep it.
BilledPriceStands ==
  \A c \in Cards : \A k \in kept[c] : card[c].lines[k] = billed[c].lines[k]
=============================================================================
