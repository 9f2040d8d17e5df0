---------------------------- MODULE JobCardsProofs ----------------------------
(***************************************************************************)
(* For any number of cards, lines, versions and overlapping requests:      *)
(* what was billed stands on the card (JobCards!BilledPriceStands).        *)
(*                                                                         *)
(* The property alone is not inductive, since a save writes what it has    *)
(* checked before.  What it needs is Checked: a save that nothing overtook *)
(* still goes by the stored cards, and those of its cards that have an     *)
(* invoice and have been checked change no price.                          *)
(***************************************************************************)
EXTENDS JobCards, TLAPS

Documents == [Cards -> JobCardLike \cup {NoCard}]

Types ==
  /\ card \in Documents
  /\ invoice \in [Cards -> BOOLEAN]
  /\ task \in [Workers -> Save \cup {NoSave}]
  /\ billed \in Documents
  /\ kept \in [Cards -> SUBSET Keys]

\* A kept line is on a card with an invoice, at the price that was billed.
Stands(c, k) ==
  /\ invoice[c]
  /\ On(card[c], k)
  /\ card[c].lines[k] = billed[c].lines[k]
Kept == \A c \in Cards : \A k \in kept[c] : Stands(c, k)

\* What a save in progress knows, if no other request has written since it read.
Knows(w) ==
  /\ task[w].prev = card
  /\ \A c \in Cards :
       c \in Items(task[w].items) \cap Items(card) /\ invoice[c] /\ c \notin task[w].todo
         => ~jobCardHasPricingDelta(card[c], task[w].items[c])
Checked == \A w \in Workers : Busy(w) /\ w \notin overtaken => Knows(w)

Inv == Types /\ Kept /\ Checked

-----------------------------------------------------------------------------
(* Types.                                                                  *)

LEMMA NoItemsTyped == NoItems \in Documents
BY DEF NoItems, Documents

\* A request reads the cards and stores what it was sent.
LEMMA BeginTypes ==
  ASSUME Types, NEW w \in Workers, NEW whole \in BOOLEAN, NEW items \in Documents,
         NEW allowed \in BOOLEAN, BeginSave(w, whole, items, allowed)
  PROVE  Types'
<1> DEFINE save == [whole |-> whole, prev |-> card, items |-> items,
                    todo |-> Items(items) \cap Items(card), allowed |-> allowed]
<1>1. save \in Save
  BY DEF Save, Types, Documents, Items
<1>2. task' = [task EXCEPT ![w] = save]
  BY DEF BeginSave
<1>3. task' \in [Workers -> Save \cup {NoSave}]
  BY <1>1, <1>2 DEF Types
<1> QED
  BY <1>3 DEF BeginSave, Types

LEMMA CheckTypes ==
  ASSUME Types, NEW w \in Workers, NEW c \in Cards, CheckPricing(w, c)
  PROVE  Types'
<1> DEFINE checked == [task[w] EXCEPT !.todo = @ \ {c}]
<1>1. task[w] \in Save
  <2>1. NoSave.todo = {} /\ c \in task[w].todo
    BY DEF CheckPricing, NoSave
  <2> QED
    BY <2>1 DEF Types
<1>2. checked \in Save
  BY <1>1 DEF Save
<1>3. task' \in [Workers -> Save \cup {NoSave}]
  BY <1>2 DEF CheckPricing, Types
<1> QED
  BY <1>3 DEF CheckPricing, Types

\* The items of a save, idle or not, are documents.
LEMMA ItemsTyped ==
  ASSUME Types, NEW w \in Workers
  PROVE  /\ task[w].items \in Documents
         /\ task[w].whole \in BOOLEAN
<1>1. CASE task[w] \in Save
  BY <1>1 DEF Save, Documents
<1>2. CASE task[w] = NoSave
  BY <1>2, NoItemsTyped DEF NoSave
<1> QED
  BY <1>1, <1>2 DEF Types

LEMMA WriteTypes ==
  ASSUME Types, NEW w \in Workers, WriteCards(w)
  PROVE  Types'
<1>1. card' \in Documents
  BY ItemsTyped DEF WriteCards, Types, Documents
<1>2. kept' \in [Cards -> SUBSET Keys]
  BY DEF WriteCards, Types, StillOn
<1> QED
  BY <1>1, <1>2 DEF WriteCards, Types

-----------------------------------------------------------------------------
(* Requests that write without a check: they overtake every save, and      *)
(* leave no kept line where the card or its invoice is not as before.      *)

LEMMA Overtaken ==
  ASSUME JobCardsAssumption, Types, Overtakes(None), UNCHANGED task
  PROVE  Checked'
<1> SUFFICES ASSUME NEW w \in Workers, Busy(w)', w \notin overtaken'
             PROVE  FALSE
  BY DEF Checked
<1>1. Busy(w)
  BY DEF Busy
<1>2. w \in overtaken'
  BY <1>1 DEF Overtakes, JobCardsAssumption
<1> QED
  BY <1>2

\* Nothing of what a save knows has changed.
LEMMA Undisturbed ==
  ASSUME Inv, UNCHANGED <<card, invoice, task, overtaken, billed, kept>>
  PROVE  Inv'
BY DEF Inv, Types, Kept, Stands, Checked, Knows, Busy, On, Items, jobCardHasPricingDelta

\* A request that writes one card, or its invoice, without a check.
LEMMA WriteOne ==
  ASSUME JobCardsAssumption, Inv, NEW c \in Cards,
         Overtakes(None), UNCHANGED task, Types',
         \A d \in Cards \ {c} : /\ card'[d] = card[d] /\ invoice'[d] = invoice[d]
                                /\ billed'[d] = billed[d] /\ kept'[d] = kept[d],
         \A k \in kept'[c] : Stands(c, k)'
  PROVE  Inv'
<1>1. Checked'
  BY Overtaken DEF Inv
<1>2. ASSUME NEW d \in Cards, NEW k \in kept'[d]
      PROVE  Stands(d, k)'
  <2>1. CASE d = c
    BY <2>1, <1>2
  <2>2. CASE d # c
    BY <2>2, <1>2 DEF Inv, Kept, Stands, On
  <2> QED
    BY <2>1, <2>2
<1> QED
  BY <1>1, <1>2 DEF Inv, Kept

LEMMA DeleteStep ==
  ASSUME JobCardsAssumption, Inv, NEW c \in Cards, DeleteJobCard(c)
  PROVE  Inv'
<1>1. Types'
  BY DEF DeleteJobCard, Inv, Types, Documents
<1>2. kept'[c] = {}
  BY DEF DeleteJobCard, Inv, Types
<1> QED
  BY <1>1, <1>2, WriteOne DEF DeleteJobCard, Inv, Types, Documents

LEMMA ConvertStep ==
  ASSUME Inv, JobCardsAssumption,
         NEW q \in Quotes, NEW c \in Cards, NEW next \in Forms, ConvertQuotation(q, c, next)
  PROVE  Inv'
<1>1. Types'
  BY DEF ConvertQuotation, Inv, Types, Documents, JobCardsAssumption
<1>2. kept'[c] = {}
  BY DEF ConvertQuotation, Inv, Types
<1> QED
  BY <1>1, <1>2, WriteOne DEF ConvertQuotation, Inv, Types, Documents

LEMMA InvoiceStep ==
  ASSUME JobCardsAssumption, Inv, NEW c \in Cards, StoreInvoice(c) \/ RemoveInvoice(c)
  PROVE  Inv'
<1>1. CASE StoreInvoice(c)
  <2>1. Types'
    BY <1>1 DEF StoreInvoice, Inv, Types, Documents
  <2>2. \A k \in kept'[c] : Stands(c, k)'
    BY <1>1 DEF StoreInvoice, Inv, Types, Documents, Stands, On
  <2> QED
    BY <1>1, <2>1, <2>2, WriteOne DEF StoreInvoice, Inv, Types, Documents
<1>2. CASE RemoveInvoice(c)
  <2>1. Types'
    BY <1>2 DEF RemoveInvoice, Inv, Types, Documents
  <2>2. kept'[c] = {}
    BY <1>2 DEF RemoveInvoice, Inv, Types
  <2> QED
    BY <1>2, <2>1, <2>2, WriteOne DEF RemoveInvoice, Inv, Types, Documents
<1> QED
  BY <1>1, <1>2

-----------------------------------------------------------------------------
(* The saves.                                                              *)

\* A save has read what is stored, and has checked nothing yet.
LEMMA BeginStep ==
  ASSUME Inv, NEW w \in Workers, NEW whole \in BOOLEAN, NEW items \in Documents,
         NEW allowed \in BOOLEAN, BeginSave(w, whole, items, allowed)
  PROVE  Inv'
<1>1. Types'
  BY BeginTypes DEF Inv
<1>2. Kept'
  BY DEF BeginSave, Inv, Kept, Stands, On
<1>3. ASSUME NEW v \in Workers, Busy(v)', v \notin overtaken'
      PROVE  Knows(v)'
  <2>1. CASE v = w
    <3>1. /\ task'[v].prev = card
          /\ task'[v].todo = Items(task'[v].items) \cap Items(card)
      BY <2>1 DEF BeginSave, Inv, Types
    <3> QED
      BY <3>1 DEF Knows, BeginSave, Items
  <2>2. CASE v # w
    <3>1. task'[v] = task[v]
      BY <2>2 DEF BeginSave, Inv, Types
    <3>2. Knows(v)
      BY <1>3, <3>1 DEF Inv, Checked, Busy, BeginSave
    <3> QED
      BY <3>1, <3>2 DEF Knows, BeginSave, Items, jobCardHasPricingDelta, On
  <2> QED
    BY <2>1, <2>2
<1> QED
  BY <1>1, <1>2, <1>3 DEF Inv, Checked

\* A card with an invoice passes the check only if no price changes.
LEMMA CheckStep ==
  ASSUME Inv, NEW w \in Workers, NEW c \in Cards, CheckPricing(w, c)
  PROVE  Inv'
<1> DEFINE ok == evaluateJobCardPricingWrite(task[w].allowed, task[w].prev[c],
                                             task[w].items[c], invoice[c])
<1>1. Types'
  BY CheckTypes DEF Inv
<1>2. Kept'
  BY DEF CheckPricing, Inv, Kept, Stands, On
<1>3. ASSUME NEW v \in Workers, Busy(v)', v \notin overtaken'
      PROVE  Knows(v)'
  <2>1. CASE v # w
    <3>1. task'[v] = task[v] /\ v \notin overtaken
      BY <1>3, <2>1 DEF CheckPricing, Inv, Types
    <3>2. Knows(v)
      BY <1>3, <3>1 DEF Inv, Checked, Busy
    <3>3. UNCHANGED <<card, invoice>>
      BY DEF CheckPricing
    <3> QED
      BY <3>1, <3>2, <3>3 DEF Knows, Items, jobCardHasPricingDelta, On
  <2>2. CASE v = w
    <3>1. ok
      BY <1>3, <2>2 DEF CheckPricing, Busy, Inv, Types
    <3>2. w \notin overtaken /\ task'[w] = [task[w] EXCEPT !.todo = @ \ {c}]
      BY <1>3, <2>2, <3>1 DEF CheckPricing, Inv, Types
    <3>3. Busy(w)
      BY DEF CheckPricing, Busy, NoSave
    <3>4. Knows(w)
      BY <3>2, <3>3 DEF Inv, Checked
    <3>5. task[w] \in Save
      BY <3>3 DEF Inv, Types, Busy
    <3>6. /\ task'[w].prev = task[w].prev
          /\ task'[w].items = task[w].items
          /\ task'[w].todo = task[w].todo \ {c}
      BY <3>2, <3>5 DEF Save
    <3>7. invoice[c] => ~jobCardHasPricingDelta(card[c], task[w].items[c])
      BY <3>1, <3>4 DEF Knows, evaluateJobCardPricingWrite, jobCardPricingEditable
    <3> QED
      BY <2>2, <3>4, <3>6, <3>7 DEF Knows, CheckPricing, Items, jobCardHasPricingDelta, On
  <2> QED
    BY <2>1, <2>2
<1> QED
  BY <1>1, <1>2, <1>3 DEF Inv, Checked

\* What a save writes over a billed card has been checked, or leaves nothing kept.
LEMMA WriteStep ==
  ASSUME Inv, NEW w \in Workers, WriteCards(w)
  PROVE  Inv'
<1>1. Types'
  BY WriteTypes DEF Inv
<1>2. ASSUME NEW c \in Cards, NEW k \in kept'[c]
      PROVE  Stands(c, k)'
  <2>1. k \in kept[c] /\ On(card'[c], k)
    BY <1>2 DEF WriteCards, StillOn, Inv, Types
  <2>2. Stands(c, k)
    BY <2>1 DEF Inv, Kept
  <2>3. CASE card'[c] = card[c]
    BY <2>2, <2>3 DEF Stands, WriteCards, On
  <2>4. CASE card'[c] # card[c]
    <3>1. w \notin overtaken
      BY <1>2, <2>4 DEF WriteCards
    <3>2. Knows(w)
      BY <3>1 DEF WriteCards, Inv, Checked
    <3>3. card'[c] = task[w].items[c]
      BY <2>4 DEF WriteCards
    <3>4. k \in Keys
      BY <2>1 DEF Inv, Types
    <3>5. c \in Items(task[w].items) \cap Items(card)
      BY <2>1, <2>2, <3>3, <3>4 DEF Items, Stands, On, NoCard
    <3>6. ~jobCardHasPricingDelta(card[c], card'[c])
      BY <2>2, <3>2, <3>3, <3>5 DEF Knows, Stands, WriteCards
    <3>7. card'[c].lines[k] = card[c].lines[k]
      BY <2>1, <2>2, <3>4, <3>6 DEF jobCardHasPricingDelta, Stands
    <3> QED
      BY <2>1, <2>2, <3>7 DEF Stands, WriteCards, On
  <2> QED
    BY <2>3, <2>4
<1>3. ASSUME NEW v \in Workers, Busy(v)', v \notin overtaken'
      PROVE  FALSE
  <2>1. v # w
    BY <1>3 DEF WriteCards, Busy, Inv, Types
  <2>2. Busy(v)
    BY <1>3, <2>1 DEF WriteCards, Busy, Inv, Types
  <2> QED
    BY <1>3, <2>1, <2>2 DEF WriteCards, Overtakes
<1> QED
  BY <1>1, <1>2, <1>3 DEF Inv, Kept, Checked

-----------------------------------------------------------------------------
(* The theorems.                                                           *)

LEMMA InitInv == Init => Inv
BY NoItemsTyped DEF Init, Inv, Types, Kept, Checked, Busy

LEMMA NextInv ==
  ASSUME JobCardsAssumption, Inv, [Next]_vars
  PROVE  Inv'
<1>1. ASSUME NEW w \in Workers, NEW c \in Cards, NEW next \in Forms, NEW allowed \in BOOLEAN,
             PutJobCard(w, c, next, allowed)
      PROVE  Inv'
  <2>1. [NoItems EXCEPT ![c] = next] \in Documents
    BY NoItemsTyped DEF Documents, JobCardsAssumption
  <2> QED
    BY <1>1, <2>1, BeginStep DEF PutJobCard
<1>2. ASSUME NEW w \in Workers, NEW items \in [Cards -> Forms \cup {NoCard}],
             NEW allowed \in BOOLEAN, PostSnapshot(w, items, allowed)
      PROVE  Inv'
  <2>1. items \in Documents
    BY DEF Documents, JobCardsAssumption
  <2> QED
    BY <1>2, <2>1, BeginStep DEF PostSnapshot
<1>3. ASSUME NEW w \in Workers, NEW c \in Cards, CheckPricing(w, c)
      PROVE  Inv'
  BY <1>3, CheckStep
<1>4. ASSUME NEW w \in Workers, WriteCards(w)
      PROVE  Inv'
  BY <1>4, WriteStep
<1>5. ASSUME NEW c \in Cards, DeleteJobCard(c) \/ StoreInvoice(c) \/ RemoveInvoice(c)
      PROVE  Inv'
  BY <1>5, DeleteStep, InvoiceStep
<1>6. ASSUME NEW q \in Quotes, NEW c \in Cards, NEW next \in Forms, ConvertQuotation(q, c, next)
      PROVE  Inv'
  BY <1>6, ConvertStep
<1>7. ASSUME NEW q \in Quotes, NEW version \in Cards \cup {None, "open"},
             SaveQuotation(q, version)
      PROVE  Inv'
  BY <1>7, Undisturbed DEF SaveQuotation
<1>8. CASE UNCHANGED vars
  BY <1>8, Undisturbed DEF vars
<1> QED
  BY <1>1, <1>2, <1>3, <1>4, <1>5, <1>6, <1>7, <1>8 DEF Next

\* The strengthened invariant: what is kept, and what every save in progress
\* may rely on (upsertJobCard, replaceJobCards).
THEOREM Invariance ==
  ASSUME JobCardsAssumption
  PROVE  Spec => []Inv
<1>1. Inv /\ [Next]_vars => Inv'
  BY NextInv
<1> QED
  BY <1>1, InitInv, PTL DEF Spec

\* A line that was billed keeps its price through every save and snapshot, with
\* or without the permission to price (assertJobCardPricingAllowed).
THEOREM BilledPrices ==
  ASSUME JobCardsAssumption
  PROVE  Spec => []BilledPriceStands
<1>1. Inv => BilledPriceStands
  BY DEF Inv, Kept, Stands, BilledPriceStands
<1> QED
  BY <1>1, Invariance, PTL

-----------------------------------------------------------------------------
(* Types of the whole state.  Only saves in progress are overtaken: a      *)
(* check leaves its save in progress, since it is of a card that the save  *)
(* holds a version of.                                                     *)

Typed == TypeOK /\ \A w \in Workers : task[w].todo \subseteq Items(task[w].items)

LEMMA BeginTyped ==
  ASSUME JobCardsAssumption, Typed, NEW w \in Workers, NEW whole \in BOOLEAN, NEW items \in Documents,
         NEW allowed \in BOOLEAN, BeginSave(w, whole, items, allowed)
  PROVE  Typed'
<1>1. Types
  BY DEF Typed, TypeOK, Types, Documents
<1>2. Types'
  BY <1>1, BeginTypes
<1>3. overtaken' \subseteq {v \in Workers : Busy(v)'}
  BY DEF BeginSave, Typed, TypeOK, Busy
<1>4. \A v \in Workers : task'[v].todo \subseteq Items(task'[v].items)
  BY DEF BeginSave, Typed, TypeOK, Items
<1>5. quote' \in [Quotes -> Cards \cup {None, "open"}] /\ requests' \in 0..MaxRequests
  BY DEF BeginSave, Request, Typed, TypeOK, JobCardsAssumption
<1> QED
  BY <1>2, <1>3, <1>4, <1>5 DEF Typed, TypeOK, Types, Documents

LEMMA CheckTyped ==
  ASSUME Typed, NEW w \in Workers, NEW c \in Cards, CheckPricing(w, c)
  PROVE  Typed'
<1> DEFINE checked == [task[w] EXCEPT !.todo = @ \ {c}]
<1>1. Types
  BY DEF Typed, TypeOK, Types, Documents
<1>2. Types'
  BY <1>1, CheckTypes
<1>3. task[w] \in Save
  <2>1. NoSave.todo = {} /\ c \in task[w].todo
    BY DEF CheckPricing, NoSave
  <2> QED
    BY <1>1, <2>1 DEF Types
<1>4. checked.items = task[w].items /\ checked.todo = task[w].todo \ {c}
  BY <1>3 DEF Save
<1>5. checked # NoSave
  <2>1. c \in Items(task[w].items)
    BY DEF CheckPricing, Typed
  <2>2. c \notin Items(NoSave.items)
    BY DEF Items, NoSave, NoItems
  <2> QED
    BY <1>4, <2>1, <2>2
<1>6. ASSUME NEW v \in Workers
      PROVE  /\ task'[v].todo \subseteq Items(task'[v].items)
             /\ v \in overtaken' => Busy(v)'
  <2>1. CASE v # w
    BY <2>1 DEF CheckPricing, Typed, TypeOK, Busy, Items
  <2>2. CASE v = w /\ task'[w] = checked
    BY <2>2, <1>4, <1>5 DEF Typed, Busy, Items
  <2>3. CASE v = w /\ task'[w] # checked
    <3>1. task'[w] = NoSave /\ overtaken' = overtaken \ {w}
      BY <2>3, <1>1 DEF CheckPricing, Types
    <3> QED
      BY <2>3, <3>1 DEF NoSave
  <2> QED
    BY <2>1, <2>2, <2>3
<1>7. overtaken' \subseteq overtaken /\ UNCHANGED <<quote, requests>>
  BY DEF CheckPricing
<1> QED
  BY <1>2, <1>6, <1>7 DEF Typed, TypeOK, Types, Documents

LEMMA WriteTyped ==
  ASSUME Typed, NEW w \in Workers, WriteCards(w)
  PROVE  Typed'
<1>1. Types'
  BY WriteTypes DEF Typed, TypeOK, Types, Documents
<1>2. ASSUME NEW v \in Workers
      PROVE  /\ task'[v].todo \subseteq Items(task'[v].items)
             /\ v \in overtaken' => Busy(v)'
  BY DEF WriteCards, Overtakes, Typed, TypeOK, Busy, Items, NoSave
<1>3. overtaken' \subseteq Workers
  BY DEF WriteCards, Overtakes, Typed, TypeOK
<1> QED
  BY <1>1, <1>2, <1>3 DEF WriteCards, Typed, TypeOK, Types, Documents

\* A request that leaves the saves alone, but for overtaking them.
LEMMA OtherTyped ==
  ASSUME JobCardsAssumption, Typed, UNCHANGED task, UNCHANGED overtaken \/ Overtakes(None),
         Types', quote' \in [Quotes -> Cards \cup {None, "open"}], requests' \in 0..MaxRequests
  PROVE  Typed'
<1>1. overtaken' \subseteq {w \in Workers : Busy(w)'}
  BY DEF Overtakes, JobCardsAssumption, Typed, TypeOK, Busy
<1>2. \A w \in Workers : task'[w].todo \subseteq Items(task'[w].items)
  BY DEF Typed, Items
<1> QED
  BY <1>1, <1>2 DEF Typed, TypeOK, Types, Documents

LEMMA NextTyped ==
  ASSUME JobCardsAssumption, Typed, [Next]_vars
  PROVE  Typed'
<1>1. Types
  BY DEF Typed, TypeOK, Types, Documents
<1>2. ASSUME NEW w \in Workers, NEW c \in Cards, NEW next \in Forms, NEW allowed \in BOOLEAN,
             PutJobCard(w, c, next, allowed)
      PROVE  Typed'
  <2>1. [NoItems EXCEPT ![c] = next] \in Documents
    BY NoItemsTyped DEF Documents, JobCardsAssumption
  <2> QED
    BY <1>2, <2>1, BeginTyped DEF PutJobCard
<1>3. ASSUME NEW w \in Workers, NEW items \in [Cards -> Forms \cup {NoCard}],
             NEW allowed \in BOOLEAN, PostSnapshot(w, items, allowed)
      PROVE  Typed'
  <2>1. items \in Documents
    BY DEF Documents, JobCardsAssumption
  <2> QED
    BY <1>3, <2>1, BeginTyped DEF PostSnapshot
<1>4. ASSUME NEW w \in Workers, NEW c \in Cards, CheckPricing(w, c)
      PROVE  Typed'
  BY <1>4, CheckTyped
<1>5. ASSUME NEW w \in Workers, WriteCards(w)
      PROVE  Typed'
  BY <1>5, WriteTyped
<1>6. ASSUME NEW c \in Cards, DeleteJobCard(c)
      PROVE  Typed'
  <2>1. Types'
    BY <1>1, <1>6 DEF DeleteJobCard, Types, Documents
  <2> QED
    BY <1>6, <2>1, OtherTyped DEF DeleteJobCard, Request, Typed, TypeOK, JobCardsAssumption
<1>7. ASSUME NEW c \in Cards, StoreInvoice(c) \/ RemoveInvoice(c)
      PROVE  Typed'
  <2>1. Types'
    BY <1>1, <1>7 DEF StoreInvoice, RemoveInvoice, Types, Documents
  <2> QED
    BY <1>7, <2>1, OtherTyped DEF StoreInvoice, RemoveInvoice, Request, Typed, TypeOK, JobCardsAssumption
<1>8. ASSUME NEW q \in Quotes, NEW c \in Cards, NEW next \in Forms, ConvertQuotation(q, c, next)
      PROVE  Typed'
  <2>1. Types'
    BY <1>1, <1>8 DEF ConvertQuotation, Types, Documents, JobCardsAssumption
  <2>2. quote' \in [Quotes -> Cards \cup {None, "open"}] /\ requests' \in 0..MaxRequests
    BY <1>8 DEF ConvertQuotation, Request, Typed, TypeOK, JobCardsAssumption
  <2> QED
    BY <1>8, <2>1, <2>2, OtherTyped DEF ConvertQuotation
<1>9. ASSUME NEW q \in Quotes, NEW version \in Cards \cup {None, "open"},
             SaveQuotation(q, version)
      PROVE  Typed'
  <2>1. Types'
    BY <1>1, <1>9 DEF SaveQuotation, Types
  <2> QED
    BY <1>9, <2>1, OtherTyped DEF SaveQuotation, Request, Typed, TypeOK, JobCardsAssumption
<1>10. CASE UNCHANGED vars
  BY <1>10 DEF vars, Typed, TypeOK, Busy, Items
<1> QED
  BY <1>2, <1>3, <1>4, <1>5, <1>6, <1>7, <1>8, <1>9, <1>10 DEF Next

\* The types of the cards, quotations, invoices and saves in progress.
THEOREM TypeCorrect ==
  ASSUME JobCardsAssumption
  PROVE  Spec => []TypeOK
<1>1. Init => Typed
  BY NoItemsTyped DEF Init, Typed, TypeOK, Documents, NoSave, Items, JobCardsAssumption
<1>2. Typed /\ [Next]_vars => Typed'
  BY NextTyped
<1>3. Typed => TypeOK
  BY DEF Typed
<1> QED
  BY <1>1, <1>2, <1>3, PTL DEF Spec
=============================================================================
