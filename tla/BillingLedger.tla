--------------------------- MODULE BillingLedger ----------------------------
(***************************************************************************)
(* What the billing of one organization promises, whatever its handlers    *)
(* do: bills are numbered 1, 2, 3, ... without a gap, a payment is billed  *)
(* at most once and its bill never changes, points leave the wallet at     *)
(* most once for a payment, never more than there are, and a bill gives a  *)
(* discount only for points that have left the wallet before.              *)
(***************************************************************************)
EXTENDS Integers

CONSTANTS Payments

VARIABLES
  balance,   \* points in the wallet
  debited,   \* points taken from the wallet for a payment, 0 if none yet
  issued,    \* the number of the last bill
  number,    \* the number of a payment's bill, 0 if it has none
  discount   \* the points a payment's bill takes off the price

vars == <<balance, debited, issued, number, discount>>

Init ==
  /\ balance = 0
  /\ debited = [p \in Payments |-> 0]
  /\ issued = 0
  /\ number = [p \in Payments |-> 0]
  /\ discount = [p \in Payments |-> 0]

Earn ==
  /\ balance' = balance + 1
  /\ UNCHANGED <<debited, issued, number, discount>>

Debit(p, n) ==
  /\ debited[p] = 0
  /\ n \in 1..balance
  /\ balance' = balance - n
  /\ debited' = [debited EXCEPT ![p] = n]
  /\ UNCHANGED <<issued, number, discount>>

Issue(p, n) ==
  /\ number[p] = 0
  /\ n \in {0, debited[p]}
  /\ issued' = issued + 1
  /\ number' = [number EXCEPT ![p] = issued + 1]
  /\ discount' = [discount EXCEPT ![p] = n]
  /\ UNCHANGED <<balance, debited>>

Next ==
  \/ Earn
  \/ \E p \in Payments :
       \/ \E n \in 1..balance : Debit(p, n)
       \/ \E n \in {0, debited[p]} : Issue(p, n)

Spec == Init /\ [][Next]_vars
=============================================================================
