-------------------------- MODULE MCCustomerWallet --------------------------
(* Instances of CustomerWallet for TLC.                                    *)
EXTENDS CustomerWallet, TLC

CONSTANTS b1, b2, i1, i2, p1

TwoBrowsers == {b1, b2}
TwoInvoices == {i1, i2}
OnePayment == {p1}
Symmetry == Permutations(Browsers) \cup Permutations(Invoices) \cup Permutations(Payments)
=============================================================================
