------------------------- MODULE MCInspectionDelivery -------------------------
(* Instances of InspectionDelivery for TLC.                                *)
EXTENDS InspectionDelivery

CONSTANTS h1, h2, h3, q1, whatsapp, email

ThreeHandlers == {h1, h2, h3}
OneRequest == {q1}
BothChannels == {whatsapp, email}
ByResend == {email}
AllFaults == {"crash", "silent", "record", "catch"}
=============================================================================
