------------------------- MODULE MCInspectionReports -------------------------
(* Instances of InspectionReports for TLC.                                 *)
EXTENDS InspectionReports, TLC

CONSTANTS s1, s2, r1, r2, u1, u2, u3, d1, d2, c1, c2

OneSession == {s1}
TwoSessions == {s1, s2}
OneReport == {r1}
TwoReports == {r1, r2}
TwoUploads == {u1, u2}
ThreeUploads == {u1, u2, u3}
OneDocument == {d1}
TwoDocuments == {d1, d2}
OneCleaner == {c1}
TwoCleaners == {c1, c2}
NoFaults == {}
AcknowledgedFaults == {"crash", "erase", "persist"}
CleanupFaults == {"erase", "lostAck"}

Symmetry ==
  Permutations(Sessions) \cup Permutations(Reports) \cup Permutations(Uploads)
  \cup Permutations(Documents) \cup Permutations(Cleaners)
=============================================================================
