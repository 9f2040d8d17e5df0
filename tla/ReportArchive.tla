----------------------------- MODULE ReportArchive -----------------------------
(***************************************************************************)
(* What the archive of inspection reports promises, whatever its requests  *)
(* and its cleanup do: a report is frozen under growing revision numbers,  *)
(* each snapshot with a document of its own; a snapshot is never changed   *)
(* nor withdrawn; and the objects it is made of are in the storage when it *)
(* is published and stay there.                                            *)
(***************************************************************************)
EXTENDS Integers

CONSTANTS
  Reports,
  Revisions,
  Photos,
  Documents,
  Nothing,    \* what the archive has for a revision that was not published
  Safe        \* the objects that it promises to keep

VARIABLES
  archive,    \* the snapshots, by report and revision
  stored      \* the objects in the storage

vars == <<archive, stored>>

Snapshot == [photos: SUBSET Photos, document: Documents]
Objects(snapshot) == snapshot.photos \cup {snapshot.document}
Published(r) == {n \in Revisions : archive[r][n] # Nothing}

Init ==
  /\ archive = [r \in Reports |-> [n \in Revisions |-> Nothing]]
  /\ stored = {}

Publish(r, n, snapshot) ==
  /\ \A older \in Published(r) : older < n
  /\ \A q \in Reports : \A m \in Published(q) : archive[q][m].document # snapshot.document
  /\ Objects(snapshot) \cap Safe \subseteq stored
  /\ archive' = [archive EXCEPT ![r][n] = snapshot]
  /\ UNCHANGED stored

\* Objects come and go, but for those of snapshots.
Store ==
  /\ stored' \subseteq Photos \cup Documents
  /\ \A r \in Reports : \A n \in Published(r) : Objects(archive[r][n]) \cap Safe \subseteq stored'
  /\ UNCHANGED archive

Next ==
  \/ Store
  \/ \E r \in Reports, n \in Revisions, snapshot \in Snapshot : Publish(r, n, snapshot)

Spec == Init /\ [][Next]_vars
=============================================================================
