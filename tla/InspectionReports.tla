--------------------------- MODULE InspectionReports ---------------------------
(***************************************************************************)
(* The inspection reports of one branch: reports, their frozen versions    *)
(* and the photo uploads in PostgreSQL, photos and PDFs in the object      *)
(* storage, the request handlers of inspection.service.ts and the cleanup  *)
(* of uploads nobody linked.                                               *)
(*                                                                         *)
(* A transaction runs at READ COMMITTED: what it reads may be gone when it *)
(* writes, and only the report row it has updated is locked, until its     *)
(* commit.  The storage takes no part in any transaction.  What a session  *)
(* knows (copy) is what its browser has last read; work is the call of its *)
(* request that comes next.                                                *)
(***************************************************************************)
EXTENDS Integers, FiniteSets

CONSTANTS
  Sessions,     \* browsers of the studio, each with one request at a time
  Reports,      \* ids of reports
  Uploads,      \* ids of photo uploads
  Documents,    \* object keys of PDFs, fresh for every attempt to finalize
  Cleaners,     \* runs of the cleanup job that may overlap
  None,
  MaxPhotos,    \* photos a report may have (24 in the code)
  MaxRevision,  \* bound: revisions of a report
  Faults,       \* what may go wrong: "crash", "lostAck", "erase", "persist"
  MaxFaults     \* bound: how often

ASSUME ReportsAssumption ==
  /\ None \notin Reports \cup Uploads \cup Documents \cup Sessions
  /\ Uploads \cap Documents = {}
  /\ IsFiniteSet(Uploads)
  /\ {MaxPhotos, MaxRevision, MaxFaults} \subseteq Nat

VARIABLES
  report,   \* InspectionReport rows
  version,  \* InspectionReportVersion rows, by report and revision
  upload,   \* InspectionUpload rows
  stored,   \* objects in the storage: photos by their upload, PDFs by their key
  written,  \* PDF keys ever used
  lock,     \* the transaction that has updated a report row and not yet ended
  copy,     \* what each browser has last seen of a report
  work,     \* the request of each session
  sweep,    \* the runs of the cleanup job
  faults    \* what has gone wrong so far

vars == <<report, version, upload, stored, written, lock, copy, work, sweep, faults>>

-----------------------------------------------------------------------------
(* Rows, requests and the type invariant.                                  *)

Revisions == 1..MaxRevision

Report == [status: {"NONE", "DRAFT", "FINAL"}, revision: 0..MaxRevision,
           photos: SUBSET Uploads, deleted: BOOLEAN]
NoReport == [status |-> "NONE", revision |-> 0, photos |-> {}, deleted |-> FALSE]

Version == [photos: SUBSET Uploads, document: Documents \cup {None}]
NoVersion == [photos |-> {}, document |-> None]

\* new: the row is there, the photo is still being stored; ready: the browser
\* knows the id; lost: the request died in between; gone: the row is deleted.
Upload == [state: {"none", "new", "ready", "lost", "gone"}, report: Reports \cup {None},
           expiry: {"never", "running", "over"}, cleaning: BOOLEAN]
NoUpload == [state |-> "none", report |-> None, expiry |-> "running", cleaning |-> FALSE]

Copy == [report: Reports \cup {None}, revision: 0..MaxRevision, photos: SUBSET Uploads]
NoCopy == [report |-> None, revision |-> 0, photos |-> {}]

Work == [at: {"idle", "lock", "link", "save", "photos", "pdf", "freeze", "discard"},
         report: Reports \cup {None}, revision: 0..MaxRevision, photos: SUBSET Uploads,
         pending: Nat, document: Documents \cup {None}]
Request(at, r, n, photos) ==
  [at |-> at, report |-> r, revision |-> n, photos |-> photos, pending |-> 0, document |-> None]
Idle == Request("idle", None, 0, {})

Sweep == [at: {"idle", "claim", "erase", "delete", "unclaim"},
          todo: SUBSET Uploads, upload: Uploads \cup {None}]
NoSweep == [at |-> "idle", todo |-> {}, upload |-> None]

\* An upload has an expiry exactly while no report has it.
TypeOK ==
  /\ report \in [Reports -> Report]
  /\ version \in [Reports -> [Revisions -> Version]]
  /\ upload \in [Uploads -> Upload]
  /\ \A u \in Uploads : upload[u].report = None <=> upload[u].expiry # "never"
  /\ stored \subseteq Uploads \cup Documents
  /\ written \subseteq Documents
  /\ lock \in [Reports -> Sessions \cup {None}]
  /\ copy \in [Sessions -> Copy]
  /\ work \in [Sessions -> Work]
  /\ sweep \in [Cleaners -> Sweep]
  /\ faults \in 0..MaxFaults

Init ==
  /\ report = [r \in Reports |-> NoReport]
  /\ version = [r \in Reports |-> [n \in Revisions |-> NoVersion]]
  /\ upload = [u \in Uploads |-> NoUpload]
  /\ stored = {}
  /\ written = {}
  /\ lock = [r \in Reports |-> None]
  /\ copy = [s \in Sessions |-> NoCopy]
  /\ work = [s \in Sessions |-> Idle]
  /\ sweep = [c \in Cleaners |-> NoSweep]
  /\ faults = 0

-----------------------------------------------------------------------------
HasRow(u) == upload[u].state \in {"new", "ready", "lost"}
Linked(r) == {u \in Uploads : HasRow(u) /\ upload[u].report = r}
Unlinked(u) == HasRow(u) /\ upload[u].report = None /\ ~upload[u].cleaning
Live(r) == report[r].status # "NONE" /\ ~report[r].deleted
Frozen(r) == {n \in Revisions : version[r][n] # NoVersion}

Fault(kind) ==
  /\ kind \in Faults
  /\ faults < MaxFaults
  /\ faults' = faults + 1

At(s, call) == work[s].at = call
Mine(s) == work[s].report
Goto(s, call) == work' = [work EXCEPT ![s].at = call]
Return(s) == work' = [work EXCEPT ![s] = Idle]
Sees(s, r, n, photos) ==
  copy' = [copy EXCEPT ![s] = [report |-> r, revision |-> n, photos |-> photos]]

\* The revision a browser sends along is the one it has read.
Seen(s) == copy[s].report
Current(s, status) ==
  /\ copy[s] # NoCopy
  /\ Live(Seen(s))
  /\ report[Seen(s)].revision = copy[s].revision
  /\ report[Seen(s)].status = status

-----------------------------------------------------------------------------
(* uploadInspectionPhoto: the row first, then the photo.                   *)

StartUpload(u) ==
  /\ upload[u].state = "none"
  /\ upload' = [upload EXCEPT ![u].state = "new"]
  /\ UNCHANGED <<report, version, stored, written, lock, copy, work, sweep, faults>>

Persist(u) ==
  /\ upload[u].state = "new"
  /\ upload' = [upload EXCEPT ![u].state = "ready"]
  /\ stored' = stored \cup {u}
  /\ UNCHANGED <<report, version, written, lock, copy, work, sweep, faults>>

\* The row is deleted again; the storage may have taken the photo all the same.
PersistFails(u) ==
  /\ upload[u].state = "new"
  /\ Fault("persist")
  /\ upload' = [upload EXCEPT ![u].state = "gone"]
  /\ stored' \in {stored, stored \cup {u}}
  /\ UNCHANGED <<report, version, written, lock, copy, work, sweep>>

\* 24 hours pass.
Expire(u) ==
  /\ upload[u].state \in {"ready", "lost"}
  /\ upload[u].expiry = "running"
  /\ upload' = [upload EXCEPT ![u].expiry = "over"]
  /\ UNCHANGED <<report, version, stored, written, lock, copy, work, sweep, faults>>

-----------------------------------------------------------------------------
(* createInspection and updateInspection.                                  *)

Known == {u \in Uploads : upload[u].state \in {"ready", "gone"}}

Read(s, r) ==
  /\ At(s, "idle")
  /\ Live(r)
  /\ Sees(s, r, report[r].revision, report[r].photos)
  /\ UNCHANGED <<report, version, upload, stored, written, lock, work, sweep, faults>>

\* The new row is invisible until the commit.
Create(s, r) ==
  /\ At(s, "idle")
  /\ report[r].status = "NONE" /\ lock[r] = None
  /\ lock' = [lock EXCEPT ![r] = s]
  /\ \E photos \in SUBSET Known : work' = [work EXCEPT ![s] = Request("link", r, 0, photos)]
  /\ UNCHANGED <<report, version, upload, stored, written, copy, sweep, faults>>

Update(s) ==
  /\ At(s, "idle")
  /\ Current(s, "DRAFT")
  /\ copy[s].revision < MaxRevision
  /\ \E photos \in SUBSET Known :
       work' = [work EXCEPT ![s] = Request("lock", Seen(s), copy[s].revision, photos)]
  /\ UNCHANGED <<report, version, upload, stored, written, lock, copy, sweep, faults>>

\* The WHERE clause of the guarded update, evaluated when the row is free.
StillDraft(s) ==
  /\ Live(Mine(s))
  /\ report[Mine(s)].status = "DRAFT"
  /\ report[Mine(s)].revision = work[s].revision

\* With a bug: the revision is not in it, the check before must do.
LockAnyDraft(s) == Live(Mine(s)) /\ report[Mine(s)].status = "DRAFT"
LockAccepted(s) == StillDraft(s)

LockReport(s) ==
  /\ At(s, "lock")
  /\ lock[Mine(s)] = None
  /\ IF LockAccepted(s)
       THEN Goto(s, "link") /\ lock' = [lock EXCEPT ![Mine(s)] = s]
       ELSE Return(s) /\ UNCHANGED lock
  /\ UNCHANGED <<report, version, upload, stored, written, copy, sweep, faults>>

\* linkPendingUploads: what the rows say before they are linked.
Pending(s) == {u \in work[s].photos : upload[u].report = None}

\* With a bug: photos that are linked already are not counted.
RoomForNew(s) == Cardinality(work[s].photos) <= MaxPhotos
RoomFor(s) ==
  /\ Cardinality(work[s].photos) <= MaxPhotos
  /\ Cardinality(Linked(Mine(s))) + Cardinality(Pending(s)) <= MaxPhotos

ReadUploads(s) ==
  /\ At(s, "link")
  /\ \A u \in work[s].photos :
       HasRow(u) /\ ~upload[u].cleaning /\ upload[u].report \in {None, Mine(s)}
  /\ work[s].photos = {} \/ RoomFor(s)
  /\ work' = [work EXCEPT ![s].at = "save", ![s].pending = Cardinality(Pending(s))]
  /\ UNCHANGED <<report, version, upload, stored, written, lock, copy, sweep, faults>>

\* The photos of frozen versions stay linked when a draft drops them.
\* With a bug: they do not.
NothingRetained(r) == {}
Retained(r) == UNION {version[r][n].photos : n \in Frozen(r)}

Detached(r, photos) == Linked(r) \ (photos \cup Retained(r))
LinkedTo(row, r) == [row EXCEPT !.report = r, !.expiry = "never"]
Expiring(row) == [row EXCEPT !.report = None, !.expiry = "running"]

\* The updates of the uploads and the commit, if as many are linked as were pending.
Save(s) ==
  LET r == Mine(s)
      n == report[r].revision + 1
      photos == work[s].photos
      taken == {u \in photos : Unlinked(u)}
  IN  /\ At(s, "save")
      /\ n \in Revisions    \* bound
      /\ Cardinality(taken) = work[s].pending
      /\ report' = [report EXCEPT ![r] = [status |-> "DRAFT", revision |-> n,
                                          photos |-> photos, deleted |-> FALSE]]
      /\ upload' = [u \in Uploads |->
                      CASE u \in taken -> LinkedTo(upload[u], r)
                        [] u \in Detached(r, photos) -> Expiring(upload[u])
                        [] OTHER -> upload[u]]
      /\ lock' = [lock EXCEPT ![r] = None]
      /\ Sees(s, r, n, photos)
      /\ Return(s)
      /\ UNCHANGED <<version, stored, written, sweep, faults>>

\* A check fails, the transaction is a deadlock's victim or runs out of time.
Abort(s) ==
  /\ At(s, "link") \/ At(s, "save")
  /\ lock' = [lock EXCEPT ![Mine(s)] = None]
  /\ Return(s)
  /\ UNCHANGED <<report, version, upload, stored, written, copy, sweep, faults>>

SoftDelete(s) ==
  /\ At(s, "idle")
  /\ copy[s] # NoCopy /\ Live(Seen(s))
  /\ lock[Seen(s)] = None
  /\ report' = [report EXCEPT ![Seen(s)].deleted = TRUE]
  /\ UNCHANGED <<version, upload, stored, written, lock, copy, work, sweep, faults>>

-----------------------------------------------------------------------------
(* finalizeInspection and createInspectionRevision.                        *)

Finalize(s) ==
  /\ At(s, "idle")
  /\ Current(s, "DRAFT")
  /\ work' = [work EXCEPT ![s] =
                Request("photos", Seen(s), copy[s].revision, report[Seen(s)].photos)]
  /\ UNCHANGED <<report, version, upload, stored, written, lock, copy, sweep, faults>>

ReadPhotos(s) ==
  /\ At(s, "photos")
  /\ work[s].photos \subseteq Linked(Mine(s)) \cap stored
  /\ Goto(s, "pdf")
  /\ UNCHANGED <<report, version, upload, stored, written, lock, copy, sweep, faults>>

\* With a bug: the key of a PDF does not tell the attempts apart.
AnyDocument == Documents
FreshDocuments == Documents \ written

WritePdf(s) ==
  /\ At(s, "pdf")
  /\ \E d \in FreshDocuments :
       /\ stored' = stored \cup {d}
       /\ written' = written \cup {d}
       /\ work' = [work EXCEPT ![s].at = "freeze", ![s].document = d]
  /\ UNCHANGED <<report, version, upload, lock, copy, sweep, faults>>

\* A photo is missing, or the PDF cannot be rendered or stored.
FinalizeFails(s) ==
  /\ At(s, "photos") \/ At(s, "pdf")
  /\ Return(s)
  /\ UNCHANGED <<report, version, upload, stored, written, lock, copy, sweep, faults>>

\* The guarded update, the version row and the commit.
Commit(s) ==
  /\ At(s, "freeze")
  /\ lock[Mine(s)] = None
  /\ StillDraft(s)
  /\ version[Mine(s)][work[s].revision] = NoVersion
  /\ report' = [report EXCEPT ![Mine(s)].status = "FINAL", ![Mine(s)].photos = work[s].photos]
  /\ version' = [version EXCEPT ![Mine(s)][work[s].revision] =
                   [photos |-> work[s].photos, document |-> work[s].document]]
  /\ UNCHANGED <<upload, stored, written, lock, sweep>>

Freeze(s) ==
  /\ Commit(s)
  /\ Sees(s, Mine(s), work[s].revision, work[s].photos)
  /\ Return(s)
  /\ UNCHANGED faults

\* The database has committed, the answer does not arrive: an exception.
FreezeUnacknowledged(s) ==
  /\ Commit(s)
  /\ Fault("lostAck")
  /\ Goto(s, "discard")
  /\ UNCHANGED copy

\* The revision is stale, or the transaction runs out of time.
FreezeFails(s) ==
  /\ At(s, "freeze")
  /\ Goto(s, "discard")
  /\ UNCHANGED <<report, version, upload, stored, written, lock, copy, sweep, faults>>

\* The catch block deletes the PDF it has stored and ignores a failure.
Discard(s) ==
  /\ At(s, "discard")
  /\ stored' \in {stored, stored \ {work[s].document}}
  /\ Return(s)
  /\ UNCHANGED <<report, version, upload, written, lock, copy, sweep, faults>>

LatestVersion(r) == version[r][CHOOSE n \in Frozen(r) : \A m \in Frozen(r) : m <= n]

\* With a bug: the draft takes the number of the version it starts from.
SameRevision(n) == n
NextRevision(n) == n + 1

CreateRevision(s) ==
  LET r == Seen(s)
      n == NextRevision(copy[s].revision)
  IN  /\ At(s, "idle")
      /\ Current(s, "FINAL")
      /\ lock[r] = None
      /\ Frozen(r) # {}
      /\ n \in Revisions
      /\ report' = [report EXCEPT ![r].status = "DRAFT", ![r].revision = n,
                                  ![r].photos = LatestVersion(r).photos]
      /\ Sees(s, r, n, LatestVersion(r).photos)
      /\ UNCHANGED <<version, upload, stored, written, lock, work, sweep, faults>>

-----------------------------------------------------------------------------
(* cleanupExpiredInspectionUploads.                                        *)

Overdue(u) == Unlinked(u) /\ upload[u].expiry = "over"

BeginCleanup(c) ==
  /\ sweep[c].at = "idle"
  /\ \E u \in Uploads : Overdue(u)
  /\ sweep' = [sweep EXCEPT ![c] = [at |-> "claim", todo |-> {u \in Uploads : Overdue(u)},
                                    upload |-> None]]
  /\ UNCHANGED <<report, version, upload, stored, written, lock, copy, work, faults>>

Proceed(c, todo) ==
  sweep' = [sweep EXCEPT ![c] =
              IF todo = {} THEN NoSweep ELSE [at |-> "claim", todo |-> todo, upload |-> None]]

\* The list is old when its turn comes: the claim asks again.
\* With a bug: it does not.
ClaimableAsListed(u) == HasRow(u) /\ ~upload[u].cleaning
Claimable(u) == Overdue(u)

Claim(c) ==
  /\ sweep[c].at = "claim"
  /\ \E u \in sweep[c].todo :
       LET rest == sweep[c].todo \ {u}
       IN  IF Claimable(u)
             THEN /\ upload' = [upload EXCEPT ![u].cleaning = TRUE]
                  /\ sweep' = [sweep EXCEPT ![c] = [at |-> "erase", todo |-> rest, upload |-> u]]
             ELSE Proceed(c, rest) /\ UNCHANGED upload
  /\ UNCHANGED <<report, version, stored, written, lock, copy, work, faults>>

Erase(c) ==
  /\ sweep[c].at = "erase"
  /\ stored' = stored \ {sweep[c].upload}
  /\ sweep' = [sweep EXCEPT ![c].at = "delete"]
  /\ UNCHANGED <<report, version, upload, written, lock, copy, work, faults>>

DeleteRow(c) ==
  LET u == sweep[c].upload
  IN  /\ sweep[c].at = "delete"
      /\ upload' = IF upload[u].cleaning /\ upload[u].report = None
                     THEN [upload EXCEPT ![u].state = "gone"] ELSE upload
      /\ Proceed(c, sweep[c].todo)
      /\ UNCHANGED <<report, version, stored, written, lock, copy, work, faults>>

\* The storage or the database answers with an error, done or not.
CleanupFails(c) ==
  LET u == sweep[c].upload
  IN  /\ Fault("erase")
      /\ \/ /\ sweep[c].at = "erase"
            /\ stored' \in {stored, stored \ {u}}
            /\ UNCHANGED upload
         \/ /\ sweep[c].at = "delete"
            /\ upload' \in {upload, [upload EXCEPT ![u].state = "gone"]}
            /\ UNCHANGED stored
      /\ sweep' = [sweep EXCEPT ![c].at = "unclaim"]
      /\ UNCHANGED <<report, version, written, lock, copy, work>>

\* The catch block gives the upload back and ends the run.
\* With a bug: it ends the run.
StillClaimed(row) == row
Unclaimed(row) == [row EXCEPT !.cleaning = FALSE]

Unclaim(c) ==
  /\ sweep[c].at = "unclaim"
  /\ upload' = [upload EXCEPT ![sweep[c].upload] = Unclaimed(@)]
  /\ sweep' = [sweep EXCEPT ![c] = NoSweep]
  /\ UNCHANGED <<report, version, stored, written, lock, copy, work, faults>>

-----------------------------------------------------------------------------
\* The process dies: open transactions roll back, rows and objects stay.
Crash ==
  /\ Fault("crash")
  /\ lock' = [r \in Reports |-> None]
  /\ work' = [s \in Sessions |-> Idle]
  /\ sweep' = [c \in Cleaners |-> NoSweep]
  /\ upload' = [u \in Uploads |->
                  IF upload[u].state = "new" THEN [upload[u] EXCEPT !.state = "lost"] ELSE upload[u]]
  /\ UNCHANGED <<report, version, stored, written, copy>>

Photo(u) == StartUpload(u) \/ Persist(u) \/ PersistFails(u) \/ Expire(u)

Saving(s) ==
  \/ \E r \in Reports : Read(s, r) \/ Create(s, r)
  \/ Update(s) \/ LockReport(s) \/ ReadUploads(s) \/ Save(s) \/ Abort(s) \/ SoftDelete(s)

Finalizing(s) ==
  \/ Finalize(s) \/ ReadPhotos(s) \/ WritePdf(s) \/ FinalizeFails(s)
  \/ Freeze(s) \/ FreezeUnacknowledged(s) \/ FreezeFails(s) \/ Discard(s)
  \/ CreateRevision(s)

Cleaning(c) ==
  \/ BeginCleanup(c) \/ Claim(c) \/ Erase(c) \/ DeleteRow(c) \/ CleanupFails(c) \/ Unclaim(c)

Next ==
  \/ \E u \in Uploads : Photo(u)
  \/ \E s \in Sessions : Saving(s) \/ Finalizing(s)
  \/ \E c \in Cleaners : Cleaning(c)
  \/ Crash

Spec == Init /\ [][Next]_vars

\* A scheduler calls the cleanup again and again, and a run gets on.
FairSpec == Spec /\ \A c \in Cleaners : WF_vars(Cleaning(c))

-----------------------------------------------------------------------------
(* Properties.                                                             *)

\* "Prior finalized snapshots remain immutable": every photo of a frozen
\* version stays linked to its report and stored, whatever later drafts drop,
\* however the cleanup interleaves with saves, fails or dies.
PhotosRetained ==
  \A r \in Reports : \A n \in Frozen(r) : \A u \in version[r][n].photos :
    u \in Linked(r) /\ ~upload[u].cleaning /\ u \in stored

\* A saved report refers to no photo of another report, and to none the
\* cleanup has taken (linkPendingUploads against the claim and other saves).
PhotosLinked ==
  \A r \in Reports : \A u \in report[r].photos : u \in Linked(r) /\ ~upload[u].cleaning

\* "at most 24 photos", counted over drafts and versions, however many saves
\* and revisions have linked and dropped photos.
PhotosBounded == \A r \in Reports : Cardinality(Linked(r)) <= MaxPhotos

\* A FINAL report is the version of its revision, and a draft is ahead of every
\* version: the unique (reportId, revision) never refuses a finalize.
FinalIsFrozen ==
  \A r \in Reports :
    /\ report[r].status = "FINAL" =>
         /\ report[r].revision \in Frozen(r)
         /\ version[r][report[r].revision].photos = report[r].photos
    /\ report[r].status = "DRAFT" => \A n \in Frozen(r) : n < report[r].revision

\* "stale writes return 409": the session that changes a report, other than
\* deleting it, has seen what it changes.
Acts(s) == copy'[s] # copy[s] \/ work'[s] # work[s]
NoLostUpdate ==
  [][\A r \in Reports :
       report'[r] # report[r] /\ Live(r) /\ ~report'[r].deleted =>
         \E s \in Sessions :
           Acts(s) /\ copy[s] = [report |-> r, revision |-> report[r].revision,
                                photos |-> report[r].photos]]_vars

\* "stores a canonical PDF": the document of a version is in the storage.
DocumentsKept ==
  \A r \in Reports : \A n \in Frozen(r) : version[r][n].document \in stored

\* "Prior finalized snapshots remain immutable": versions are an archive, whose
\* photos stay, and whose documents do where every commit is answered.
Archive == INSTANCE ReportArchive WITH
  Photos  <- Uploads,
  Nothing <- NoVersion,
  Safe    <- IF "lostAck" \in Faults THEN Uploads ELSE Uploads \cup Documents,
  archive <- version
ImplementsArchive == Archive!Spec

\* An upload that is overdue is removed, or some report has it after all:
\* neither a failing storage nor an overlapping run makes the cleanup forget it.
OverdueIsRemoved ==
  \A u \in Uploads : Overdue(u) ~> (~HasRow(u) \/ upload[u].report # None)
=============================================================================
