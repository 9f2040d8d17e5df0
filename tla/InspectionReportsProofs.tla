------------------------ MODULE InspectionReportsProofs ------------------------
(***************************************************************************)
(* For any number of sessions, reports, photos, revisions, overlapping     *)
(* runs of the cleanup and faults: frozen versions keep their photos and   *)
(* (where every commit is answered) their document, reports refer to       *)
(* photos of their own, the limit on photos holds, FINAL reports are       *)
(* frozen, no update is lost (module InspectionReports), and versions are  *)
(* an archive that only grows (module ReportArchive).                      *)
(*                                                                         *)
(* A transaction and the cleanup never look at each other: what keeps them *)
(* apart is that a linked photo is not being cleaned (Tied) and that an    *)
(* upload being cleaned has one cleaner (Claims).  What keeps the sessions *)
(* apart is the lock of a save (Owns) and, for a finalize, which locks     *)
(* nothing while it renders, that its revision still has the photos it     *)
(* has read (Recent, Informed).                                            *)
(***************************************************************************)
EXTENDS InspectionReports, FiniteSetTheorems, TLAPS

-----------------------------------------------------------------------------
(* The inductive invariant.                                                *)

\* A photo that a report has was stored, and no cleanup has taken it.
Tied ==
  \A u \in Uploads : upload[u].report # None => upload[u].state = "ready" /\ ~upload[u].cleaning

\* A run of the cleanup that has claimed an upload is the only one that has.
Holds(c) == sweep[c].at \in {"erase", "delete", "unclaim"}
Claims ==
  /\ \A c \in Cleaners :
       Holds(c) => sweep[c].upload \in Uploads /\ upload[sweep[c].upload].cleaning
  /\ \A c, d \in Cleaners : Holds(c) /\ Holds(d) /\ sweep[c].upload = sweep[d].upload => c = d

\* The rows of one report.
Numbered(r) ==
  /\ report[r].status = "NONE" <=> report[r].revision = 0
  /\ \A n \in Frozen(r) : n <= report[r].revision
  /\ report[r].status = "DRAFT" => \A n \in Frozen(r) : n < report[r].revision
Final(r) ==
  report[r].status = "FINAL" =>
    /\ report[r].revision \in Frozen(r)
    /\ version[r][report[r].revision].photos = report[r].photos
Photographed(r) == \A u \in report[r].photos : upload[u].report = r
Retaining(r) ==
  \A n \in Frozen(r) : \A u \in version[r][n].photos : upload[u].report = r /\ u \in stored
Bounded(r) == Cardinality(Linked(r)) <= MaxPhotos
Archived(r) == Numbered(r) /\ Final(r) /\ Photographed(r) /\ Retaining(r) /\ Bounded(r)

\* What a browser has read is older than the row, or the same.
Recent(s) ==
  copy[s] # NoCopy =>
    LET r == copy[s].report
    IN  /\ r \in Reports
        /\ copy[s].revision \in 1..report[r].revision
        /\ copy[s].revision = report[r].revision => copy[s].photos = report[r].photos

\* A save holds the lock of its row: a new one (revision 0), or the draft it
\* was sent for.
Saves(s) == work[s].at \in {"link", "save"}
Creates(s) == work[s].revision = 0
Owns(s) ==
  Saves(s) =>
    /\ lock[Mine(s)] = s
    /\ IF Creates(s) THEN report[Mine(s)].status = "NONE" ELSE StillDraft(s)

\* A request goes by what its browser has read.
Finalizes(s) == work[s].at \in {"photos", "pdf", "freeze"}
Informed(s) ==
  /\ At(s, "lock") \/ Finalizes(s) \/ (Saves(s) /\ ~Creates(s)) =>
       copy[s] # NoCopy /\ copy[s].report = Mine(s) /\ copy[s].revision = work[s].revision
  /\ Finalizes(s) => work[s].photos = copy[s].photos

\* A browser sends the ids of photos that have been stored, here still or not.
Chosen(s) ==
  At(s, "lock") \/ Saves(s) => \A u \in work[s].photos : upload[u].state \in {"ready", "gone"}

\* What a save has counted: the photos its report does not have yet, for
\* which there is room.
Missing(s) == {u \in work[s].photos : upload[u].report # Mine(s)}
Counted(s) ==
  At(s, "save") =>
    /\ work[s].pending = Cardinality(Missing(s))
    /\ work[s].photos = {} \/ Cardinality(Linked(Mine(s))) + work[s].pending <= MaxPhotos

\* A finalize has found its photos in the storage, and has written a document.
Rendered(s) ==
  /\ work[s].at \in {"pdf", "freeze"} /\ report[Mine(s)].revision = work[s].revision =>
       work[s].photos \subseteq stored
  /\ work[s].at = "freeze" => work[s].document # None

Session(s) ==
  /\ work[s].at # "idle" => Mine(s) \in Reports
  /\ Recent(s) /\ Owns(s) /\ Informed(s) /\ Chosen(s) /\ Counted(s) /\ Rendered(s)

Inv ==
  /\ TypeOK /\ Tied /\ Claims
  /\ \A r \in Reports : Archived(r)
  /\ \A s \in Sessions : Session(s)

-----------------------------------------------------------------------------
(* What a step of one session leaves to the others.                        *)

\* The other sessions keep their requests, their copies and their locks.
OthersKeep(s) ==
  \A t \in Sessions \ {s} :
    /\ work'[t] = work[t] /\ copy'[t] = copy[t]
    /\ \A r \in Reports : lock[r] = t => lock'[r] = t

\* The storage loses no photo.
PhotosStay == \A u \in Uploads : u \in stored => u \in stored'

LEMMA LinkedIn ==
  ASSUME TypeOK, Tied, NEW r \in Reports
  PROVE  Linked(r) = {u \in Uploads : upload[u].report = r}
BY ReportsAssumption DEF Linked, HasRow, Tied

LEMMA SessionFrame ==
  ASSUME Inv, NEW s \in Sessions, OthersKeep(s), PhotosStay, TypeOK', Session(s)',
         UNCHANGED <<report, version, upload, sweep>>
  PROVE  Inv'
<1>1. Tied' /\ Claims'
  BY DEF Inv, Tied, Claims, Holds
<1>2. ASSUME NEW r \in Reports
      PROVE  Archived(r)'
  <2>1. Linked(r)' = Linked(r) /\ Frozen(r)' = Frozen(r)
    BY DEF Linked, HasRow, Frozen
  <2>2. Retaining(r)'
    BY <2>1 DEF Inv, TypeOK, Archived, Retaining, PhotosStay, Version, Frozen
  <2> QED
    BY <2>1, <2>2 DEF Inv, Archived, Numbered, Final, Photographed, Bounded
<1>3. ASSUME NEW t \in Sessions, t # s
      PROVE  Session(t)'
  <2>1. work'[t] = work[t] /\ copy'[t] = copy[t]
    BY <1>3 DEF OthersKeep
  <2>2. Session(t)
    BY DEF Inv
  <2>3. Owns(t)'
    BY <1>3, <2>1, <2>2 DEF OthersKeep, Session, Owns, Saves, Creates, Mine, StillDraft, Live
  <2>4. Counted(t)'
    BY <2>1, <2>2 DEF Session, Counted, Missing, Linked, HasRow, Mine, At
  <2>5. Rendered(t)'
    BY <2>1, <2>2 DEF Inv, TypeOK, Work, Session, Rendered, Mine, PhotosStay
  <2>6. Recent(t)' /\ Informed(t)' /\ Chosen(t)' /\ (work'[t].at # "idle" => Mine(t)' \in Reports)
    BY <2>1, <2>2 DEF Session, Recent, Informed, Chosen, Saves, Creates, Finalizes, Mine, At
  <2> QED
    BY <2>3, <2>4, <2>5, <2>6 DEF Session
<1> QED
  BY <1>1, <1>2, <1>3 DEF Inv

-----------------------------------------------------------------------------
(* What a step of an upload or of the cleanup leaves.                      *)

\* Rows of photos that reports have do not change, nor does which report has one.
UploadsKeep ==
  \A u \in Uploads :
    /\ upload'[u].report = upload[u].report
    /\ upload[u].report # None => upload'[u] = upload[u] /\ (u \in stored => u \in stored')
    /\ upload[u].state \in {"ready", "gone"} => upload'[u].state \in {"ready", "gone"}

LEMMA UploadFrame ==
  ASSUME Inv, UploadsKeep, TypeOK', Claims', UNCHANGED <<report, version, lock, copy, work>>
  PROVE  Inv'
<1>1. Tied'
  BY DEF Inv, Tied, UploadsKeep
<1>2. ASSUME NEW r \in Reports
      PROVE  Linked(r)' = Linked(r)
  BY <1>1, LinkedIn, ReportsAssumption DEF Inv, TypeOK, Tied, Linked, HasRow, UploadsKeep
<1>3. ASSUME NEW r \in Reports
      PROVE  Archived(r)'
  <2>1. Frozen(r)' = Frozen(r)
    BY DEF Frozen
  <2>2. Archived(r) /\ r # None
    BY ReportsAssumption DEF Inv
  <2>3. Photographed(r)'
    BY <2>2 DEF Inv, TypeOK, Report, Archived, Photographed, UploadsKeep
  <2>4. Retaining(r)'
    <3> SUFFICES ASSUME NEW n \in Frozen(r), NEW u \in version[r][n].photos
                 PROVE  upload'[u].report = r /\ u \in stored'
      BY <2>1 DEF Retaining
    <3>1. u \in Uploads
      BY DEF Inv, TypeOK, Version, Frozen
    <3> QED
      BY <2>2, <3>1 DEF Archived, Retaining, UploadsKeep
  <2> QED
    BY <1>2, <2>1, <2>2, <2>3, <2>4 DEF Archived, Numbered, Final, Bounded
<1>4. ASSUME NEW s \in Sessions
      PROVE  Session(s)'
  <2>1. Session(s) /\ work[s] \in Work
    BY DEF Inv, TypeOK
  <2>2. Chosen(s)'
    BY <2>1 DEF Session, Chosen, Saves, At, UploadsKeep, Work
  <2>3. Counted(s)'
    <3> SUFFICES ASSUME At(s, "save")
                 PROVE  Counted(s)'
      BY DEF Counted, At
    <3>1. Mine(s) \in Reports
      BY <2>1 DEF Session, At
    <3>2. Missing(s)' = Missing(s)
      BY <2>1 DEF Missing, Mine, UploadsKeep, Work
    <3> QED
      BY <1>2, <2>1, <3>1, <3>2 DEF Session, Counted, At, Mine
  <2>4. Rendered(s)'
    <3> SUFFICES ASSUME work[s].at \in {"pdf", "freeze"}, report[Mine(s)].revision = work[s].revision,
                        NEW u \in work[s].photos
                 PROVE  u \in stored'
      BY <2>1 DEF Session, Rendered, Mine
    <3>1. Mine(s) \in Reports /\ u \in stored /\ u \in Uploads
      BY <2>1 DEF Session, Rendered, Work
    <3>2. u \in report[Mine(s)].photos
      BY <2>1 DEF Session, Informed, Finalizes, Recent
    <3>3. upload[u].report # None
      BY <3>1, <3>2, ReportsAssumption DEF Inv, Archived, Photographed
    <3> QED
      BY <3>1, <3>3 DEF UploadsKeep
  <2> QED
    BY <2>1, <2>2, <2>3, <2>4 DEF Session, Recent, Owns, Informed, Saves, Creates, Finalizes,
                                  Mine, StillDraft, Live, At
<1> QED
  BY <1>1, <1>3, <1>4 DEF Inv

-----------------------------------------------------------------------------
(* What a step that changes a report nobody is saving leaves.              *)

\* Revisions only grow, and a revision keeps its photos.
Advances(r) ==
  /\ report[r].status # "NONE"
  /\ report[r].revision <= report'[r].revision
  /\ report'[r].revision = report[r].revision => report'[r].photos = report[r].photos

LEMMA ReportFrame ==
  ASSUME Inv, NEW s \in Sessions, NEW r \in Reports, lock[r] = None, Advances(r),
         UNCHANGED <<upload, stored, sweep, lock>>,
         \A q \in Reports \ {r} : report'[q] = report[q] /\ version'[q] = version[q],
         \A t \in Sessions \ {s} : work'[t] = work[t] /\ copy'[t] = copy[t],
         TypeOK', Archived(r)', Session(s)'
  PROVE  Inv'
<1>1. Tied' /\ Claims'
  BY DEF Inv, Tied, Claims, Holds
<1>2. ASSUME NEW q \in Reports, q # r
      PROVE  Archived(q)'
  <2>1. Linked(q)' = Linked(q) /\ Frozen(q)' = Frozen(q)
    BY <1>2 DEF Linked, HasRow, Frozen
  <2>2. Retaining(q)'
    BY <1>2, <2>1 DEF Inv, Archived, Retaining
  <2> QED
    BY <1>2, <2>1, <2>2 DEF Inv, Archived, Numbered, Final, Photographed, Bounded
<1>3. ASSUME NEW t \in Sessions, t # s
      PROVE  Session(t)'
  <2>1. work'[t] = work[t] /\ copy'[t] = copy[t]
    BY <1>3
  <2>2. Session(t) /\ t # None /\ work[t] \in Work /\ copy[t] \in Copy
    BY ReportsAssumption DEF Inv, TypeOK
  <2>3. \A q \in Reports : report[q].revision \in Int /\ report'[q].revision \in Int
    BY DEF TypeOK, Report, Inv
  <2>4. \A q \in Reports :
          /\ report[q].revision <= report'[q].revision
          /\ report'[q].revision = report[q].revision => report'[q].photos = report[q].photos
    BY <2>3 DEF Advances
  <2>5. Recent(t)'
    <3> SUFFICES ASSUME copy[t] # NoCopy
                 PROVE  Recent(t)'
      BY <2>1 DEF Recent
    <3>1. /\ copy[t].report \in Reports
          /\ copy[t].revision \in 1..report[copy[t].report].revision
          /\ copy[t].revision = report[copy[t].report].revision =>
               copy[t].photos = report[copy[t].report].photos
      BY <2>2 DEF Session, Recent
    <3> QED
      BY <2>1, <2>3, <2>4, <3>1 DEF Recent
  <2>6. Owns(t)'
    BY <2>1, <2>2 DEF Session, Owns, Saves, Creates, Mine, StillDraft, Live
  <2>7. Counted(t)'
    BY <2>1, <2>2 DEF Session, Counted, Missing, Linked, HasRow, Mine, At
  <2>8. Rendered(t)'
    <3> SUFFICES ASSUME work[t].at \in {"pdf", "freeze"}, report'[Mine(t)].revision = work[t].revision
                 PROVE  work[t].photos \subseteq stored
      BY <2>1, <2>2 DEF Session, Rendered, Mine
    <3>1. Mine(t) \in Reports /\ work[t].revision <= report[Mine(t)].revision
      BY <2>2, <2>3 DEF Session, Recent, Informed, Finalizes
    <3>2. report[Mine(t)].revision = work[t].revision
      BY <2>3, <2>4, <3>1
    <3> QED
      BY <2>2, <3>2 DEF Session, Rendered
  <2>9. Informed(t)' /\ Chosen(t)' /\ (work'[t].at # "idle" => Mine(t)' \in Reports)
    BY <2>1, <2>2 DEF Session, Informed, Chosen, Saves, Creates, Finalizes, Mine, At
  <2> QED
    BY <2>5, <2>6, <2>7, <2>8, <2>9 DEF Session
<1> QED
  BY <1>1, <1>2, <1>3 DEF Inv

-----------------------------------------------------------------------------
(* The steps of a photo.                                                   *)

LEMMA StartUploadKeeps ==
  ASSUME Inv, NEW u \in Uploads, StartUpload(u)
  PROVE  Inv'
<1>1. upload[u].report = None
  BY DEF Inv, Tied, StartUpload
<1>2. TypeOK'
  BY DEF Inv, TypeOK, StartUpload, Upload
<1>3. UploadsKeep
  BY <1>1 DEF Inv, TypeOK, StartUpload, UploadsKeep, Upload
<1>4. Claims'
  BY DEF Inv, TypeOK, Claims, Holds, StartUpload, Upload
<1> QED
  BY <1>2, <1>3, <1>4, UploadFrame DEF StartUpload

LEMMA PersistKeeps ==
  ASSUME Inv, NEW u \in Uploads, Persist(u)
  PROVE  Inv'
<1>1. upload[u].report = None
  BY DEF Inv, Tied, Persist
<1>2. TypeOK'
  BY DEF Inv, TypeOK, Persist, Upload
<1>3. UploadsKeep
  BY <1>1 DEF Inv, TypeOK, Persist, UploadsKeep, Upload
<1>4. Claims'
  BY DEF Inv, TypeOK, Claims, Holds, Persist, Upload
<1> QED
  BY <1>2, <1>3, <1>4, UploadFrame DEF Persist

LEMMA PersistFailsKeeps ==
  ASSUME Inv, NEW u \in Uploads, PersistFails(u)
  PROVE  Inv'
<1>1. upload[u].report = None
  BY DEF Inv, Tied, PersistFails
<1>2. TypeOK'
  BY ReportsAssumption DEF Inv, TypeOK, PersistFails, Upload, Fault
<1>3. UploadsKeep
  BY <1>1 DEF Inv, TypeOK, PersistFails, UploadsKeep, Upload
<1>4. Claims'
  BY DEF Inv, TypeOK, Claims, Holds, PersistFails, Upload
<1> QED
  BY <1>2, <1>3, <1>4, UploadFrame DEF PersistFails

LEMMA ExpireKeeps ==
  ASSUME Inv, NEW u \in Uploads, Expire(u)
  PROVE  Inv'
<1>1. upload[u].report = None
  BY DEF Inv, TypeOK, Expire
<1>2. TypeOK'
  BY DEF Inv, TypeOK, Expire, Upload
<1>3. UploadsKeep
  BY <1>1 DEF Inv, TypeOK, Expire, UploadsKeep, Upload
<1>4. Claims'
  BY DEF Inv, TypeOK, Claims, Holds, Expire, Upload
<1> QED
  BY <1>2, <1>3, <1>4, UploadFrame DEF Expire

-----------------------------------------------------------------------------
(* The steps of the cleanup.                                               *)

LEMMA BeginCleanupKeeps ==
  ASSUME Inv, NEW c \in Cleaners, BeginCleanup(c)
  PROVE  Inv'
<1>1. TypeOK'
  BY DEF Inv, TypeOK, BeginCleanup, Sweep
<1>2. UploadsKeep
  BY DEF BeginCleanup, UploadsKeep
<1>3. Claims'
  BY DEF Inv, TypeOK, Claims, Holds, BeginCleanup
<1> QED
  BY <1>1, <1>2, <1>3, UploadFrame DEF BeginCleanup

LEMMA ProceedIn ==
  ASSUME TypeOK, NEW c \in Cleaners, NEW todo \in SUBSET Uploads, Proceed(c, todo)
  PROVE  /\ sweep' \in [Cleaners -> Sweep]
         /\ ~Holds(c)'
         /\ \A d \in Cleaners \ {c} : sweep'[d] = sweep[d]
BY DEF TypeOK, Proceed, NoSweep, Sweep, Holds

\* A change of one row that leaves its report and its expiry alone.
LEMMA RowChange ==
  ASSUME TypeOK, NEW u \in Uploads, NEW row \in Upload,
         row.report = upload[u].report, row.expiry = upload[u].expiry,
         upload' = [upload EXCEPT ![u] = row]
  PROVE  /\ upload' \in [Uploads -> Upload]
         /\ \A v \in Uploads : upload'[v].report = None <=> upload'[v].expiry # "never"
         /\ upload'[u] = row
         /\ \A v \in Uploads \ {u} : upload'[v] = upload[v]
BY DEF TypeOK

LEMMA ClaimKeeps ==
  ASSUME Inv, NEW c \in Cleaners, Claim(c)
  PROVE  Inv'
<1>1. PICK u \in sweep[c].todo :
        IF Claimable(u)
          THEN /\ upload' = [upload EXCEPT ![u].cleaning = TRUE]
               /\ sweep' = [sweep EXCEPT ![c] = [at |-> "erase", todo |-> sweep[c].todo \ {u},
                                                 upload |-> u]]
          ELSE Proceed(c, sweep[c].todo \ {u}) /\ UNCHANGED upload
  BY DEF Claim
<1>2. u \in Uploads /\ sweep[c].todo \ {u} \in SUBSET Uploads
  BY <1>1 DEF Inv, TypeOK, Sweep
<1>3. CASE Claimable(u)
  <2>1. upload[u].report = None /\ ~upload[u].cleaning
    BY <1>3 DEF Claimable, Overdue, Unlinked
  <2> DEFINE row == [upload[u] EXCEPT !.cleaning = TRUE]
  <2>a. /\ row \in Upload /\ row.cleaning
        /\ row.report = upload[u].report /\ row.expiry = upload[u].expiry
        /\ row.state = upload[u].state
    BY <1>2 DEF Inv, TypeOK, Upload
  <2>b. upload' = [upload EXCEPT ![u] = row]
    BY <1>1, <1>3
  <2> HIDE DEF row
  <2>c. /\ upload' \in [Uploads -> Upload]
        /\ \A v \in Uploads : upload'[v].report = None <=> upload'[v].expiry # "never"
        /\ upload'[u] = row
        /\ \A v \in Uploads \ {u} : upload'[v] = upload[v]
    BY <1>2, <2>a, <2>b, RowChange DEF Inv
  <2>d. /\ sweep' \in [Cleaners -> Sweep]
        /\ sweep'[c].upload = u
        /\ \A d \in Cleaners \ {c} : sweep'[d] = sweep[d]
    BY <1>1, <1>2, <1>3 DEF Inv, TypeOK, Sweep
  <2>2. TypeOK'
    BY <2>c, <2>d DEF Inv, TypeOK, Claim
  <2>3. UploadsKeep
    BY <1>2, <2>1, <2>a, <2>c DEF Claim, UploadsKeep
  <2>4. Claims'
    BY <1>2, <2>1, <2>a, <2>c, <2>d DEF Inv, Claims, Holds
  <2> QED
    BY <2>2, <2>3, <2>4, UploadFrame DEF Claim
<1>4. CASE ~Claimable(u)
  <2>1. TypeOK'
    BY <1>1, <1>2, <1>4, ProceedIn DEF Inv, TypeOK, Claim
  <2>2. UploadsKeep
    BY <1>1, <1>4 DEF Claim, UploadsKeep
  <2>3. Claims'
    BY <1>1, <1>2, <1>4, ProceedIn DEF Inv, Claims, Holds
  <2> QED
    BY <2>1, <2>2, <2>3, UploadFrame DEF Claim
<1> QED
  BY <1>3, <1>4

LEMMA EraseKeeps ==
  ASSUME Inv, NEW c \in Cleaners, Erase(c)
  PROVE  Inv'
<1>1. sweep[c].upload \in Uploads /\ upload[sweep[c].upload].report = None
  BY DEF Inv, Claims, Holds, Erase, Tied
<1>2. TypeOK'
  BY DEF Inv, TypeOK, Erase, Sweep
<1>3. UploadsKeep
  BY <1>1 DEF Erase, UploadsKeep
<1>4. Claims'
  BY DEF Inv, TypeOK, Claims, Holds, Erase, Sweep
<1> QED
  BY <1>2, <1>3, <1>4, UploadFrame DEF Erase

LEMMA DeleteRowKeeps ==
  ASSUME Inv, NEW c \in Cleaners, DeleteRow(c)
  PROVE  Inv'
<1>1. sweep[c].upload \in Uploads /\ sweep[c].todo \in SUBSET Uploads
  BY DEF Inv, TypeOK, Claims, Holds, DeleteRow, Sweep
<1>2. /\ sweep' \in [Cleaners -> Sweep]
      /\ ~Holds(c)'
      /\ \A d \in Cleaners \ {c} : sweep'[d] = sweep[d]
  BY <1>1, ProceedIn DEF Inv, DeleteRow
<1> DEFINE u == sweep[c].upload
           row == [upload[u] EXCEPT !.state = "gone"]
<1>3. upload[u].report = None /\ upload[u].cleaning
  BY DEF Inv, Claims, Holds, DeleteRow, Tied
<1>4. /\ row \in Upload /\ row.cleaning /\ row.state = "gone"
      /\ row.report = upload[u].report /\ row.expiry = upload[u].expiry
  BY <1>1, <1>3 DEF Inv, TypeOK, Upload
<1>5. upload' = [upload EXCEPT ![u] = row]
  BY <1>3 DEF DeleteRow
<1> HIDE DEF u, row
<1>6. /\ upload' \in [Uploads -> Upload]
      /\ \A v \in Uploads : upload'[v].report = None <=> upload'[v].expiry # "never"
      /\ upload'[u] = row
      /\ \A v \in Uploads \ {u} : upload'[v] = upload[v]
  BY <1>1, <1>4, <1>5, RowChange DEF Inv, u
<1>7. TypeOK'
  BY <1>2, <1>6 DEF Inv, TypeOK, DeleteRow
<1>8. UploadsKeep
  BY <1>3, <1>4, <1>6 DEF DeleteRow, UploadsKeep
<1>9. Claims'
  BY <1>2, <1>4, <1>6 DEF Inv, Claims, Holds
<1> QED
  BY <1>7, <1>8, <1>9, UploadFrame DEF DeleteRow

LEMMA CleanupFailsKeeps ==
  ASSUME Inv, NEW c \in Cleaners, CleanupFails(c)
  PROVE  Inv'
<1> DEFINE u == sweep[c].upload
           gone == [upload[u] EXCEPT !.state = "gone"]
<1>1. u \in Uploads /\ upload[u].report = None /\ upload[u].cleaning /\ Holds(c)
  BY DEF Inv, Claims, Holds, CleanupFails, Tied
<1>2. /\ gone \in Upload /\ gone.cleaning /\ gone.state = "gone"
      /\ gone.report = upload[u].report /\ gone.expiry = upload[u].expiry
  BY <1>1 DEF Inv, TypeOK, Upload
<1>3. PICK row \in {upload[u], gone} : upload' = [upload EXCEPT ![u] = row]
  <2>1. upload = [upload EXCEPT ![u] = upload[u]]
    BY <1>1 DEF Inv, TypeOK
  <2>2. upload' \in {upload, [upload EXCEPT ![u] = gone]}
    BY DEF CleanupFails
  <2> HIDE DEF u, gone
  <2> QED
    BY <2>1, <2>2
<1>4. /\ stored' \subseteq Uploads \cup Documents
      /\ \A v \in Uploads \ {u} : v \in stored => v \in stored'
  BY DEF Inv, TypeOK, CleanupFails
<1>5. /\ sweep' \in [Cleaners -> Sweep]
      /\ Holds(c)' /\ sweep'[c].upload = u
      /\ \A d \in Cleaners \ {c} : sweep'[d] = sweep[d]
  <2>1. sweep \in [Cleaners -> Sweep] /\ sweep' = [sweep EXCEPT ![c].at = "unclaim"]
    BY DEF Inv, TypeOK, CleanupFails
  <2> QED
    BY <2>1 DEF Sweep, Holds
<1> HIDE DEF u, gone
<1>6. /\ row \in Upload /\ row.report = upload[u].report /\ row.expiry = upload[u].expiry
      /\ row.cleaning /\ row.state \in {upload[u].state, "gone"}
  BY <1>1, <1>2, <1>3 DEF Inv, TypeOK
<1>7. /\ upload' \in [Uploads -> Upload]
      /\ \A v \in Uploads : upload'[v].report = None <=> upload'[v].expiry # "never"
      /\ upload'[u] = row
      /\ \A v \in Uploads \ {u} : upload'[v] = upload[v]
  BY <1>1, <1>3, <1>6, RowChange DEF Inv
<1>8. TypeOK'
  <2>1. faults' \in 0..MaxFaults
    BY ReportsAssumption DEF Inv, TypeOK, CleanupFails, Fault
  <2> QED
    BY <1>4, <1>5, <1>7, <2>1 DEF Inv, TypeOK, CleanupFails
<1>9. UploadsKeep
  BY <1>1, <1>4, <1>6, <1>7 DEF CleanupFails, UploadsKeep
<1>10. Claims'
  BY <1>1, <1>5, <1>6, <1>7 DEF Inv, Claims, Holds, u
<1> QED
  BY <1>8, <1>9, <1>10, UploadFrame DEF CleanupFails

\* Nobody else has claimed the upload that is given back.
LEMMA UnclaimKeeps ==
  ASSUME Inv, NEW c \in Cleaners, Unclaim(c)
  PROVE  Inv'
<1> DEFINE u == sweep[c].upload
           row == Unclaimed(upload[u])
<1>1. u \in Uploads /\ upload[u].report = None /\ Holds(c)
  BY DEF Inv, Claims, Holds, Unclaim, Tied
<1>2. /\ row \in Upload /\ row.state = upload[u].state
      /\ row.report = upload[u].report /\ row.expiry = upload[u].expiry
  BY <1>1 DEF Inv, TypeOK, Upload, Unclaimed
<1>3. upload' = [upload EXCEPT ![u] = row]
  BY <1>1 DEF Inv, TypeOK, Unclaim
<1>4. /\ sweep' \in [Cleaners -> Sweep] /\ ~Holds(c)'
      /\ \A d \in Cleaners \ {c} : sweep'[d] = sweep[d]
  BY DEF Inv, TypeOK, Unclaim, NoSweep, Sweep, Holds
<1> HIDE DEF row
<1>5. /\ upload' \in [Uploads -> Upload]
      /\ \A v \in Uploads : upload'[v].report = None <=> upload'[v].expiry # "never"
      /\ upload'[u] = row
      /\ \A v \in Uploads \ {u} : upload'[v] = upload[v]
  BY <1>1, <1>2, <1>3, RowChange DEF Inv
<1> HIDE DEF u
<1>6. TypeOK'
  BY <1>4, <1>5 DEF Inv, TypeOK, Unclaim
<1>7. UploadsKeep
  BY <1>1, <1>2, <1>5 DEF Unclaim, UploadsKeep
<1>8. Claims'
  BY <1>1, <1>4, <1>5 DEF Inv, Claims, Holds, u
<1> QED
  BY <1>6, <1>7, <1>8, UploadFrame DEF Unclaim

-----------------------------------------------------------------------------
(* The steps of a session up to its commit.                                *)

\* A session without a request has only to remember rightly.
LEMMA AtRest ==
  ASSUME NEW s \in Sessions, work'[s].at = "idle", Recent(s)'
  PROVE  Session(s)'
BY DEF Session, Owns, Saves, Informed, Finalizes, Chosen, Counted, Rendered, At

LEMMA WorkIn ==
  ASSUME TypeOK, NEW s \in Sessions, NEW w \in Work, work' = [work EXCEPT ![s] = w]
  PROVE  /\ work' \in [Sessions -> Work]
         /\ work'[s] = w
         /\ \A t \in Sessions \ {s} : work'[t] = work[t]
BY DEF TypeOK

\* The request ends; what its browser knows stays as it is.
LEMMA ReturnIn ==
  ASSUME Inv, NEW s \in Sessions, Return(s), UNCHANGED <<copy, report>>
  PROVE  /\ work' \in [Sessions -> Work]
         /\ \A t \in Sessions \ {s} : work'[t] = work[t]
         /\ Session(s)'
<1>1. Idle \in Work
  BY ReportsAssumption DEF Idle, Request, Work
<1>2. /\ work' \in [Sessions -> Work]
      /\ work'[s] = Idle
      /\ \A t \in Sessions \ {s} : work'[t] = work[t]
  BY <1>1, WorkIn DEF Inv, Return
<1>3. work'[s].at = "idle" /\ Recent(s)'
  BY <1>2 DEF Idle, Request, Inv, Session, Recent
<1> QED
  BY <1>2, <1>3, AtRest

LEMMA ReadKeeps ==
  ASSUME Inv, NEW s \in Sessions, NEW r \in Reports, Read(s, r)
  PROVE  Inv'
<1>1. report[r] \in Report /\ report[r].revision \in 1..MaxRevision
  BY ReportsAssumption DEF Inv, TypeOK, Archived, Numbered, Report, Read, Live
<1>2. TypeOK'
  <2>1. copy' \in [Sessions -> Copy]
    BY <1>1 DEF Inv, TypeOK, Read, Sees, Copy, Report
  <2> QED
    BY <2>1 DEF Inv, TypeOK, Read
<1>3. Recent(s)'
  BY <1>1 DEF Inv, TypeOK, Recent, Read, Sees
<1>4. Session(s)'
  BY <1>3, AtRest DEF Read, At
<1>5. OthersKeep(s) /\ PhotosStay
  BY DEF Inv, TypeOK, Read, Sees, OthersKeep, PhotosStay
<1> QED
  BY <1>2, <1>4, <1>5, SessionFrame DEF Read

LEMMA CreateKeeps ==
  ASSUME Inv, NEW s \in Sessions, NEW r \in Reports, Create(s, r)
  PROVE  Inv'
<1>1. PICK photos \in SUBSET Known : work' = [work EXCEPT ![s] = Request("link", r, 0, photos)]
  BY DEF Create
<1> DEFINE w == Request("link", r, 0, photos)
<1>2. /\ w \in Work /\ w.at = "link" /\ w.report = r /\ w.revision = 0 /\ w.photos = photos
      /\ photos \subseteq Known /\ photos \subseteq Uploads
  BY <1>1, ReportsAssumption DEF Request, Work, Known
<1> HIDE DEF w
<1>3. /\ work' \in [Sessions -> Work]
      /\ work'[s] = w
      /\ \A t \in Sessions \ {s} : work'[t] = work[t]
  BY <1>1, <1>2, WorkIn DEF Inv, w
<1>4. TypeOK'
  BY <1>3 DEF Inv, TypeOK, Create
<1>5. Session(s)'
  <2>1. Recent(s)'
    BY DEF Inv, Session, Recent, Create
  <2>2. Owns(s)'
    BY <1>2, <1>3 DEF Inv, TypeOK, Owns, Creates, Mine, Create
  <2>3. Informed(s)' /\ Counted(s)' /\ Rendered(s)'
    BY <1>2, <1>3 DEF Informed, Counted, Rendered, Creates, Finalizes, At
  <2>4. Chosen(s)'
    BY <1>2, <1>3 DEF Chosen, Create, Known
  <2> QED
    BY <1>2, <1>3, <2>1, <2>2, <2>3, <2>4 DEF Session, Mine
<1>6. OthersKeep(s) /\ PhotosStay
  BY <1>3, ReportsAssumption DEF Inv, TypeOK, Create, OthersKeep, PhotosStay
<1> QED
  BY <1>4, <1>5, <1>6, SessionFrame DEF Create

LEMMA UpdateKeeps ==
  ASSUME Inv, NEW s \in Sessions, Update(s)
  PROVE  Inv'
<1> DEFINE r == Seen(s)
           n == copy[s].revision
<1>1. PICK photos \in SUBSET Known : work' = [work EXCEPT ![s] = Request("lock", r, n, photos)]
  BY DEF Update
<1> DEFINE w == Request("lock", r, n, photos)
<1>2. r \in Reports /\ n \in 0..MaxRevision /\ copy[s] # NoCopy
  BY DEF Inv, TypeOK, Session, Recent, Update, Current, Seen, Copy
<1> HIDE DEF r, n
<1>3. /\ w \in Work /\ w.at = "lock" /\ w.report = r /\ w.revision = n /\ w.photos = photos
      /\ photos \subseteq Known /\ photos \subseteq Uploads
  BY <1>1, <1>2, ReportsAssumption DEF Request, Work, Known
<1> HIDE DEF w
<1>4. /\ work' \in [Sessions -> Work]
      /\ work'[s] = w
      /\ \A t \in Sessions \ {s} : work'[t] = work[t]
  BY <1>1, <1>3, WorkIn DEF Inv, w
<1>5. TypeOK'
  BY <1>4 DEF Inv, TypeOK, Update
<1>6. Session(s)'
  <2>1. Recent(s)'
    BY DEF Inv, Session, Recent, Update
  <2>2. Owns(s)' /\ Counted(s)' /\ Rendered(s)'
    BY <1>3, <1>4 DEF Owns, Saves, Counted, Rendered, At
  <2>3. Informed(s)'
    BY <1>2, <1>3, <1>4 DEF Informed, Finalizes, Mine, Update, r, n, Seen
  <2>4. Chosen(s)'
    BY <1>3, <1>4 DEF Chosen, Update, Known
  <2> QED
    BY <1>2, <1>3, <1>4, <2>1, <2>2, <2>3, <2>4 DEF Session, Mine
<1>7. OthersKeep(s) /\ PhotosStay
  BY <1>4 DEF Inv, TypeOK, Update, OthersKeep, PhotosStay
<1> QED
  BY <1>5, <1>6, <1>7, SessionFrame DEF Update

LEMMA GotoIn ==
  ASSUME TypeOK, NEW s \in Sessions, NEW call, Goto(s, call),
         call \in {"link", "save", "photos", "pdf", "freeze", "discard"}
  PROVE  /\ work' \in [Sessions -> Work]
         /\ work'[s] = [work[s] EXCEPT !.at = call]
         /\ work'[s].at = call /\ work'[s].report = work[s].report
         /\ work'[s].revision = work[s].revision /\ work'[s].photos = work[s].photos
         /\ work'[s].pending = work[s].pending /\ work'[s].document = work[s].document
         /\ \A t \in Sessions \ {s} : work'[t] = work[t]
<1> DEFINE w == [work[s] EXCEPT !.at = call]
<1>1. work[s] \in Work
  BY DEF TypeOK
<1>2. /\ w \in Work /\ w.at = call /\ w.report = work[s].report /\ w.revision = work[s].revision
      /\ w.photos = work[s].photos /\ w.pending = work[s].pending /\ w.document = work[s].document
  BY <1>1 DEF Work
<1>3. work' = [work EXCEPT ![s] = w]
  BY DEF Goto
<1> HIDE DEF w
<1>4. work' \in [Sessions -> Work] /\ work'[s] = w /\ \A t \in Sessions \ {s} : work'[t] = work[t]
  BY <1>2, <1>3, WorkIn
<1> QED
  BY <1>2, <1>4 DEF w

LEMMA LockReportKeeps ==
  ASSUME Inv, NEW s \in Sessions, LockReport(s)
  PROVE  Inv'
<1>1. Mine(s) \in Reports /\ work[s] \in Work /\ Session(s)
  BY DEF Inv, TypeOK, Session, LockReport, At
<1>2. CASE LockAccepted(s)
  <2>1. Goto(s, "link") /\ lock' = [lock EXCEPT ![Mine(s)] = s]
    BY <1>2 DEF LockReport
  <2>2. /\ work' \in [Sessions -> Work]
        /\ work'[s].at = "link" /\ work'[s].report = work[s].report
        /\ work'[s].revision = work[s].revision /\ work'[s].photos = work[s].photos
        /\ \A t \in Sessions \ {s} : work'[t] = work[t]
    BY <2>1, GotoIn DEF Inv
  <2>3. TypeOK'
    BY <2>1, <2>2 DEF Inv, TypeOK, LockReport
  <2>4. work[s].revision # 0
    BY <1>1 DEF Session, Informed, Recent, LockReport, At
  <2>5. Session(s)'
    <3>1. Recent(s)'
      BY <1>1 DEF Session, Recent, LockReport
    <3>2. Owns(s)'
      BY <1>1, <1>2, <2>1, <2>2, <2>4
         DEF Inv, TypeOK, Owns, Creates, Mine, LockReport, LockAccepted, StillDraft, Live
    <3>3. Informed(s)' /\ Chosen(s)'
      BY <1>1, <2>2, <2>4
         DEF Session, Informed, Chosen, Saves, Creates, Finalizes, Mine, LockReport, At
    <3>4. Counted(s)' /\ Rendered(s)'
      BY <2>2 DEF Counted, Rendered, At
    <3> QED
      BY <1>1, <2>2, <3>1, <3>2, <3>3, <3>4 DEF Session, Mine
  <2>6. OthersKeep(s) /\ PhotosStay
    BY <1>1, <2>1, <2>2, ReportsAssumption DEF Inv, TypeOK, LockReport, OthersKeep, PhotosStay
  <2> QED
    BY <2>3, <2>5, <2>6, SessionFrame DEF LockReport
<1>3. CASE ~LockAccepted(s)
  <2>1. Return(s) /\ UNCHANGED <<lock, copy, report>>
    BY <1>3 DEF LockReport
  <2>2. /\ work' \in [Sessions -> Work] /\ Session(s)'
        /\ \A t \in Sessions \ {s} : work'[t] = work[t]
    BY <2>1, ReturnIn
  <2>3. TypeOK'
    BY <2>1, <2>2 DEF Inv, TypeOK, LockReport
  <2>4. OthersKeep(s) /\ PhotosStay
    BY <2>1, <2>2 DEF LockReport, OthersKeep, PhotosStay
  <2> QED
    BY <2>2, <2>3, <2>4, SessionFrame DEF LockReport
<1> QED
  BY <1>2, <1>3

LEMMA ReadUploadsKeeps ==
  ASSUME Inv, NEW s \in Sessions, ReadUploads(s)
  PROVE  Inv'
<1>1. Mine(s) \in Reports /\ work[s] \in Work /\ Session(s) /\ work[s].photos \subseteq Uploads
  BY DEF Inv, TypeOK, Session, ReadUploads, At, Work
<1>2. Pending(s) = Missing(s)
  BY <1>1, ReportsAssumption DEF Pending, Missing, ReadUploads
<1>3. Cardinality(Pending(s)) \in Nat
  BY <1>1, ReportsAssumption, FS_Subset, FS_CardinalityType DEF Pending
<1> DEFINE w == [work[s] EXCEPT !.at = "save", !.pending = Cardinality(Pending(s))]
<1>4. /\ w \in Work /\ w.at = "save" /\ w.report = work[s].report /\ w.revision = work[s].revision
      /\ w.photos = work[s].photos /\ w.pending = Cardinality(Pending(s))
  BY <1>1, <1>3 DEF Work
<1>5. work' = [work EXCEPT ![s] = w]
  BY DEF ReadUploads
<1> HIDE DEF w
<1>6. work' \in [Sessions -> Work] /\ work'[s] = w /\ \A t \in Sessions \ {s} : work'[t] = work[t]
  BY <1>4, <1>5, WorkIn DEF Inv
<1>7. TypeOK'
  BY <1>6 DEF Inv, TypeOK, ReadUploads
<1>8. Session(s)'
  <2>1. Recent(s)'
    BY <1>1 DEF Session, Recent, ReadUploads
  <2>2. Owns(s)' /\ Informed(s)' /\ Chosen(s)'
    BY <1>1, <1>4, <1>6 DEF Session, Owns, Informed, Chosen, Saves, Creates, Finalizes, Mine,
                            StillDraft, Live, ReadUploads, At
  <2>3. Counted(s)'
    <3>1. Missing(s)' = Missing(s) /\ Linked(Mine(s))' = Linked(Mine(s))
      BY <1>4, <1>6 DEF Missing, Mine, Linked, HasRow, ReadUploads
    <3>2. work[s].photos = {} \/ Cardinality(Linked(Mine(s))) + Cardinality(Pending(s)) <= MaxPhotos
      BY DEF ReadUploads, RoomFor
    <3> QED
      BY <1>2, <1>4, <1>6, <3>1, <3>2 DEF Counted
  <2>4. Rendered(s)'
    BY <1>4, <1>6 DEF Rendered
  <2> QED
    BY <1>1, <1>4, <1>6, <2>1, <2>2, <2>3, <2>4 DEF Session, Mine
<1>9. OthersKeep(s) /\ PhotosStay
  BY <1>6 DEF ReadUploads, OthersKeep, PhotosStay
<1> QED
  BY <1>7, <1>8, <1>9, SessionFrame DEF ReadUploads

LEMMA AbortKeeps ==
  ASSUME Inv, NEW s \in Sessions, Abort(s)
  PROVE  Inv'
<1>1. Mine(s) \in Reports /\ lock[Mine(s)] = s
  BY DEF Inv, Session, Owns, Saves, Abort, At
<1>2. /\ work' \in [Sessions -> Work] /\ Session(s)'
      /\ \A t \in Sessions \ {s} : work'[t] = work[t]
  BY ReturnIn DEF Abort
<1>3. TypeOK'
  BY <1>2 DEF Inv, TypeOK, Abort
<1>4. OthersKeep(s) /\ PhotosStay
  BY <1>1, <1>2 DEF Inv, TypeOK, Abort, OthersKeep, PhotosStay
<1> QED
  BY <1>2, <1>3, <1>4, SessionFrame DEF Abort

-----------------------------------------------------------------------------
(* The steps of a finalize up to its commit.                               *)

LEMMA FinalizeKeeps ==
  ASSUME Inv, NEW s \in Sessions, Finalize(s)
  PROVE  Inv'
<1> DEFINE r == Seen(s)
           w == Request("photos", r, copy[s].revision, report[r].photos)
<1>1. /\ r \in Reports /\ copy[s] # NoCopy /\ copy[s].photos = report[r].photos
      /\ copy[s] \in Copy
  BY DEF Inv, TypeOK, Session, Recent, Finalize, Current, Seen
<1>2. /\ w \in Work /\ w.at = "photos" /\ w.report = r /\ w.revision = copy[s].revision
      /\ w.photos = copy[s].photos
  BY <1>1, ReportsAssumption DEF Request, Work, Copy
<1>3. work' = [work EXCEPT ![s] = w]
  BY DEF Finalize
<1> HIDE DEF w
<1>4. work' \in [Sessions -> Work] /\ work'[s] = w /\ \A t \in Sessions \ {s} : work'[t] = work[t]
  BY <1>2, <1>3, WorkIn DEF Inv
<1>5. TypeOK'
  BY <1>4 DEF Inv, TypeOK, Finalize
<1>6. Session(s)'
  <2>1. Recent(s)'
    BY DEF Inv, Session, Recent, Finalize
  <2>2. Owns(s)' /\ Chosen(s)' /\ Counted(s)' /\ Rendered(s)'
    BY <1>2, <1>4 DEF Owns, Saves, Chosen, Counted, Rendered, At
  <2>3. Informed(s)'
    BY <1>1, <1>2, <1>4 DEF Informed, Mine, Finalize, Seen
  <2> QED
    BY <1>1, <1>2, <1>4, <2>1, <2>2, <2>3 DEF Session, Mine
<1>7. OthersKeep(s) /\ PhotosStay
  BY <1>4 DEF Finalize, OthersKeep, PhotosStay
<1> QED
  BY <1>5, <1>6, <1>7, SessionFrame DEF Finalize

LEMMA ReadPhotosKeeps ==
  ASSUME Inv, NEW s \in Sessions, ReadPhotos(s)
  PROVE  Inv'
<1>1. Mine(s) \in Reports /\ Session(s)
  BY DEF Inv, Session, ReadPhotos, At
<1>2. /\ work' \in [Sessions -> Work]
      /\ work'[s].at = "pdf" /\ work'[s].report = work[s].report
      /\ work'[s].revision = work[s].revision /\ work'[s].photos = work[s].photos
      /\ \A t \in Sessions \ {s} : work'[t] = work[t]
  BY GotoIn DEF Inv, ReadPhotos
<1>3. TypeOK'
  BY <1>2 DEF Inv, TypeOK, ReadPhotos
<1>4. Session(s)'
  <2>1. Recent(s)'
    BY <1>1 DEF Session, Recent, ReadPhotos
  <2>2. Owns(s)' /\ Chosen(s)' /\ Counted(s)'
    BY <1>2 DEF Owns, Saves, Chosen, Counted, At
  <2>3. Informed(s)' /\ Rendered(s)'
    BY <1>1, <1>2 DEF Session, Informed, Rendered, Finalizes, Saves, Mine, ReadPhotos, At
  <2> QED
    BY <1>1, <1>2, <2>1, <2>2, <2>3 DEF Session, Mine
<1>5. OthersKeep(s) /\ PhotosStay
  BY <1>2 DEF ReadPhotos, OthersKeep, PhotosStay
<1> QED
  BY <1>3, <1>4, <1>5, SessionFrame DEF ReadPhotos

LEMMA WritePdfKeeps ==
  ASSUME Inv, NEW s \in Sessions, WritePdf(s)
  PROVE  Inv'
<1>1. Mine(s) \in Reports /\ Session(s) /\ work[s] \in Work
  BY DEF Inv, TypeOK, Session, WritePdf, At
<1>2. PICK d \in FreshDocuments :
        /\ stored' = stored \cup {d}
        /\ written' = written \cup {d}
        /\ work' = [work EXCEPT ![s].at = "freeze", ![s].document = d]
  BY DEF WritePdf
<1> DEFINE w == [work[s] EXCEPT !.at = "freeze", !.document = d]
<1>3. /\ w \in Work /\ w.at = "freeze" /\ w.report = work[s].report
      /\ w.revision = work[s].revision /\ w.photos = work[s].photos /\ w.document # None
  BY <1>1, <1>2, ReportsAssumption DEF Work, FreshDocuments
<1>4. work' = [work EXCEPT ![s] = w]
  BY <1>2
<1> HIDE DEF w
<1>5. work' \in [Sessions -> Work] /\ work'[s] = w /\ \A t \in Sessions \ {s} : work'[t] = work[t]
  BY <1>3, <1>4, WorkIn DEF Inv
<1>6. TypeOK'
  BY <1>2, <1>5 DEF Inv, TypeOK, WritePdf, FreshDocuments
<1>7. Session(s)'
  <2>1. Recent(s)'
    BY <1>1 DEF Session, Recent, WritePdf
  <2>2. Owns(s)' /\ Chosen(s)' /\ Counted(s)'
    BY <1>3, <1>5 DEF Owns, Saves, Chosen, Counted, At
  <2>3. Informed(s)' /\ Rendered(s)'
    BY <1>1, <1>2, <1>3, <1>5 DEF Session, Informed, Rendered, Finalizes, Saves, Mine, WritePdf, At
  <2> QED
    BY <1>1, <1>3, <1>5, <2>1, <2>2, <2>3 DEF Session, Mine
<1>8. OthersKeep(s) /\ PhotosStay
  BY <1>2, <1>5 DEF WritePdf, OthersKeep, PhotosStay
<1> QED
  BY <1>6, <1>7, <1>8, SessionFrame DEF WritePdf

LEMMA FinalizeFailsKeeps ==
  ASSUME Inv, NEW s \in Sessions, FinalizeFails(s)
  PROVE  Inv'
<1>1. /\ work' \in [Sessions -> Work] /\ Session(s)'
      /\ \A t \in Sessions \ {s} : work'[t] = work[t]
  BY ReturnIn DEF FinalizeFails
<1>2. TypeOK'
  BY <1>1 DEF Inv, TypeOK, FinalizeFails
<1>3. OthersKeep(s) /\ PhotosStay
  BY <1>1 DEF FinalizeFails, OthersKeep, PhotosStay
<1> QED
  BY <1>1, <1>2, <1>3, SessionFrame DEF FinalizeFails

\* What is left to a request that discards its document.
LEMMA Discarding ==
  ASSUME NEW s \in Sessions, work'[s].at = "discard", work'[s].report \in Reports, Recent(s)'
  PROVE  Session(s)'
BY DEF Session, Owns, Saves, Informed, Finalizes, Chosen, Counted, Rendered, At, Mine

LEMMA FreezeFailsKeeps ==
  ASSUME Inv, NEW s \in Sessions, FreezeFails(s)
  PROVE  Inv'
<1>1. Mine(s) \in Reports /\ Session(s)
  BY DEF Inv, Session, FreezeFails, At
<1>2. /\ work' \in [Sessions -> Work]
      /\ work'[s].at = "discard" /\ work'[s].report = work[s].report
      /\ \A t \in Sessions \ {s} : work'[t] = work[t]
  BY GotoIn DEF Inv, FreezeFails
<1>3. TypeOK'
  BY <1>2 DEF Inv, TypeOK, FreezeFails
<1>4. Session(s)'
  BY <1>1, <1>2, Discarding DEF Session, Recent, FreezeFails, Mine
<1>5. OthersKeep(s) /\ PhotosStay
  BY <1>2 DEF FreezeFails, OthersKeep, PhotosStay
<1> QED
  BY <1>3, <1>4, <1>5, SessionFrame DEF FreezeFails

\* A document is no photo.
LEMMA DiscardKeeps ==
  ASSUME Inv, NEW s \in Sessions, Discard(s)
  PROVE  Inv'
<1>1. /\ work' \in [Sessions -> Work] /\ Session(s)'
      /\ \A t \in Sessions \ {s} : work'[t] = work[t]
  BY ReturnIn DEF Discard
<1>2. work[s].document \notin Uploads
  BY ReportsAssumption DEF Inv, TypeOK, Work
<1>3. TypeOK'
  BY <1>1 DEF Inv, TypeOK, Discard
<1>4. OthersKeep(s) /\ PhotosStay
  BY <1>1, <1>2 DEF Discard, OthersKeep, PhotosStay
<1> QED
  BY <1>1, <1>3, <1>4, SessionFrame DEF Discard

-----------------------------------------------------------------------------
(* The steps that change a report and none of its uploads.                 *)

\* A report that keeps its photos and revision is archived as before.
LEMMA SoftDeleteKeeps ==
  ASSUME Inv, NEW s \in Sessions, SoftDelete(s)
  PROVE  Inv'
<1>1. PICK r \in Reports : r = Seen(s) /\ lock[r] = None /\ report[r].status # "NONE"
  BY DEF Inv, Session, Recent, SoftDelete, Seen, Live
<1>2. report' = [report EXCEPT ![r].deleted = TRUE]
  BY <1>1 DEF SoftDelete
<1>3. /\ report' \in [Reports -> Report]
      /\ report'[r].status = report[r].status /\ report'[r].revision = report[r].revision
      /\ report'[r].photos = report[r].photos
      /\ \A q \in Reports \ {r} : report'[q] = report[q]
  BY <1>1, <1>2 DEF Inv, TypeOK, Report
<1>4. TypeOK'
  BY <1>3 DEF Inv, TypeOK, SoftDelete
<1>5. Archived(r)'
  BY <1>1, <1>3 DEF Inv, Archived, Numbered, Final, Photographed, Retaining, Bounded, Frozen,
                    Linked, HasRow, SoftDelete
<1>6. Advances(r)
  BY <1>1, <1>3 DEF Inv, TypeOK, Report, Advances
<1>7. Session(s)'
  <2>1. Recent(s)
    BY DEF Inv, Session
  <2>2. \A q \in Reports : report'[q].revision = report[q].revision /\ report'[q].photos = report[q].photos
    BY <1>3
  <2>3. Recent(s)'
    BY <2>1, <2>2 DEF Recent, SoftDelete
  <2> QED
    BY <2>3, AtRest DEF SoftDelete, At
<1> QED
  BY <1>1, <1>3, <1>4, <1>5, <1>6, <1>7, ReportFrame DEF SoftDelete

\* A finalize commits the revision it has read: it still has the photos that
\* are in the document, and all of them are there.
LEMMA CommitIn ==
  ASSUME Inv, NEW s \in Sessions, NEW r \in Reports, r = Mine(s), Commit(s)
  PROVE  /\ lock[r] = None
         /\ copy[s] = [report |-> r, revision |-> report[r].revision, photos |-> report[r].photos]
         /\ report' \in [Reports -> Report]
         /\ report'[r].revision = report[r].revision
         /\ report'[r].photos = report[r].photos
         /\ \A q \in Reports \ {r} : report'[q] = report[q] /\ version'[q] = version[q]
         /\ version' \in [Reports -> [Revisions -> Version]]
         /\ \A n \in Revisions \ {report[r].revision} : version'[r][n] = version[r][n]
         /\ version'[r][report[r].revision] =
                  [photos |-> work[s].photos, document |-> work[s].document]
         /\ Advances(r)
         /\ Archived(r)'
<1>0. PICK n : n = work[s].revision
  OBVIOUS
<1>1. /\ report[r] \in Report /\ work[s] \in Work /\ copy[s] \in Copy
      /\ Session(s) /\ Archived(r)
  BY DEF Inv, TypeOK, Session, Commit, At
<1>2. report[r].status = "DRAFT" /\ report[r].revision = n
  BY <1>0 DEF Commit, StillDraft
<1>3. copy[s].report = r /\ copy[s].revision = n /\ copy[s].photos = report[r].photos
  BY <1>0, <1>1, <1>2 DEF Session, Informed, Recent, Finalizes, Commit, At
<1>4. work[s].photos = report[r].photos /\ work[s].photos \subseteq stored /\ work[s].photos \subseteq Uploads
  BY <1>0, <1>1, <1>2, <1>3 DEF Session, Informed, Rendered, Finalizes, Commit, At, Work
<1>5. n \in Revisions
  BY <1>1, <1>2 DEF Archived, Numbered, Report, Revisions
<1> DEFINE row == [report[r] EXCEPT !.status = "FINAL", !.photos = work[s].photos]
           frozen == [photos |-> work[s].photos, document |-> work[s].document]
<1>6. /\ row \in Report /\ row.status = "FINAL" /\ row.revision = n
      /\ row.photos = report[r].photos
  BY <1>1, <1>2, <1>4 DEF Report
<1>7. frozen \in Version
  BY <1>1 DEF Version, Work
<1>8. report' = [report EXCEPT ![r] = row] /\ version' = [version EXCEPT ![r][n] = frozen]
  BY <1>0 DEF Commit
<1> HIDE DEF row
<1>9. /\ report' \in [Reports -> Report]
      /\ report'[r] = row
      /\ \A q \in Reports \ {r} : report'[q] = report[q]
  BY <1>1, <1>6, <1>8 DEF Inv, TypeOK
<1> HIDE DEF frozen
<1>10. /\ version' \in [Reports -> [Revisions -> Version]]
       /\ version'[r][n] = frozen
       /\ \A m \in Revisions \ {n} : version'[r][m] = version[r][m]
       /\ \A q \in Reports \ {r} : version'[q] = version[q]
  BY <1>1, <1>5, <1>7, <1>8 DEF Inv, TypeOK
<1>11. Frozen(r)' \subseteq Frozen(r) \cup {n}
  BY <1>10 DEF Frozen
<1>12. Archived(r)'
  <2>1. \A m \in Frozen(r) : m < n
    BY <1>1, <1>2 DEF Archived, Numbered
  <2>2. Numbered(r)'
    BY <1>1, <1>2, <1>5, <1>6, <1>9, <1>11, <2>1 DEF Archived, Numbered, Revisions, Frozen
  <2>3. Photographed(r)'
    BY <1>1, <1>6, <1>9 DEF Archived, Photographed, Commit
  <2>4. Retaining(r)'
    <3>1. frozen.photos = report[r].photos
      BY <1>4 DEF frozen
    <3>2. \A u \in frozen.photos : upload[u].report = r /\ u \in stored
      BY <1>1, <1>4, <3>1 DEF Archived, Photographed
    <3>3. \A m \in Frozen(r)' : m # n => m \in Frozen(r) /\ version'[r][m] = version[r][m]
      BY <1>10 DEF Frozen
    <3> QED
      BY <1>1, <1>10, <3>2, <3>3 DEF Archived, Retaining, Commit
  <2>5. Bounded(r)'
    BY <1>1 DEF Archived, Bounded, Linked, HasRow, Commit
  <2>6. Final(r)'
    <3>1. frozen.photos = report[r].photos
      BY <1>4 DEF frozen
    <3>2. frozen # NoVersion
      BY <1>1 DEF frozen, NoVersion, Session, Rendered, Commit, At
    <3> QED
      BY <1>5, <1>6, <1>9, <1>10, <3>1, <3>2 DEF Final, Frozen
  <2> QED
    BY <2>2, <2>3, <2>4, <2>5, <2>6 DEF Archived
<1>13. copy[s] = [report |-> r, revision |-> n, photos |-> report[r].photos]
  BY <1>1, <1>3 DEF Copy
<1>14. Advances(r)
  BY <1>1, <1>2, <1>6, <1>9 DEF Advances, Report
<1>15. lock[r] = None
  BY DEF Commit
<1> QED
  BY <1>1, <1>2, <1>6, <1>9, <1>10, <1>12, <1>13, <1>14, <1>15 DEF frozen

LEMMA FreezeKeeps ==
  ASSUME Inv, NEW s \in Sessions, Freeze(s)
  PROVE  Inv'
<1>1. PICK r \in Reports : r = Mine(s)
  BY DEF Inv, Session, Freeze, Commit, At
<1>2. /\ lock[r] = None
      /\ copy[s] = [report |-> r, revision |-> report[r].revision, photos |-> report[r].photos]
      /\ report' \in [Reports -> Report]
      /\ report'[r].revision = report[r].revision /\ report'[r].photos = report[r].photos
      /\ \A q \in Reports \ {r} : report'[q] = report[q] /\ version'[q] = version[q]
      /\ version' \in [Reports -> [Revisions -> Version]]
      /\ Advances(r) /\ Archived(r)'
  BY <1>1, CommitIn DEF Freeze
<1>3. work[s].revision = report[r].revision /\ work[s].photos = report[r].photos
  BY <1>1, <1>2 DEF Inv, Session, Informed, Finalizes, Freeze, Commit, At
<1>4. copy' = copy
  BY <1>1, <1>2, <1>3 DEF Inv, TypeOK, Freeze, Sees
<1>5. /\ Idle \in Work
      /\ work' \in [Sessions -> Work] /\ work'[s] = Idle
      /\ \A t \in Sessions \ {s} : work'[t] = work[t]
  <2>1. Idle \in Work
    BY ReportsAssumption DEF Idle, Request, Work
  <2> QED
    BY <2>1, WorkIn DEF Inv, Freeze, Return
<1>6. TypeOK'
  BY <1>2, <1>4, <1>5 DEF Inv, TypeOK, Freeze, Commit
<1>7. Session(s)'
  <2>1. Recent(s)'
    BY <1>2, <1>4 DEF Inv, Session, Recent
  <2> QED
    BY <1>5, <2>1, AtRest DEF Idle, Request
<1> QED
  BY <1>2, <1>4, <1>5, <1>6, <1>7, ReportFrame DEF Freeze, Commit

LEMMA FreezeUnacknowledgedKeeps ==
  ASSUME Inv, NEW s \in Sessions, FreezeUnacknowledged(s)
  PROVE  Inv'
<1>1. PICK r \in Reports : r = Mine(s)
  BY DEF Inv, Session, FreezeUnacknowledged, Commit, At
<1>2. /\ lock[r] = None
      /\ copy[s] = [report |-> r, revision |-> report[r].revision, photos |-> report[r].photos]
      /\ report' \in [Reports -> Report]
      /\ report'[r].revision = report[r].revision /\ report'[r].photos = report[r].photos
      /\ \A q \in Reports \ {r} : report'[q] = report[q] /\ version'[q] = version[q]
      /\ version' \in [Reports -> [Revisions -> Version]]
      /\ Advances(r) /\ Archived(r)'
  BY <1>1, CommitIn DEF FreezeUnacknowledged
<1>3. /\ work' \in [Sessions -> Work]
      /\ work'[s].at = "discard" /\ work'[s].report = work[s].report
      /\ \A t \in Sessions \ {s} : work'[t] = work[t]
  BY GotoIn DEF Inv, FreezeUnacknowledged
<1>4. faults' \in 0..MaxFaults
  BY ReportsAssumption DEF Inv, TypeOK, FreezeUnacknowledged, Fault
<1>5. TypeOK'
  BY <1>2, <1>3, <1>4 DEF Inv, TypeOK, FreezeUnacknowledged, Commit
<1>6. Session(s)'
  <2>1. Recent(s)'
    BY <1>2 DEF Inv, Session, Recent, FreezeUnacknowledged
  <2> QED
    BY <1>1, <1>3, <2>1, Discarding DEF Mine
<1> QED
  BY <1>2, <1>3, <1>5, <1>6, ReportFrame DEF FreezeUnacknowledged, Commit

\* The latest version of a FINAL report is the one of its revision.
LEMMA LatestIsFinal ==
  ASSUME TypeOK, NEW r \in Reports, Archived(r), report[r].status = "FINAL"
  PROVE  LatestVersion(r).photos = report[r].photos
<1> DEFINE Last(n) == n \in Frozen(r) /\ \A m \in Frozen(r) : m <= n
<1>1. report[r].revision \in Frozen(r) /\ \A m \in Frozen(r) : m <= report[r].revision
  BY DEF Archived, Numbered, Final
<1>2. \A n \in Frozen(r) : n \in Int
  BY DEF Frozen, Revisions
<1>3. PICK n \in Frozen(r) : n = CHOOSE m \in Frozen(r) : \A k \in Frozen(r) : k <= m
  BY <1>1
<1>4. \A m \in Frozen(r) : m <= n
  BY <1>1, <1>3
<1>5. n = report[r].revision
  BY <1>1, <1>2, <1>4
<1> QED
  BY <1>3, <1>5 DEF LatestVersion, Archived, Final

LEMMA CreateRevisionKeeps ==
  ASSUME Inv, NEW s \in Sessions, CreateRevision(s)
  PROVE  Inv'
<1>1. PICK r \in Reports : r = Seen(s)
  BY DEF Inv, Session, Recent, CreateRevision, Current, Seen
<1>2. /\ Archived(r) /\ report[r] \in Report /\ lock[r] = None
      /\ report[r].status = "FINAL" /\ copy[s].revision = report[r].revision
  BY <1>1 DEF Inv, TypeOK, CreateRevision, Current
<1>3. PICK n : n = report[r].revision + 1
  OBVIOUS
<1>4. n \in Revisions /\ n \in 0..MaxRevision
  BY <1>1, <1>2, <1>3 DEF CreateRevision, NextRevision, Revisions
<1> DEFINE row == [report[r] EXCEPT !.status = "DRAFT", !.revision = n]
<1>5. LatestVersion(r).photos = report[r].photos
  BY <1>2, LatestIsFinal DEF Inv
<1>6. /\ row \in Report /\ row.status = "DRAFT" /\ row.revision = n /\ row.photos = report[r].photos
  BY <1>2, <1>4 DEF Report
<1>7. report' = [report EXCEPT ![r] = row]
  <2>1. report' = [report EXCEPT ![r] = [report[r] EXCEPT !.status = "DRAFT", !.revision = n,
                                                          !.photos = report[r].photos]]
    BY <1>1, <1>2, <1>3, <1>5 DEF CreateRevision, NextRevision
  <2>2. [report[r] EXCEPT !.status = "DRAFT", !.revision = n, !.photos = report[r].photos] = row
    BY <1>2 DEF Report
  <2> QED
    BY <2>1, <2>2
<1> HIDE DEF row
<1>8. /\ report' \in [Reports -> Report]
      /\ report'[r] = row
      /\ \A q \in Reports \ {r} : report'[q] = report[q]
  BY <1>6, <1>7 DEF Inv, TypeOK
<1>9. copy' = [copy EXCEPT ![s] = [report |-> r, revision |-> n, photos |-> report[r].photos]]
  BY <1>1, <1>2, <1>3, <1>5 DEF CreateRevision, NextRevision, Sees
<1>10. TypeOK'
  <2>1. copy' \in [Sessions -> Copy]
    BY <1>2, <1>4, <1>9 DEF Inv, TypeOK, Copy, Report
  <2> QED
    BY <1>8, <2>1 DEF Inv, TypeOK, CreateRevision
<1>11. Advances(r)
  BY <1>2, <1>3, <1>6, <1>8 DEF Advances, Report
<1>12. Archived(r)'
  <2>1. Frozen(r)' = Frozen(r) /\ version'[r] = version[r]
    BY DEF Frozen, CreateRevision
  <2>2. Numbered(r)'
    BY <1>2, <1>3, <1>4, <1>6, <1>8, <2>1 DEF Archived, Numbered, Revisions, Frozen, Report
  <2>3. Final(r)' /\ Photographed(r)'
    BY <1>2, <1>6, <1>8 DEF Archived, Final, Photographed, CreateRevision
  <2>4. Retaining(r)' /\ Bounded(r)'
    BY <1>2, <2>1 DEF Archived, Retaining, Bounded, Linked, HasRow, CreateRevision
  <2> QED
    BY <2>2, <2>3, <2>4 DEF Archived
<1>13. Session(s)'
  <2>1. Recent(s)'
    <3>1. copy'[s] = [report |-> r, revision |-> n, photos |-> report[r].photos]
      BY <1>9 DEF Inv, TypeOK
    <3>2. n \in 1..n
      BY <1>4 DEF Revisions
    <3> QED
      BY <1>6, <1>8, <3>1, <3>2 DEF Recent
  <2> QED
    BY <2>1, AtRest DEF CreateRevision, At
<1>14. \A t \in Sessions \ {s} : copy'[t] = copy[t]
  BY <1>9 DEF Inv, TypeOK
<1> QED
  BY <1>2, <1>8, <1>10, <1>11, <1>12, <1>13, <1>14, ReportFrame DEF CreateRevision

-----------------------------------------------------------------------------
(* The commit of a save.                                                   *)

\* What a save does to the uploads: it links what its report misses, and lets
\* go what the draft drops and no version has.
Links(s, r) ==
  /\ \A u \in Uploads :
       /\ upload'[u] \in Upload
       /\ upload'[u].report = None <=> upload'[u].expiry # "never"
       /\ upload'[u].state = upload[u].state /\ upload'[u].cleaning = upload[u].cleaning
       /\ upload'[u].report \in {r, None} \/ upload'[u].report = upload[u].report
       /\ upload[u].report \notin {r, None} => upload'[u] = upload[u]
       /\ upload[u].report = r /\ u \in work[s].photos \cup Retained(r) => upload'[u].report = r
       /\ upload'[u].report = r => upload[u].report = r \/ u \in Missing(s)
  /\ \A u \in Missing(s) :
       upload[u].state = "ready" /\ ~upload[u].cleaning /\ upload'[u].report = r

LEMMA SaveLinks ==
  ASSUME Inv, NEW s \in Sessions, NEW r \in Reports, r = Mine(s), Save(s)
  PROVE  upload' \in [Uploads -> Upload] /\ Links(s, r)
<1> DEFINE photos == work[s].photos
           taken == {u \in photos : Unlinked(u)}
<1>1. /\ upload' = [u \in Uploads |->
                      CASE u \in taken -> LinkedTo(upload[u], r)
                        [] u \in Detached(r, photos) -> Expiring(upload[u])
                        [] OTHER -> upload[u]]
      /\ Cardinality(taken) = work[s].pending
  BY DEF Save
<1>2. work[s] \in Work /\ photos \subseteq Uploads /\ Session(s) /\ r # None
  BY ReportsAssumption DEF Inv, TypeOK, Work
<1>3. taken = Missing(s)
  <2>1. taken \subseteq Missing(s) /\ Missing(s) \subseteq Uploads
    BY <1>2 DEF Missing, Unlinked
  <2>2. IsFiniteSet(Missing(s))
    BY <2>1, ReportsAssumption, FS_Subset
  <2>3. Cardinality(taken) = Cardinality(Missing(s))
    BY <1>1, <1>2 DEF Session, Counted, Save
  <2> QED
    BY <2>1, <2>2, <2>3, FS_Subset
<1>4. \A u \in taken : upload[u].report = None /\ upload[u].state = "ready" /\ ~upload[u].cleaning
  BY <1>2 DEF Unlinked, HasRow, Session, Chosen, Saves, Save, At
<1>5. ASSUME NEW u \in Uploads
      PROVE  /\ u \in taken => upload'[u] = LinkedTo(upload[u], r)
             /\ u \notin taken /\ u \in Detached(r, photos) => upload'[u] = Expiring(upload[u])
             /\ u \notin taken /\ u \notin Detached(r, photos) => upload'[u] = upload[u]
  <2> HIDE DEF taken, photos
  <2> DEFINE new(v) == CASE v \in taken -> LinkedTo(upload[v], r)
                         [] v \in Detached(r, photos) -> Expiring(upload[v])
                         [] OTHER -> upload[v]
  <2>0. upload' = [v \in Uploads |-> new(v)]
    BY <1>1
  <2> HIDE DEF new
  <2>1. upload'[u] = new(u)
    BY <2>0
  <2> USE DEF new
  <2>2. CASE u \in taken
    BY <1>2, <1>4, <2>1, <2>2 DEF Detached, Linked
  <2>3. CASE u \notin taken
    BY <2>1, <2>3
  <2> QED
    BY <2>2, <2>3
<1> HIDE DEF taken
<1>6. ASSUME NEW u \in Uploads
      PROVE  /\ upload'[u] \in Upload
             /\ upload'[u].report = None <=> upload'[u].expiry # "never"
             /\ upload'[u].state = upload[u].state /\ upload'[u].cleaning = upload[u].cleaning
             /\ upload'[u].report \in {r, None} \/ upload'[u].report = upload[u].report
             /\ upload[u].report \notin {r, None} => upload'[u] = upload[u]
             /\ upload[u].report = r /\ u \in photos \cup Retained(r) => upload'[u].report = r
             /\ upload'[u].report = r => upload[u].report = r \/ u \in Missing(s)
             /\ u \in taken => upload'[u].report = r
  <2>1. upload[u] \in Upload /\ (upload[u].report = None <=> upload[u].expiry # "never")
    BY DEF Inv, TypeOK
  <2>2. CASE u \in taken
    <3>1. upload'[u] = LinkedTo(upload[u], r) /\ upload[u].report = None
      BY <1>4, <1>5, <2>2
    <3>2. /\ upload'[u] \in Upload /\ upload'[u].report = r /\ upload'[u].expiry = "never"
          /\ upload'[u].state = upload[u].state /\ upload'[u].cleaning = upload[u].cleaning
      BY <2>1, <3>1 DEF LinkedTo, Upload
    <3> QED
      BY <1>2, <1>3, <2>2, <3>1, <3>2
  <2>3. CASE u \notin taken /\ u \in Detached(r, photos)
    <3>1. upload[u].report = r /\ u \notin photos \cup Retained(r)
      BY <2>3 DEF Detached, Linked
    <3>2. upload'[u] = Expiring(upload[u])
      BY <1>5, <2>3
    <3> QED
      BY <1>2, <2>1, <2>3, <3>1, <3>2 DEF Expiring, Upload
  <2>4. CASE u \notin taken /\ u \notin Detached(r, photos)
    BY <1>5, <2>1, <2>4
  <2> QED
    BY <2>2, <2>3, <2>4
<1>7. upload' \in [Uploads -> Upload]
  <2>1. upload' = [u \in Uploads |-> upload'[u]]
    BY <1>1
  <2> QED
    BY <1>6, <2>1
<1>8. ASSUME NEW u \in Missing(s)
      PROVE  upload[u].state = "ready" /\ ~upload[u].cleaning /\ upload'[u].report = r
  BY <1>2, <1>3, <1>4, <1>6 DEF Missing
<1> QED
  BY <1>6, <1>7, <1>8 DEF Links

LEMMA SaveKeeps ==
  ASSUME Inv, NEW s \in Sessions, Save(s)
  PROVE  Inv'
<1>1. PICK r \in Reports : r = Mine(s)
  BY DEF Inv, Session, Save, At
<1>2. upload' \in [Uploads -> Upload] /\ Links(s, r)
  BY <1>1, SaveLinks
<1>3. PICK n : n = report[r].revision + 1
  OBVIOUS
<1>4. /\ n \in Revisions /\ n \in 0..MaxRevision /\ Archived(r) /\ report[r] \in Report
      /\ Session(s) /\ work[s] \in Work /\ r # None /\ n = report[r].revision + 1
      /\ lock[r] = s /\ work[s].photos \subseteq Uploads
  BY <1>1, <1>3, ReportsAssumption
     DEF Inv, TypeOK, Save, Revisions, Session, Owns, Saves, At, Work
<1> DEFINE row == [status |-> "DRAFT", revision |-> n, photos |-> work[s].photos, deleted |-> FALSE]
<1>5. row \in Report /\ row.status = "DRAFT" /\ row.revision = n /\ row.photos = work[s].photos
  BY <1>4 DEF Report
<1>6. report' = [report EXCEPT ![r] = row] /\ lock' = [lock EXCEPT ![r] = None]
  BY <1>1, <1>3 DEF Save
<1>7. copy' = [copy EXCEPT ![s] = [report |-> r, revision |-> n, photos |-> work[s].photos]]
  BY <1>1, <1>3 DEF Save, Sees
<1> HIDE DEF row
<1>8. /\ report' \in [Reports -> Report] /\ report'[r] = row
      /\ \A q \in Reports \ {r} : report'[q] = report[q]
  BY <1>5, <1>6 DEF Inv, TypeOK
<1>9. /\ Idle.at = "idle" /\ work' \in [Sessions -> Work] /\ work'[s] = Idle
      /\ \A t \in Sessions \ {s} : work'[t] = work[t]
  <2>1. Idle \in Work /\ Idle.at = "idle"
    BY ReportsAssumption DEF Idle, Request, Work
  <2> QED
    BY <2>1, WorkIn DEF Inv, Save, Return
<1>10. /\ copy' \in [Sessions -> Copy]
       /\ copy'[s] = [report |-> r, revision |-> n, photos |-> work[s].photos]
       /\ \A t \in Sessions \ {s} : copy'[t] = copy[t]
  BY <1>4, <1>7 DEF Inv, TypeOK, Copy
<1>11. TypeOK'
  BY <1>2, <1>6, <1>8, <1>9, <1>10 DEF Inv, TypeOK, Save, Links
<1>12. Tied'
  BY <1>2, <1>4 DEF Inv, Tied, Links
<1>13. Claims'
  BY <1>2 DEF Inv, Claims, Holds, Links, Save
<1>14. ASSUME NEW q \in Reports
       PROVE  /\ Frozen(q)' = Frozen(q) /\ version'[q] = version[q]
              /\ Linked(q) = {u \in Uploads : upload[u].report = q}
              /\ Linked(q)' = {u \in Uploads : upload'[u].report = q}
  <2>1. Linked(q) = {u \in Uploads : upload[u].report = q}
    BY LinkedIn DEF Inv
  <2>2. Linked(q)' = {u \in Uploads : upload'[u].report = q}
    BY <1>12, ReportsAssumption DEF Linked, HasRow, Tied
  <2>3. Frozen(q)' = Frozen(q) /\ version'[q] = version[q]
    BY DEF Frozen, Save
  <2> QED
    BY <2>1, <2>2, <2>3
<1>15. ASSUME NEW q \in Reports
       PROVE  Retaining(q)'
  <2> SUFFICES ASSUME NEW m \in Frozen(q), NEW u \in version[q][m].photos
               PROVE  upload'[u].report = q /\ u \in stored'
    BY <1>14 DEF Retaining
  <2>1. u \in Uploads /\ upload[u].report = q /\ u \in stored
    BY DEF Inv, TypeOK, Version, Frozen, Archived, Retaining
  <2>2. q = r => u \in Retained(r)
    BY DEF Retained
  <2> QED
    BY <1>2, <2>1, <2>2, ReportsAssumption DEF Links, Save
<1>16. Archived(r)'
  <2>1. Numbered(r)' /\ Final(r)'
    BY <1>4, <1>5, <1>8, <1>14 DEF Archived, Numbered, Final, Revisions, Frozen, Report
  <2>2. Photographed(r)'
    BY <1>1, <1>2, <1>4, <1>5, <1>8 DEF Photographed, Links, Missing
  <2>3. Bounded(r)'
    <3>1. Linked(r)' \subseteq Linked(r) \cup Missing(s)
      BY <1>2, <1>14 DEF Links
    <3>2. /\ Linked(r) \subseteq Uploads /\ Missing(s) \subseteq Uploads
          /\ IsFiniteSet(Linked(r)) /\ IsFiniteSet(Missing(s))
      BY <1>4, <1>14, ReportsAssumption, FS_Subset DEF Missing
    <3>3. /\ Cardinality(Linked(r)) \in Nat /\ Cardinality(Missing(s)) \in Nat
          /\ Cardinality(Linked(r) \cap Missing(s)) \in Nat
      BY <3>2, FS_CardinalityType, FS_Intersection
    <3>4. /\ IsFiniteSet(Linked(r) \cup Missing(s))
          /\ Cardinality(Linked(r) \cup Missing(s)) =
               Cardinality(Linked(r)) + Cardinality(Missing(s)) - Cardinality(Linked(r) \cap Missing(s))
      BY <3>2, FS_Union
    <3>5. /\ Cardinality(Linked(r)') <= Cardinality(Linked(r) \cup Missing(s))
          /\ Cardinality(Linked(r)') \in Nat
      BY <3>1, <3>4, FS_Subset, FS_CardinalityType
    <3>6. Cardinality(Linked(r)) + Cardinality(Missing(s)) <= MaxPhotos
      <4>1. CASE work[s].photos = {}
        <5>1. Missing(s) = {}
          BY <4>1 DEF Missing
        <5> QED
          BY <1>4, <3>3, <5>1, FS_EmptySet DEF Archived, Bounded
      <4>2. CASE work[s].photos # {}
        BY <1>1, <1>4, <4>2 DEF Session, Counted, Save
      <4> QED
        BY <4>1, <4>2
    <3> QED
      BY <3>3, <3>4, <3>5, <3>6, ReportsAssumption DEF Bounded
  <2> QED
    BY <1>15, <2>1, <2>2, <2>3 DEF Archived
<1>17. ASSUME NEW q \in Reports, q # r
       PROVE  Archived(q)' /\ Linked(q)' = Linked(q)
  <2>1. Linked(q)' = Linked(q)
    <3>1. ASSUME NEW u \in Uploads
          PROVE  upload'[u].report = q <=> upload[u].report = q
      BY <1>2, <1>17, ReportsAssumption DEF Links
    <3> QED
      BY <1>14, <3>1
  <2>2. Photographed(q)'
    BY <1>2, <1>8, <1>17, ReportsAssumption DEF Inv, TypeOK, Report, Archived, Photographed, Links
  <2> QED
    BY <1>8, <1>14, <1>15, <1>17, <2>1, <2>2 DEF Inv, Archived, Numbered, Final, Bounded
<1>18. Session(s)'
  <2>1. Recent(s)'
    <3>1. n \in 1..n
      BY <1>4 DEF Revisions
    <3> QED
      BY <1>5, <1>8, <1>10, <3>1 DEF Recent
  <2> QED
    BY <1>9, <2>1, AtRest
<1>19. ASSUME NEW t \in Sessions, t # s
       PROVE  Session(t)'
  <2>1. work'[t] = work[t] /\ copy'[t] = copy[t] /\ Session(t) /\ work[t] \in Work /\ copy[t] \in Copy
    BY <1>9, <1>10, <1>19 DEF Inv, TypeOK
  <2>2. Saves(t) => Mine(t) \in Reports /\ Mine(t) # r /\ lock[Mine(t)] = t
    BY <1>4, <1>19, <2>1 DEF Session, Owns, Saves
  <2>3. \A q \in Reports :
          /\ report[q].revision \in Nat /\ report'[q].revision \in Nat
          /\ report[q].revision <= report'[q].revision
          /\ q = r => report[q].revision < report'[q].revision
    BY <1>4, <1>5, <1>8 DEF Inv, TypeOK, Report
  <2>4. Recent(t)'
    <3> SUFFICES ASSUME copy[t] # NoCopy
                 PROVE  Recent(t)'
      BY <2>1 DEF Recent
    <3>1. /\ copy[t].report \in Reports
          /\ copy[t].revision \in 1..report[copy[t].report].revision
          /\ copy[t].revision = report[copy[t].report].revision =>
               copy[t].photos = report[copy[t].report].photos
      BY <2>1 DEF Session, Recent
    <3> QED
      BY <1>8, <2>1, <2>3, <3>1 DEF Recent
  <2>5. Owns(t)'
    BY <1>6, <1>8, <2>1, <2>2 DEF Inv, TypeOK, Session, Owns, Saves, Creates, Mine, StillDraft, Live
  <2>6. Chosen(t)'
    BY <1>2, <2>1 DEF Session, Chosen, Saves, At, Links, Work
  <2>7. Counted(t)'
    <3> SUFFICES ASSUME At(t, "save")
                 PROVE  Counted(t)'
      BY <2>1 DEF Counted, At
    <3>1. Mine(t) \in Reports /\ Mine(t) # r
      BY <2>2 DEF Saves, At
    <3>2. Linked(Mine(t))' = Linked(Mine(t))
      <4>1. Mine(t)' = Mine(t)
        BY <2>1 DEF Mine
      <4>2. PICK q \in Reports : q = Mine(t) /\ q # r
        BY <3>1
      <4>3. Linked(q)' = Linked(q)
        BY <1>17, <4>2
      <4> QED
        BY <4>1, <4>2, <4>3 DEF Linked, HasRow
    <3>3. Missing(t)' = Missing(t)
      <4>1. ASSUME NEW u \in work[t].photos
            PROVE  upload'[u].report = Mine(t) <=> upload[u].report = Mine(t)
        BY <1>2, <2>1, <3>1, ReportsAssumption DEF Links, Work
      <4> QED
        BY <2>1, <4>1 DEF Missing, Mine
    <3> QED
      BY <2>1, <3>2, <3>3 DEF Session, Counted, At, Mine
  <2>8. Rendered(t)'
    <3> SUFFICES ASSUME work[t].at \in {"pdf", "freeze"}, report'[Mine(t)].revision = work[t].revision
                 PROVE  work[t].photos \subseteq stored
      BY <2>1 DEF Session, Rendered, Mine, Save
    <3>1. Mine(t) \in Reports /\ work[t].revision <= report[Mine(t)].revision
      BY <2>1 DEF Session, Recent, Informed, Finalizes
    <3>2. report[Mine(t)].revision = work[t].revision
      BY <1>8, <2>3, <3>1
    <3> QED
      BY <2>1, <3>2 DEF Session, Rendered
  <2>9. Informed(t)' /\ (work'[t].at # "idle" => Mine(t)' \in Reports)
    BY <2>1 DEF Session, Informed, Saves, Creates, Finalizes, Mine, At
  <2> QED
    BY <2>4, <2>5, <2>6, <2>7, <2>8, <2>9 DEF Session
<1>20. \A q \in Reports : Archived(q)'
  BY <1>16, <1>17
<1>21. \A t \in Sessions : Session(t)'
  BY <1>18, <1>19
<1> QED
  BY <1>11, <1>12, <1>13, <1>20, <1>21 DEF Inv

-----------------------------------------------------------------------------
(* Every step keeps the invariant.                                         *)

\* A crash takes the locks and the claims with it; no report loses a photo.
LEMMA CrashKeeps ==
  ASSUME Inv, Crash
  PROVE  Inv'
<1>1. ASSUME NEW u \in Uploads
      PROVE  /\ upload'[u] \in Upload
             /\ upload'[u].report = upload[u].report /\ upload'[u].expiry = upload[u].expiry
             /\ upload[u].report # None => upload'[u] = upload[u]
             /\ HasRow(u)' <=> HasRow(u)
  <2>1. upload[u] \in Upload /\ upload'[u] = IF upload[u].state = "new"
          THEN [upload[u] EXCEPT !.state = "lost"] ELSE upload[u]
    BY DEF Inv, TypeOK, Crash
  <2>2. upload[u].report # None => upload[u].state = "ready"
    BY DEF Inv, Tied
  <2> QED
    BY <2>1, <2>2 DEF Upload, HasRow
<1>2. Idle \in Work /\ Idle.at = "idle" /\ NoSweep \in Sweep /\ NoSweep.at = "idle"
  BY ReportsAssumption DEF Idle, Request, Work, NoSweep, Sweep
<1>3. /\ upload' \in [Uploads -> Upload] /\ faults' \in 0..MaxFaults
      /\ work' = [s \in Sessions |-> Idle] /\ sweep' = [c \in Cleaners |-> NoSweep]
  <2>1. upload' = [u \in Uploads |-> upload'[u]]
    BY DEF Crash
  <2>2. faults' \in 0..MaxFaults
    BY ReportsAssumption DEF Inv, TypeOK, Crash, Fault
  <2> QED
    BY <1>1, <2>1, <2>2 DEF Crash
<1>4. TypeOK'
  BY <1>1, <1>2, <1>3 DEF Inv, TypeOK, Crash
<1>5. Tied' /\ Claims'
  BY <1>1, <1>2, <1>3 DEF Inv, Tied, Claims, Holds
<1>6. ASSUME NEW r \in Reports
      PROVE  Archived(r)'
  <2>1. Linked(r)' = Linked(r) /\ Frozen(r)' = Frozen(r)
    BY <1>1 DEF Linked, HasRow, Frozen, Crash
  <2>2. Retaining(r)' /\ Photographed(r)'
    BY <1>1, <2>1 DEF Inv, TypeOK, Report, Version, Frozen, Archived, Retaining, Photographed, Crash
  <2> QED
    BY <2>1, <2>2 DEF Inv, Archived, Numbered, Final, Bounded, Crash
<1>7. ASSUME NEW s \in Sessions
      PROVE  Session(s)'
  <2>1. Recent(s)'
    BY DEF Inv, Session, Recent, Crash
  <2> QED
    BY <1>2, <1>3, <2>1, AtRest
<1> QED
  BY <1>4, <1>5, <1>6, <1>7 DEF Inv

LEMMA InitHolds == Init => Inv
<1> SUFFICES ASSUME Init
             PROVE  Inv
  OBVIOUS
<1>1. /\ Idle \in Work /\ Idle.at = "idle" /\ NoSweep \in Sweep /\ NoSweep.at = "idle"
      /\ NoCopy \in Copy /\ NoUpload \in Upload /\ NoReport \in Report /\ NoVersion \in Version
  BY ReportsAssumption DEF Idle, Request, Work, NoSweep, Sweep, NoCopy, Copy, NoUpload, Upload,
                           NoReport, Report, NoVersion, Version
<1>2. TypeOK
  BY <1>1, ReportsAssumption DEF Init, TypeOK, NoUpload
<1>3. Tied /\ Claims
  BY <1>1 DEF Init, Tied, Claims, Holds, NoUpload
<1>4. ASSUME NEW r \in Reports
      PROVE  Archived(r)
  <2>1. Frozen(r) = {} /\ Linked(r) = {}
    BY DEF Init, Frozen, Linked, HasRow, NoUpload
  <2>2. Bounded(r)
    BY <2>1, FS_EmptySet, ReportsAssumption DEF Bounded
  <2> QED
    BY <2>1, <2>2 DEF Init, Archived, Numbered, Final, Photographed, Retaining, NoReport
<1>5. ASSUME NEW s \in Sessions
      PROVE  Session(s)
  BY <1>1 DEF Init, Session, Recent, Owns, Saves, Informed, Finalizes, Chosen, Counted, Rendered, At
<1> QED
  BY <1>2, <1>3, <1>4, <1>5 DEF Inv

LEMMA StepKeeps == Inv /\ [Next]_vars => Inv'
<1> SUFFICES ASSUME Inv, [Next]_vars
             PROVE  Inv'
  OBVIOUS
<1>1. CASE \E u \in Uploads : Photo(u)
  BY <1>1, StartUploadKeeps, PersistKeeps, PersistFailsKeeps, ExpireKeeps DEF Photo
<1>2. CASE \E s \in Sessions : Saving(s)
  <2>1. PICK s \in Sessions : Saving(s)
    BY <1>2
  <2>2. CASE \E r \in Reports : Read(s, r) \/ Create(s, r)
    BY <2>2, ReadKeeps, CreateKeeps
  <2>3. CASE Update(s) \/ LockReport(s) \/ ReadUploads(s)
    BY <2>3, UpdateKeeps, LockReportKeeps, ReadUploadsKeeps
  <2>4. CASE Save(s) \/ Abort(s) \/ SoftDelete(s)
    BY <2>4, SaveKeeps, AbortKeeps, SoftDeleteKeeps
  <2> QED
    BY <2>1, <2>2, <2>3, <2>4 DEF Saving
<1>3. CASE \E s \in Sessions : Finalizing(s)
  <2>1. PICK s \in Sessions : Finalizing(s)
    BY <1>3
  <2>2. CASE Finalize(s) \/ ReadPhotos(s) \/ WritePdf(s) \/ FinalizeFails(s)
    BY <2>2, FinalizeKeeps, ReadPhotosKeeps, WritePdfKeeps, FinalizeFailsKeeps
  <2>3. CASE Freeze(s) \/ FreezeUnacknowledged(s) \/ FreezeFails(s)
    BY <2>3, FreezeKeeps, FreezeUnacknowledgedKeeps, FreezeFailsKeeps
  <2>4. CASE Discard(s) \/ CreateRevision(s)
    BY <2>4, DiscardKeeps, CreateRevisionKeeps
  <2> QED
    BY <2>1, <2>2, <2>3, <2>4 DEF Finalizing
<1>4. CASE \E c \in Cleaners : Cleaning(c)
  BY <1>4, BeginCleanupKeeps, ClaimKeeps, EraseKeeps, DeleteRowKeeps, CleanupFailsKeeps, UnclaimKeeps
     DEF Cleaning
<1>5. CASE Crash
  BY <1>5, CrashKeeps
<1>6. CASE UNCHANGED vars
  <2>1. TypeOK' /\ Tied' /\ Claims'
    BY <1>6 DEF vars, Inv, TypeOK, Tied, Claims, Holds
  <2>2. ASSUME NEW r \in Reports
        PROVE  Archived(r)'
    <3>1. Frozen(r)' = Frozen(r) /\ Linked(r)' = Linked(r)
      BY <1>6 DEF vars, Frozen, Linked, HasRow
    <3> QED
      BY <1>6, <3>1 DEF vars, Inv, Archived, Numbered, Final, Photographed, Retaining, Bounded
  <2>3. ASSUME NEW s \in Sessions
        PROVE  Session(s)'
    <3>1. Counted(s)'
      BY <1>6 DEF vars, Inv, Session, Counted, Missing, Linked, HasRow, Mine, At
    <3>2. Recent(s)' /\ Owns(s)' /\ Informed(s)' /\ Chosen(s)' /\ Rendered(s)'
      BY <1>6 DEF vars, Inv, Session, Recent, Owns, Saves, Creates, Informed, Finalizes, Chosen,
                  Rendered, StillDraft, Live, Mine, At
    <3> QED
      BY <1>6, <3>1, <3>2 DEF vars, Inv, Session, Mine
  <2> QED
    BY <2>1, <2>2, <2>3 DEF Inv
<1> QED
  BY <1>1, <1>2, <1>3, <1>4, <1>5, <1>6 DEF Next

\* The inductive invariant holds of every state: what the rows, the browsers' copies, the
\* requests and the cleanup know of each other at every call of inspection.service.ts.
THEOREM Invariance == Spec => []Inv
<1> QED
  BY InitHolds, StepKeeps, PTL DEF Spec

-----------------------------------------------------------------------------
(* What the invariant says.                                                *)

\* The rows, requests and runs keep their types; an upload has an expiry exactly
\* while no report has it.
THEOREM TypesHold == Spec => []TypeOK
<1>1. Inv => TypeOK
  BY DEF Inv
<1> QED
  BY <1>1, Invariance, PTL

\* "Prior finalized snapshots remain immutable": every photo of a frozen version
\* stays linked and stored.
THEOREM SnapshotsKeepPhotos == Spec => []PhotosRetained
<1>1. Inv => PhotosRetained
  <2> SUFFICES ASSUME Inv, NEW r \in Reports, NEW n \in Frozen(r), NEW u \in version[r][n].photos
               PROVE  u \in Linked(r) /\ ~upload[u].cleaning /\ u \in stored
    BY DEF PhotosRetained
  <2>1. u \in Uploads /\ upload[u].report = r /\ u \in stored
    BY DEF Inv, TypeOK, Version, Frozen, Archived, Retaining
  <2> QED
    BY <2>1, ReportsAssumption DEF Inv, Tied, Linked, HasRow
<1> QED
  BY <1>1, Invariance, PTL

\* A report refers to photos that are linked to it and that no cleanup has taken.
THEOREM ReportsKeepPhotos == Spec => []PhotosLinked
<1>1. Inv => PhotosLinked
  <2> SUFFICES ASSUME Inv, NEW r \in Reports, NEW u \in report[r].photos
               PROVE  u \in Linked(r) /\ ~upload[u].cleaning
    BY DEF PhotosLinked
  <2>1. u \in Uploads /\ upload[u].report = r
    BY DEF Inv, TypeOK, Report, Archived, Photographed
  <2> QED
    BY <2>1, ReportsAssumption DEF Inv, Tied, Linked, HasRow
<1> QED
  BY <1>1, Invariance, PTL

\* "at most 24 photos", counted over drafts and versions.
THEOREM LimitHolds == Spec => []PhotosBounded
<1>1. Inv => PhotosBounded
  BY DEF Inv, Archived, Bounded, PhotosBounded
<1> QED
  BY <1>1, Invariance, PTL

\* A FINAL report is the version of its revision, and a draft is ahead of all versions.
THEOREM FinalReportsAreFrozen == Spec => []FinalIsFrozen
<1>1. Inv => FinalIsFrozen
  BY DEF Inv, Archived, Final, Numbered, FinalIsFrozen
<1> QED
  BY <1>1, Invariance, PTL

-----------------------------------------------------------------------------
(* No lost update.                                                         *)

\* A session that saves or freezes a report has read the row that it replaces.
LEMMA SaverHasRead ==
  ASSUME Inv, NEW s \in Sessions, Save(s), Live(Mine(s))
  PROVE  copy[s] = [report |-> Mine(s), revision |-> report[Mine(s)].revision,
                    photos |-> report[Mine(s)].photos]
<1>1. Session(s) /\ Saves(s) /\ copy[s] \in Copy
  BY DEF Inv, TypeOK, Saves, Save, At
<1>2. ~Creates(s) /\ report[Mine(s)].revision = work[s].revision
  BY <1>1 DEF Session, Owns, StillDraft, Live
<1> QED
  BY <1>1, <1>2 DEF Session, Informed, Recent, Copy

LEMMA StepLosesNothing ==
  ASSUME Inv, [Next]_vars, NEW r \in Reports,
         report'[r] # report[r], Live(r), ~report'[r].deleted
  PROVE  \E s \in Sessions :
           Acts(s) /\ copy[s] = [report |-> r, revision |-> report[r].revision,
                                photos |-> report[r].photos]
<1>1. PICK s \in Sessions :
        Save(s) \/ SoftDelete(s) \/ Freeze(s) \/ FreezeUnacknowledged(s) \/ CreateRevision(s)
  BY DEF Next, vars, Photo, StartUpload, Persist, PersistFails, Expire,
         Saving, Read, Create, Update, LockReport, ReadUploads, Abort,
         Finalizing, Finalize, ReadPhotos, WritePdf, FinalizeFails, FreezeFails, Discard,
         Cleaning, BeginCleanup, Claim, Erase, DeleteRow, CleanupFails, Unclaim, Crash
<1>2. Idle \in Work /\ Idle.at = "idle" /\ work[s] \in Work /\ copy[s] \in Copy /\ report[r] \in Report
  BY ReportsAssumption DEF Idle, Request, Work, Inv, TypeOK
<1>3. CASE Save(s)
  <2>1. r = Mine(s)
    BY <1>3 DEF Inv, TypeOK, Save
  <2>2. Acts(s)
    BY <1>2, <1>3 DEF Inv, TypeOK, Acts, Save, Return, At
  <2> QED
    BY <1>3, <2>1, <2>2, SaverHasRead
<1>4. CASE SoftDelete(s)
  BY <1>2, <1>4 DEF Inv, TypeOK, SoftDelete, Report
<1>5. CASE Freeze(s) \/ FreezeUnacknowledged(s)
  <2>1. Commit(s)
    BY <1>5 DEF Freeze, FreezeUnacknowledged
  <2>2. r = Mine(s)
    BY <2>1 DEF Inv, TypeOK, Commit
  <2>3. Acts(s)
    <3>1. CASE Freeze(s)
      BY <1>2, <2>1, <3>1, WorkIn DEF Inv, Acts, Freeze, Commit, Return, At
    <3>2. CASE FreezeUnacknowledged(s)
      <4>1. work'[s].at = "discard"
        BY <3>2, GotoIn DEF Inv, FreezeUnacknowledged
      <4> QED
        BY <2>1, <4>1 DEF Acts, Commit, At
    <3> QED
      BY <1>5, <3>1, <3>2
  <2> QED
    BY <2>1, <2>2, <2>3, CommitIn
<1>6. CASE CreateRevision(s)
  <2>1. r = Seen(s)
    BY <1>6 DEF Inv, TypeOK, CreateRevision
  <2>2. /\ copy[s] # NoCopy /\ copy[s].revision = report[r].revision
        /\ copy'[s].revision = report[r].revision + 1
    BY <1>6, <2>1 DEF Inv, TypeOK, CreateRevision, Current, Sees, NextRevision
  <2>3. copy[s] = [report |-> r, revision |-> report[r].revision, photos |-> report[r].photos]
    BY <1>2, <2>1, <2>2 DEF Inv, Session, Recent, Seen, Copy
  <2>4. Acts(s)
    BY <1>2, <2>2 DEF Acts, Report
  <2> QED
    BY <2>3, <2>4
<1> QED
  BY <1>1, <1>3, <1>4, <1>5, <1>6

\* "stale writes return 409": the session that changes a report has seen what it changes.
THEOREM UpdatesAreSeen == Spec => NoLostUpdate
<1>1. Inv /\ [Next]_vars =>
        [\A r \in Reports :
           report'[r] # report[r] /\ Live(r) /\ ~report'[r].deleted =>
             \E s \in Sessions :
               Acts(s) /\ copy[s] = [report |-> r, revision |-> report[r].revision,
                                    photos |-> report[r].photos]]_vars
  BY StepLosesNothing
<1> QED
  BY <1>1, Invariance, PTL DEF Spec, NoLostUpdate

-----------------------------------------------------------------------------
(* The documents.                                                          *)

\* A request that has written a document and not yet got rid of it.
Printing(s) == work[s].at \in {"freeze", "discard"}

\* Documents are apart: each is of one version, or of one request.  Only a
\* request whose commit went unanswered is about to discard a version's.
Docs ==
  /\ \A s \in Sessions :
       /\ Printing(s) => work[s].document \in written
       /\ work[s].at = "freeze" => work[s].document \in stored
  /\ \A s, t \in Sessions :
       Printing(s) /\ Printing(t) /\ s # t => work[s].document # work[t].document
  /\ \A r \in Reports : \A n \in Frozen(r) :
       /\ version[r][n].document \in written
       /\ \A s \in Sessions : work[s].at = "freeze" => work[s].document # version[r][n].document
       /\ \A q \in Reports : \A m \in Frozen(q) :
            version[q][m].document = version[r][n].document => q = r /\ m = n

Answered ==
  "lostAck" \notin Faults =>
    \A r \in Reports : \A n \in Frozen(r) :
      /\ version[r][n].document \in stored
      /\ \A s \in Sessions : Printing(s) => work[s].document # version[r][n].document

\* A step that writes no document, takes no version's away, and leaves those
\* about to be frozen.
DocsStay ==
  /\ UNCHANGED <<version, written>>
  /\ \A s \in Sessions :
       /\ Printing(s)' => Printing(s) /\ work'[s].document = work[s].document
       /\ work'[s].at = "freeze" =>
            /\ work[s].at = "freeze"
            /\ work[s].document \in stored => work[s].document \in stored'

LEMMA DocsFrame ==
  ASSUME TypeOK, Docs, DocsStay
  PROVE  Docs'
<1>1. \A r \in Reports : Frozen(r)' = Frozen(r)
  BY DEF DocsStay, Frozen
<1>2. \A s \in Sessions : work'[s].at = "freeze" => Printing(s)'
  BY DEF Printing
<1>3. \A s \in Sessions :
        /\ Printing(s)' => work'[s].document \in written'
        /\ work'[s].at = "freeze" => work'[s].document \in stored'
  BY <1>2 DEF Docs, DocsStay
<1>4. \A s, t \in Sessions :
        Printing(s)' /\ Printing(t)' /\ s # t => work'[s].document # work'[t].document
  BY DEF Docs, DocsStay
<1>5. \A r \in Reports : \A n \in Frozen(r) :
        /\ version'[r][n].document \in written'
        /\ \A s \in Sessions : work'[s].at = "freeze" => work'[s].document # version'[r][n].document
        /\ \A q \in Reports : \A m \in Frozen(q) :
             version'[q][m].document = version'[r][n].document => q = r /\ m = n
  BY <1>2 DEF Docs, DocsStay
<1> QED
  BY <1>1, <1>3, <1>4, <1>5 DEF Docs

LEMMA AnsweredFrame ==
  ASSUME Answered, DocsStay,
         \A r \in Reports : \A n \in Frozen(r) :
           version[r][n].document \in stored => version[r][n].document \in stored'
  PROVE  Answered'
<1>1. \A r \in Reports : Frozen(r)' = Frozen(r)
  BY DEF DocsStay, Frozen
<1>2. ASSUME "lostAck" \notin Faults, NEW r \in Reports, NEW n \in Frozen(r)
      PROVE  /\ version'[r][n].document \in stored'
             /\ \A s \in Sessions : Printing(s)' => work'[s].document # version'[r][n].document
  BY <1>2 DEF Answered, DocsStay
<1> QED
  BY <1>1, <1>2 DEF Answered

LEMMA WritePdfKeepsDocs ==
  ASSUME TypeOK, Docs, Answered, NEW s \in Sessions, WritePdf(s)
  PROVE  Docs' /\ Answered'
<1>1. PICK d \in Documents \ written :
        /\ stored' = stored \cup {d}
        /\ written' = written \cup {d}
        /\ work' = [work EXCEPT ![s].at = "freeze", ![s].document = d]
  BY DEF WritePdf, FreshDocuments
<1>2. /\ stored' = stored \cup {d} /\ written' = written \cup {d} /\ d \notin written
      /\ work'[s].at = "freeze" /\ work'[s].document = d
      /\ \A t \in Sessions \ {s} : work'[t] = work[t]
  BY <1>1 DEF TypeOK, Work
<1>3. \A r \in Reports : Frozen(r)' = Frozen(r) /\ version' = version
  BY DEF WritePdf, Frozen
<1>4. \A t \in Sessions \ {s} : Printing(t)' <=> Printing(t)
  BY <1>2 DEF Printing
<1>5. \A t \in Sessions :
        /\ Printing(t)' => work'[t].document \in written'
        /\ work'[t].at = "freeze" => work'[t].document \in stored'
  BY <1>2, <1>4 DEF Docs
<1>6. \A t, v \in Sessions :
        Printing(t)' /\ Printing(v)' /\ t # v => work'[t].document # work'[v].document
  BY <1>2, <1>4 DEF Docs
<1>7. \A r \in Reports : \A n \in Frozen(r) :
        /\ version[r][n].document \in written'
        /\ \A t \in Sessions : work'[t].at = "freeze" => work'[t].document # version[r][n].document
  BY <1>2, <1>4 DEF Docs
<1>8. Docs'
  BY <1>3, <1>5, <1>6, <1>7 DEF Docs
<1>9. ASSUME "lostAck" \notin Faults, NEW r \in Reports, NEW n \in Frozen(r)
      PROVE  /\ version[r][n].document \in stored'
             /\ \A t \in Sessions : Printing(t)' => work'[t].document # version[r][n].document
  BY <1>2, <1>4, <1>9 DEF Docs, Answered
<1>10. Answered'
  BY <1>3, <1>9 DEF Answered
<1> QED
  BY <1>8, <1>10

\* The document of the new version is the one of the request, which ends or,
\* unanswered, is about to discard it.
LEMMA CommitKeepsDocs ==
  ASSUME Inv, Docs, Answered, NEW s \in Sessions, Freeze(s) \/ FreezeUnacknowledged(s)
  PROVE  Docs' /\ Answered'
<1>0. Commit(s)
  BY DEF Freeze, FreezeUnacknowledged
<1>r. PICK r \in Reports : r = Mine(s)
  BY <1>0 DEF Inv, Session, Commit, At
<1>1. PICK n, d : r = Mine(s) /\ n = report[r].revision /\ d = work[s].document
  BY <1>r
<1>2. /\ \A q \in Reports \ {r} : version'[q] = version[q]
      /\ \A m \in Revisions \ {n} : version'[r][m] = version[r][m]
      /\ version'[r][n].document = d
  <2>1. /\ \A q \in Reports \ {r} : version'[q] = version[q]
        /\ \A m \in Revisions \ {report[r].revision} : version'[r][m] = version[r][m]
        /\ version'[r][report[r].revision] =
             [photos |-> work[s].photos, document |-> work[s].document]
    BY <1>0, <1>r, CommitIn
  <2> QED
    BY <1>1, <2>1
<1>3. Idle \in Work /\ Idle.at = "idle" /\ work[s] \in Work
  BY ReportsAssumption DEF Idle, Request, Work, Inv, TypeOK
<1>4. /\ work'[s].at # "freeze" /\ ("lostAck" \notin Faults => ~Printing(s)')
      /\ Printing(s)' => work'[s].document = d
      /\ \A t \in Sessions \ {s} : work'[t] = work[t] /\ (Printing(t)' <=> Printing(t))
  BY <1>1, <1>3 DEF Inv, TypeOK, Work, Freeze, FreezeUnacknowledged, Fault, Goto, Return, Printing
<1>5. /\ Printing(s) /\ work[s].at = "freeze" /\ d \in written \cap stored
      /\ written' = written /\ stored' = stored
  BY <1>0, <1>1 DEF Docs, Printing, Commit, At
<1>6. ASSUME NEW q \in Reports, NEW m \in Frozen(q)'
      PROVE  \/ m \in Frozen(q) /\ version'[q][m] = version[q][m]
             \/ q = r /\ m = n /\ version'[q][m].document = d
  BY <1>2 DEF Frozen
<1>7. \A q \in Reports : \A m \in Frozen(q)' :
        /\ version'[q][m].document \in written'
        /\ \A t \in Sessions : work'[t].at = "freeze" => work'[t].document # version'[q][m].document
  BY <1>1, <1>4, <1>5, <1>6 DEF Docs, Printing
<1>8. ASSUME NEW q \in Reports, NEW m \in Frozen(q)', NEW p \in Reports, NEW k \in Frozen(p)',
             version'[q][m].document = version'[p][k].document
      PROVE  q = p /\ m = k
  BY <1>1, <1>5, <1>6, <1>8 DEF Docs
<1>9. \A t \in Sessions :
        /\ Printing(t)' => work'[t].document \in written'
        /\ work'[t].at = "freeze" => work'[t].document \in stored'
  BY <1>4, <1>5 DEF Docs
<1>10. \A t, v \in Sessions :
         Printing(t)' /\ Printing(v)' /\ t # v => work'[t].document # work'[v].document
  BY <1>1, <1>4, <1>5 DEF Docs
<1>11. Docs'
  BY <1>7, <1>8, <1>9, <1>10 DEF Docs
<1>12. ASSUME "lostAck" \notin Faults, NEW q \in Reports, NEW m \in Frozen(q)'
       PROVE  /\ version'[q][m].document \in stored'
              /\ \A t \in Sessions : Printing(t)' => work'[t].document # version'[q][m].document
  BY <1>1, <1>4, <1>5, <1>6, <1>12 DEF Docs, Answered
<1>13. Answered'
  BY <1>12 DEF Answered
<1> QED
  BY <1>11, <1>13

\* What is discarded is of no request about to freeze and, where every commit
\* is answered, of no version.
LEMMA DiscardKeepsDocs ==
  ASSUME TypeOK, Docs, Answered, NEW s \in Sessions, Discard(s)
  PROVE  Docs' /\ Answered'
<1>1. Idle \in Work /\ Idle.at = "idle"
  BY ReportsAssumption DEF Idle, Request, Work
<1>2. /\ ~Printing(s)' /\ work'[s].at # "freeze"
      /\ \A t \in Sessions \ {s} : work'[t] = work[t] /\ (Printing(t)' <=> Printing(t))
  BY <1>1 DEF TypeOK, Discard, Return, Printing
<1>3. /\ Printing(s) /\ work[s].at = "discard"
      /\ \A d : d # work[s].document /\ d \in stored => d \in stored'
  BY DEF Discard, Printing, At
<1>4. \A t \in Sessions : work[t].at = "freeze" => Printing(t) /\ t # s
  BY <1>3 DEF Printing
<1>5. DocsStay
  BY <1>2, <1>3, <1>4 DEF Docs, DocsStay, Discard
<1>6. ASSUME "lostAck" \notin Faults, NEW r \in Reports, NEW n \in Frozen(r)
      PROVE  /\ version'[r][n].document \in stored'
             /\ \A t \in Sessions : Printing(t)' => work'[t].document # version'[r][n].document
  BY <1>2, <1>3, <1>5, <1>6 DEF Answered, DocsStay
<1>7. \A r \in Reports : Frozen(r)' = Frozen(r)
  BY <1>5 DEF DocsStay, Frozen
<1> QED
  BY <1>5, <1>6, <1>7, DocsFrame DEF Answered

LEMMA StepKeepsDocs ==
  ASSUME Inv, Docs, Answered, [Next]_vars
  PROVE  Docs' /\ Answered'
<1>0. Idle \in Work /\ Idle.at = "idle" /\ \A s \in Sessions : work[s] \in Work
  BY ReportsAssumption DEF Idle, Request, Work, Inv, TypeOK
<1>a. /\ \A s \in Sessions : work[s].at = "freeze" => work[s].document \in Documents
      /\ \A r \in Reports : \A n \in Frozen(r) : version[r][n].document \in Documents
  BY DEF Inv, TypeOK, Docs, Printing
<1>b. ASSUME DocsStay, \A d \in Documents : d \in stored => d \in stored'
      PROVE  Docs' /\ Answered'
  BY <1>a, <1>b, DocsFrame, AnsweredFrame DEF Inv
<1>1. CASE \E u \in Uploads : Photo(u)
  <2>1. \A d \in Documents : d \in stored => d \in stored'
    BY <1>1 DEF Photo, StartUpload, Persist, PersistFails, Expire
  <2>2. DocsStay
    BY <1>a, <1>1, <2>1 DEF DocsStay, Printing, Photo, StartUpload, Persist, PersistFails, Expire
  <2> QED
    BY <1>b, <2>1, <2>2
<1>2. CASE \E s \in Sessions : Saving(s)
  <2>1. PICK s \in Sessions : Saving(s)
    BY <1>2
  <2>2. UNCHANGED <<version, written, stored>>
    BY <2>1 DEF Saving, Read, Create, Update, LockReport, ReadUploads, Save, Abort, SoftDelete
  <2>3. \A t \in Sessions \ {s} : work'[t] = work[t]
    BY <2>1 DEF Inv, TypeOK, Saving, Read, Create, Update, LockReport, ReadUploads, Save, Abort,
                SoftDelete, Goto, Return
  <2>4. work'[s].at \in {"idle", "lock", "link", "save"}
    BY <1>0, <2>1 DEF Inv, TypeOK, Work, Saving, Read, Create, Update, LockReport, ReadUploads, Save,
                Abort, SoftDelete, Goto, Return, At, Request
  <2>5. DocsStay
    BY <2>2, <2>3, <2>4 DEF DocsStay, Printing
  <2> QED
    BY <1>b, <2>2, <2>5
<1>3. CASE \E s \in Sessions : Finalizing(s)
  <2>1. PICK s \in Sessions : Finalizing(s)
    BY <1>3
  <2>2. CASE Finalize(s) \/ ReadPhotos(s) \/ FinalizeFails(s) \/ FreezeFails(s) \/ CreateRevision(s)
    <3>1. UNCHANGED <<version, written, stored>>
      BY <2>2 DEF Finalize, ReadPhotos, FinalizeFails, FreezeFails, CreateRevision
    <3>2. \A t \in Sessions \ {s} : work'[t] = work[t]
      BY <2>2 DEF Inv, TypeOK, Finalize, ReadPhotos, FinalizeFails, FreezeFails, CreateRevision,
                  Goto, Return
    <3>3. \/ work'[s].at \in {"idle", "photos", "pdf"}
          \/ work'[s] = work[s]
          \/ /\ work[s].at = "freeze" /\ work'[s].at = "discard"
             /\ work'[s].document = work[s].document
      BY <1>0, <2>2 DEF Inv, TypeOK, Work, Finalize, ReadPhotos, FinalizeFails, FreezeFails,
                        CreateRevision, Goto, Return, At, Request
    <3>4. DocsStay
      BY <3>1, <3>2, <3>3 DEF DocsStay, Printing
    <3> QED
      BY <1>b, <3>1, <3>4
  <2>3. CASE WritePdf(s)
    BY <2>3, WritePdfKeepsDocs DEF Inv
  <2>4. CASE Freeze(s) \/ FreezeUnacknowledged(s)
    BY <2>4, CommitKeepsDocs
  <2>5. CASE Discard(s)
    BY <2>5, DiscardKeepsDocs DEF Inv
  <2> QED
    BY <2>1, <2>2, <2>3, <2>4, <2>5 DEF Finalizing
<1>4. CASE \E c \in Cleaners : Cleaning(c)
  <2>1. PICK c \in Cleaners : Cleaning(c)
    BY <1>4
  <2>2. UNCHANGED <<version, written, work>>
    BY <2>1 DEF Cleaning, BeginCleanup, Claim, Erase, DeleteRow, CleanupFails, Unclaim
  <2>3. stored' = stored \/ (Holds(c) /\ stored' \in {stored, stored \ {sweep[c].upload}})
    BY <2>1 DEF Cleaning, BeginCleanup, Claim, Erase, DeleteRow, CleanupFails, Unclaim, Holds
  <2>4. \A d \in Documents : d \in stored => d \in stored'
    BY <2>3, ReportsAssumption DEF Inv, Claims
  <2>5. DocsStay
    BY <1>a, <2>2, <2>4 DEF DocsStay, Printing
  <2> QED
    BY <1>b, <2>4, <2>5
<1>5. CASE Crash
  <2>1. DocsStay
    BY <1>0, <1>5 DEF DocsStay, Printing, Crash
  <2> QED
    BY <1>5, <1>b, <2>1 DEF Crash
<1>6. CASE UNCHANGED vars
  BY <1>6 DEF vars, Docs, Answered, Printing, Frozen
<1> QED
  BY <1>1, <1>2, <1>3, <1>4, <1>5, <1>6 DEF Next

\* Documents are apart, and kept where every commit is answered.
LEMMA DocsInvariant == Spec => [](Docs /\ Answered)
<1>1. Init => Docs /\ Answered
  <2> SUFFICES ASSUME Init
               PROVE  Docs /\ Answered
    OBVIOUS
  <2>1. \A r \in Reports : Frozen(r) = {}
    BY DEF Init, Frozen
  <2>2. \A s \in Sessions : work[s].at = "idle"
    BY DEF Init, Idle, Request
  <2> QED
    BY <2>1, <2>2 DEF Docs, Answered, Printing
<1>2. Inv /\ (Docs /\ Answered) /\ [Next]_vars => (Docs /\ Answered)'
  BY StepKeepsDocs
<1> QED
  BY <1>1, <1>2, Invariance, PTL DEF Spec

\* "stores a canonical PDF": where no answer to a commit is lost, the document of
\* every version is in the storage.
THEOREM DocumentsStay ==
  ASSUME "lostAck" \notin Faults
  PROVE  Spec => []DocumentsKept
<1>1. Answered => DocumentsKept
  BY DEF Answered, DocumentsKept
<1> QED
  BY <1>1, DocsInvariant, PTL

-----------------------------------------------------------------------------
(* The archive.                                                            *)

\* A commit publishes a snapshot.
LEMMA CommitPublishes ==
  ASSUME Inv, Docs, NEW s \in Sessions, Commit(s)
  PROVE  Archive!Next
<1>r. PICK r \in Reports : r = Mine(s)
  BY DEF Inv, Session, Commit, At
<1>1. PICK n, snapshot :
        /\ r = Mine(s) /\ n = report[r].revision
        /\ snapshot = [photos |-> work[s].photos, document |-> work[s].document]
  BY <1>r
<1>2. /\ work[s].at = "freeze" /\ work[s] \in Work /\ StillDraft(s) /\ Session(s)
      /\ work[s].revision = n /\ stored' = stored
  BY <1>1 DEF Inv, TypeOK, Commit, At, StillDraft
<1>3. n \in Revisions /\ version' = [version EXCEPT ![r][n] = snapshot]
  <2>1. n \in 0..MaxRevision /\ n # 0
    BY <1>1, <1>2 DEF Inv, TypeOK, Report, Archived, Numbered, StillDraft, Live
  <2> QED
    BY <1>1, <1>2, <2>1, ReportsAssumption DEF Commit, Revisions
<1>4. \A older \in Frozen(r) : older < n
  BY <1>1, <1>2 DEF Inv, Archived, Numbered, StillDraft
<1>5. snapshot.photos = work[s].photos /\ snapshot.document = work[s].document
  BY <1>1
<1>6. /\ snapshot.document \in stored /\ snapshot.photos \subseteq stored
      /\ \A q \in Reports : \A m \in Frozen(q) : version[q][m].document # snapshot.document
  BY <1>1, <1>2, <1>5 DEF Docs, Session, Rendered
<1>7. snapshot \in [photos: SUBSET Uploads, document: Documents]
  <2>1. work[s].document \in Documents /\ work[s].photos \subseteq Uploads
    BY <1>2 DEF Docs, Printing, Inv, TypeOK, Work
  <2> QED
    BY <1>1, <2>1
<1>8. \A q \in Reports : Archive!Published(q) = Frozen(q)
  BY DEF Archive!Published, Frozen
<1>9. Archive!Publish(r, n, snapshot)
  BY <1>2, <1>3, <1>4, <1>6, <1>8 DEF Archive!Publish, Archive!Objects
<1> QED
  BY <1>3, <1>7, <1>9 DEF Archive!Next, Archive!Snapshot

\* Every other step leaves the versions and what they are made of.
LEMMA OthersStore ==
  ASSUME Inv, Inv', Answered', version' = version
  PROVE  Archive!Store
<1>1. \A r \in Reports : Frozen(r)' = Frozen(r) /\ Archive!Published(r) = Frozen(r)
  BY DEF Frozen, Archive!Published
<1>2. stored' \subseteq Uploads \cup Documents
  BY DEF Inv, TypeOK
<1>3. ASSUME NEW r \in Reports, NEW n \in Frozen(r)
      PROVE  /\ version[r][n].photos \subseteq stored'
             /\ "lostAck" \notin Faults => version[r][n].document \in stored'
  BY <1>1, <1>3 DEF Inv, TypeOK, Version, Archived, Retaining, Answered, Frozen
<1>4. ASSUME NEW r \in Reports, NEW n \in Frozen(r), "lostAck" \in Faults
      PROVE  version[r][n].document \notin Uploads
  BY ReportsAssumption DEF Inv, TypeOK, Version, Frozen
<1> QED
  BY <1>1, <1>2, <1>3, <1>4 DEF Archive!Store, Archive!Objects

\* Whatever requests, cleanups and crashes do, frozen versions are an archive.
THEOREM ArchiveImplemented == Spec => ImplementsArchive
<1>1. Init => Archive!Init
  BY DEF Init, Archive!Init
<1>2. ASSUME Inv, Docs, Inv', Answered', [Next]_vars
      PROVE  [Archive!Next]_(Archive!vars)
  <2>1. version' = version \/ \E s \in Sessions : Commit(s)
    BY <1>2 DEF Next, vars, Photo, StartUpload, Persist, PersistFails, Expire,
         Saving, Read, Create, Update, LockReport, ReadUploads, Save, Abort, SoftDelete,
         Finalizing, Finalize, ReadPhotos, WritePdf, FinalizeFails, Freeze, FreezeUnacknowledged,
         FreezeFails, Discard, CreateRevision,
         Cleaning, BeginCleanup, Claim, Erase, DeleteRow, CleanupFails, Unclaim, Crash
  <2> QED
    BY <1>2, <2>1, CommitPublishes, OthersStore DEF Archive!Next
<1> QED
  BY <1>1, <1>2, Invariance, DocsInvariant, PTL DEF Spec, ImplementsArchive, Archive!Spec
=============================================================================
