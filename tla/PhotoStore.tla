----------------------------- MODULE PhotoStore -----------------------------
(***************************************************************************)
(* The life of a photograph that is stored in two places which share no    *)
(* transaction: the MediaAsset row in Postgres and the objects in the      *)
(* private R2 bucket (apps/activities/services.py, tasks.py, the two       *)
(* management commands and the browser's photo-upload.js).                 *)
(*                                                                         *)
(* Five kinds of process interleave: the browser (ask for a grant, PUT the *)
(* bytes to R2, confirm to Django), the thumbnail worker, the nightly      *)
(* reconciliation, the operator's erasure or retention run, and the        *)
(* operator's orphan sweep.  Each of the last four reads a snapshot of the *)
(* rows or of the bucket and acts on it later, one storage call at a time, *)
(* and each may stop between any two steps (a storage error, a killed      *)
(* process).  Postgres runs at READ COMMITTED, so a service's row write is *)
(* one atomic step but nothing ties it to what was read before it.         *)
(***************************************************************************)
EXTENDS Naturals

CONSTANTS
    Photos,         \* the photographs, each with its own uuid key
    Workers,        \* db_worker processes
    LastPut,        \* the oldest a row can be when its granted PUT still lands
    ReconcileAge,   \* older_than_minutes: only rows this old are reconciled
    MaxJobs         \* bound: thumbnail jobs queued at once for one photograph

(***************************************************************************)
(* presign_put expires after 900 seconds and reconcile_uploads leaves rows *)
(* younger than an hour alone: a PUT cannot land on a row old enough to be *)
(* reconciled.                                                             *)
(***************************************************************************)
ASSUME UploadWindow == /\ LastPut \in Nat
                       /\ ReconcileAge \in Nat
                       /\ LastPut < ReconcileAge
ASSUME JobBound == MaxJobs \in Nat \ {0}

VARIABLES
    row,           \* MediaAsset.upload_state, "none" before and "gone" after
    thumbKey,      \* the photos whose row has a thumbnail_key
    store,         \* the bucket: for each key, absent / fresh / a day old
    age,           \* how long ago the row was registered, capped
    browser,       \* where the uploading page is with each photograph
    queue,         \* thumbnail jobs waiting, per photograph
    worker,        \* what each db_worker is doing
    reconcileOn,   \* a reconcile_uploads run is in progress
    reconciling,   \* that run's in-memory rows, and what exists() said
    forgetting,    \* the erasure run's rows: what forget_media deletes next
    staleThumb,    \* rows that run read with a thumbnail_key
    sweepStep,     \* prune_media --orphans --commit: idle, listed, deleting
    sweepKeys,     \* the keys that sweep is holding
    removed,       \* history: keys deliberately deleted since last written
    late           \* history: PUTs that landed after forget_media had passed

vars == <<row, thumbKey, store, age, browser, queue, worker, reconcileOn,
          reconciling, forgetting, staleThumb, sweepStep, sweepKeys, removed,
          late>>

Original(m)  == <<m, "original">>
Thumbnail(m) == <<m, "thumbnail">>
Keys         == Photos \X {"original", "thumbnail"}

Live(m)   == row[m] \in {"PENDING", "STORED", "FAILED"}
InBucket(k) == store[k] # "absent"

Idle == [step |-> "idle"]
Job  == [step : {"upload", "record"}, photo : Photos]

TypeOK ==
    /\ row \in [Photos -> {"none", "PENDING", "STORED", "FAILED", "gone"}]
    /\ thumbKey \subseteq Photos
    /\ store \in [Keys -> {"absent", "fresh", "old"}]
    /\ age \in [Photos -> 0 .. ReconcileAge]
    /\ browser \in [Photos -> {"idle", "granted", "putOK", "done"}]
    /\ queue \in [Photos -> 0 .. MaxJobs]
    /\ worker \in [Workers -> {Idle} \cup Job]
    /\ reconcileOn \in BOOLEAN
    /\ reconciling \in [Photos -> {"no", "listed", "found", "missing"}]
    /\ forgetting \in [Photos -> {"no", "original", "thumbnail", "row"}]
    /\ staleThumb \subseteq Photos
    /\ sweepStep \in {"idle", "listed", "deleting"}
    /\ sweepKeys \subseteq Keys
    /\ removed \subseteq Keys
    /\ late \subseteq Photos

Init ==
    /\ row = [m \in Photos |-> "none"]
    /\ thumbKey = {}
    /\ store = [k \in Keys |-> "absent"]
    /\ age = [m \in Photos |-> 0]
    /\ browser = [m \in Photos |-> "idle"]
    /\ queue = [m \in Photos |-> 0]
    /\ worker = [w \in Workers |-> Idle]
    /\ reconcileOn = FALSE
    /\ reconciling = [m \in Photos |-> "no"]
    /\ forgetting = [m \in Photos |-> "no"]
    /\ staleThumb = {}
    /\ sweepStep = "idle"
    /\ sweepKeys = {}
    /\ removed = {}
    /\ late = {}

browserVars   == <<age, browser>>
workerVars    == <<queue, worker>>
reconcileVars == <<reconcileOn, reconciling>>
forgetVars    == <<forgetting, staleThumb>>
sweepVars     == <<sweepStep, sweepKeys>>
historyVars   == <<removed, late>>

-----------------------------------------------------------------------------
(***************************************************************************)
(* Reads.                                                                  *)
(***************************************************************************)
\* media_url: the key a link is signed for, if there is one.
MediaUrl(m, prefer_thumbnail) ==
    IF row[m] = "STORED"
    THEN {IF prefer_thumbnail /\ m \in thumbKey THEN Thumbnail(m) ELSE Original(m)}
    ELSE {}

-----------------------------------------------------------------------------
(***************************************************************************)
(* Time.  A row's age counts towards the two windows; a day makes every    *)
(* object in the bucket old enough for the orphan listing.  No request,    *)
(* job or command lasts a day.                                             *)
(***************************************************************************)
Tick(m) ==
    /\ row[m] # "none"
    /\ age[m] < ReconcileAge
    /\ age' = [age EXCEPT ![m] = @ + 1]
    /\ UNCHANGED <<row, thumbKey, store, browser, workerVars, reconcileVars,
                   forgetVars, sweepVars, historyVars>>

NothingRunning ==
    /\ \A w \in Workers : worker[w] = Idle
    /\ ~reconcileOn
    /\ \A m \in Photos : forgetting[m] = "no"
    /\ sweepStep = "idle"

DayPasses ==
    /\ NothingRunning
    /\ \E k \in Keys : store[k] = "fresh"
    /\ age' = [m \in Photos |-> IF row[m] = "none" THEN 0 ELSE ReconcileAge]
    /\ store' = [k \in Keys |-> IF InBucket(k) THEN "old" ELSE "absent"]
    /\ UNCHANGED <<row, thumbKey, browser, workerVars, reconcileVars,
                   forgetVars, sweepVars, historyVars>>

-----------------------------------------------------------------------------
(***************************************************************************)
(* The browser.                                                            *)
(***************************************************************************)

\* views.upload_url: register_upload writes the PENDING row, then the page is
\* handed a presigned PUT.
UploadUrl(m) ==
    /\ row[m] = "none"
    /\ row' = [row EXCEPT ![m] = "PENDING"]
    /\ browser' = [browser EXCEPT ![m] = "granted"]
    /\ UNCHANGED <<thumbKey, store, age, workerVars, reconcileVars,
                   forgetVars, sweepVars, historyVars>>

\* The bytes reach R2.  The page learns of it, or the answer is lost and
\* uploadOne gives up without confirming.
PutLands(m) ==
    /\ browser[m] = "granted"
    /\ age[m] <= LastPut
    /\ store' = [store EXCEPT ![Original(m)] = "fresh"]
    /\ \E answer \in {"putOK", "done"} : browser' = [browser EXCEPT ![m] = answer]
    /\ removed' = removed \ {Original(m)}
    /\ late' = IF Original(m) \in removed THEN late \cup {m} ELSE late
    /\ UNCHANGED <<row, thumbKey, age, workerVars, reconcileVars, forgetVars,
                   sweepVars>>

\* Variant: uploadOne confirms without looking at put.ok.
PutFails_StillConfirms(m) ==
    /\ browser[m] = "granted"
    /\ browser' = [browser EXCEPT ![m] = "putOK"]
    /\ UNCHANGED <<row, thumbKey, store, age, workerVars, reconcileVars,
                   forgetVars, sweepVars, historyVars>>

\* R2 refuses the PUT, or the connection or the page is gone: put.ok is false
\* and nothing is confirmed.
PutFails(m) ==
    /\ browser[m] = "granted"
    /\ browser' = [browser EXCEPT ![m] = "done"]
    /\ UNCHANGED <<row, thumbKey, store, age, workerVars, reconcileVars,
                   forgetVars, sweepVars, historyVars>>

\* _enqueue_thumbnail: fire and forget, a queue that is down is swallowed.
EnqueueThumbnail(m) ==
    \/ UNCHANGED queue
    \/ /\ queue[m] < MaxJobs
       /\ queue' = [queue EXCEPT ![m] = @ + 1]

\* services.confirm_upload: STORED whatever the state was, then enqueue.
StoreRow(m) ==
    /\ row' = [row EXCEPT ![m] = "STORED"]
    /\ EnqueueThumbnail(m)

\* views.confirm_upload, some time after the PUT; a 404 once the row is gone.
ConfirmUpload(m) ==
    /\ browser[m] = "putOK"
    /\ browser' = [browser EXCEPT ![m] = "done"]
    /\ IF Live(m) THEN StoreRow(m) ELSE UNCHANGED <<row, queue>>
    /\ UNCHANGED <<thumbKey, store, age, worker, reconcileVars, forgetVars,
                   sweepVars, historyVars>>

-----------------------------------------------------------------------------
(***************************************************************************)
(* The thumbnail worker: build_thumbnail_task and build_thumbnail.         *)
(***************************************************************************)

\* Variant: two workers may take one job, the claim not being atomic.
ClaimThumbnail_NoLock(w, m) ==
    /\ worker[w] = Idle
    /\ queue' = [queue EXCEPT ![m] = @ - 1]
    /\ worker' = [worker EXCEPT ![w] = [step |-> "upload", photo |-> m]]
    /\ UNCHANGED <<row, thumbKey, store, browserVars, reconcileVars,
                   forgetVars, sweepVars, historyVars>>

\* The job reads the row and downloads the original.  It ends at once when the
\* row is gone, is not STORED, already has a thumbnail, or the download fails.
ClaimThumbnail(w, m) ==
    /\ worker[w] = Idle
    /\ queue[m] > 0
    /\ queue' = [queue EXCEPT ![m] = @ - 1]
    /\ worker' = [worker EXCEPT ![w] =
                    IF /\ row[m] = "STORED"
                       /\ m \notin thumbKey
                       /\ InBucket(Original(m))
                    THEN [step |-> "upload", photo |-> m]
                    ELSE Idle]
    /\ UNCHANGED <<row, thumbKey, store, browserVars, reconcileVars,
                   forgetVars, sweepVars, historyVars>>

UploadThumbnail(w, m) ==
    /\ worker[w] = [step |-> "upload", photo |-> m]
    /\ worker' = [worker EXCEPT ![w] = [step |-> "record", photo |-> m]]
    /\ store' = [store EXCEPT ![Thumbnail(m)] = "fresh"]
    /\ removed' = removed \ {Thumbnail(m)}
    /\ UNCHANGED <<row, thumbKey, browserVars, queue, reconcileVars,
                   forgetVars, sweepVars, late>>

\* Variant: the key is saved before the object is uploaded.
RecordThumbnail_BeforeUpload(w, m) ==
    /\ worker[w] \in [step : {"upload", "record"}, photo : {m}]
    /\ worker' = [worker EXCEPT ![w] = Idle]
    /\ thumbKey' = IF Live(m) THEN thumbKey \cup {m} ELSE thumbKey
    /\ UNCHANGED <<row, store, browserVars, queue, reconcileVars, forgetVars,
                   sweepVars, historyVars>>

\* media.save(update_fields=["thumbnail_key", ...]): an UPDATE that matches no
\* row raises, and the job fails with its object already uploaded.
RecordThumbnail(w, m) ==
    /\ worker[w] = [step |-> "record", photo |-> m]
    /\ worker' = [worker EXCEPT ![w] = Idle]
    /\ thumbKey' = IF Live(m) THEN thumbKey \cup {m} ELSE thumbKey
    /\ UNCHANGED <<row, store, browserVars, queue, reconcileVars, forgetVars,
                   sweepVars, historyVars>>

\* A storage error or a killed container.  The task is not retried.
WorkerDies(w) ==
    /\ worker[w] # Idle
    /\ worker' = [worker EXCEPT ![w] = Idle]
    /\ UNCHANGED <<row, thumbKey, store, browserVars, queue, reconcileVars,
                   forgetVars, sweepVars, historyVars>>

-----------------------------------------------------------------------------
(***************************************************************************)
(* reconcile_uploads: a snapshot of the old PENDING rows, then one         *)
(* exists() and one write per row, in a loop with no error handling.       *)
(***************************************************************************)
\* Variant: the cutoff is forgotten and every PENDING row is settled.
StartReconcile_NoCutoff ==
    /\ ~reconcileOn
    /\ reconcileOn' = TRUE
    /\ reconciling' = [m \in Photos |->
                         IF row[m] = "PENDING" THEN "listed" ELSE "no"]
    /\ UNCHANGED <<row, thumbKey, store, browserVars, workerVars, forgetVars,
                   sweepVars, historyVars>>

StartReconcile ==
    /\ ~reconcileOn
    /\ reconcileOn' = TRUE
    /\ reconciling' = [m \in Photos |->
                         IF row[m] = "PENDING" /\ age[m] >= ReconcileAge
                         THEN "listed" ELSE "no"]
    /\ UNCHANGED <<row, thumbKey, store, browserVars, workerVars, forgetVars,
                   sweepVars, historyVars>>

CheckObject(m) ==
    /\ reconciling[m] = "listed"
    /\ \A n \in Photos : reconciling[n] \notin {"found", "missing"}
    /\ reconciling' = [reconciling EXCEPT ![m] =
                         IF InBucket(Original(m)) THEN "found" ELSE "missing"]
    /\ UNCHANGED <<row, thumbKey, store, browserVars, workerVars, reconcileOn,
                   forgetVars, sweepVars, historyVars>>

\* confirm_upload on the row as it was read.
PromoteRow(m) ==
    /\ reconciling[m] = "found"
    /\ Live(m)
    /\ StoreRow(m)
    /\ reconciling' = [reconciling EXCEPT ![m] = "no"]
    /\ UNCHANGED <<thumbKey, store, browserVars, worker, reconcileOn,
                   forgetVars, sweepVars, historyVars>>

\* mark_upload_failed on the row as it was read.
FailRow(m) ==
    /\ reconciling[m] = "missing"
    /\ Live(m)
    /\ row' = [row EXCEPT ![m] = "FAILED"]
    /\ reconciling' = [reconciling EXCEPT ![m] = "no"]
    /\ UNCHANGED <<thumbKey, store, browserVars, workerVars, reconcileOn,
                   forgetVars, sweepVars, historyVars>>

\* Variant: a failure is swallowed and the run reports success half way.
FinishReconcile_Swallows ==
    /\ reconcileOn
    /\ reconcileOn' = FALSE
    /\ reconciling' = [m \in Photos |-> "no"]
    /\ UNCHANGED <<row, thumbKey, store, browserVars, workerVars, forgetVars,
                   sweepVars, historyVars>>

FinishReconcile ==
    /\ reconcileOn
    /\ \A m \in Photos : reconciling[m] = "no"
    /\ reconcileOn' = FALSE
    /\ UNCHANGED <<row, thumbKey, store, browserVars, workerVars, reconciling,
                   forgetVars, sweepVars, historyVars>>

\* exists() raises anything but a 404, a listed row has been deleted and its
\* save() raises, or the command is killed: the rest of the list is dropped.
AbortReconcile ==
    /\ reconcileOn
    /\ \E m \in Photos : reconciling[m] # "no"
    /\ reconcileOn' = FALSE
    /\ reconciling' = [m \in Photos |-> "no"]
    /\ UNCHANGED <<row, thumbKey, store, browserVars, workerVars, forgetVars,
                   sweepVars, historyVars>>

-----------------------------------------------------------------------------
(***************************************************************************)
(* prune_media --retention / --student, --commit: forget_media on each     *)
(* selected row, the original first, then the thumbnail the row was read   *)
(* with, the row last.  Which rows a run selects is Retention's business;  *)
(* here it may be any of them.                                             *)
(***************************************************************************)
StartForget(chosen) ==
    /\ \A m \in Photos : forgetting[m] = "no"
    /\ chosen # {}
    /\ \A m \in chosen : Live(m)
    /\ forgetting' = [m \in Photos |-> IF m \in chosen THEN "original" ELSE "no"]
    /\ staleThumb' = chosen \cap thumbKey
    /\ UNCHANGED <<row, thumbKey, store, browserVars, workerVars,
                   reconcileVars, sweepVars, historyVars>>

ForgetOriginal(m) ==
    /\ forgetting[m] = "original"
    /\ \A n \in Photos : forgetting[n] \notin {"thumbnail", "row"}
    /\ store' = [store EXCEPT ![Original(m)] = "absent"]
    /\ removed' = removed \cup {Original(m)}
    /\ late' = late \ {m}
    /\ forgetting' = [forgetting EXCEPT ![m] =
                        IF m \in staleThumb THEN "thumbnail" ELSE "row"]
    /\ UNCHANGED <<row, thumbKey, browserVars, workerVars, reconcileVars,
                   staleThumb, sweepVars>>

ForgetThumbnail(m) ==
    /\ forgetting[m] = "thumbnail"
    /\ store' = [store EXCEPT ![Thumbnail(m)] = "absent"]
    /\ removed' = removed \cup {Thumbnail(m)}
    /\ forgetting' = [forgetting EXCEPT ![m] = "row"]
    /\ UNCHANGED <<row, thumbKey, browserVars, workerVars, reconcileVars,
                   staleThumb, sweepVars, late>>

\* Variant: the row goes first and the objects after it.
ForgetRow_First(m) ==
    /\ forgetting[m] = "original"
    /\ row' = [row EXCEPT ![m] = "gone"]
    /\ thumbKey' = thumbKey \ {m}
    /\ UNCHANGED <<store, browserVars, workerVars, reconcileVars, forgetVars,
                   sweepVars, historyVars>>

ForgetRow(m) ==
    /\ forgetting[m] = "row"
    /\ row' = [row EXCEPT ![m] = "gone"]
    /\ thumbKey' = thumbKey \ {m}
    /\ forgetting' = [forgetting EXCEPT ![m] = "no"]
    /\ staleThumb' = staleThumb \ {m}
    /\ UNCHANGED <<store, browserVars, workerVars, reconcileVars, sweepVars,
                   historyVars>>

\* A storage call raises, or the operator interrupts the command.
AbortForget ==
    /\ \E m \in Photos : forgetting[m] # "no"
    /\ forgetting' = [m \in Photos |-> "no"]
    /\ staleThumb' = {}
    /\ UNCHANGED <<row, thumbKey, store, browserVars, workerVars,
                   reconcileVars, sweepVars, historyVars>>

-----------------------------------------------------------------------------
(***************************************************************************)
(* prune_media --orphans --commit: orphan_objects lists the bucket, then   *)
(* reads the rows; delete_objects removes what is left, key by key.        *)
(***************************************************************************)
ListBucket ==
    /\ sweepStep = "idle"
    /\ sweepStep' = "listed"
    /\ sweepKeys' = {k \in Keys : store[k] = "old"}
    /\ UNCHANGED <<row, thumbKey, store, browserVars, workerVars,
                   reconcileVars, forgetVars, historyVars>>

\* Variant: only STORED rows count as claiming their object.
KnownKeys_StoredOnly ==
    {Original(m) : m \in {n \in Photos : row[n] = "STORED"}}
        \cup {Thumbnail(m) : m \in thumbKey}

\* The keys some row claims: every key, and every non-empty thumbnail_key.
KnownKeys ==
    {Original(m) : m \in {n \in Photos : Live(n)}}
        \cup {Thumbnail(m) : m \in thumbKey}

SubtractKnown ==
    /\ sweepStep = "listed"
    /\ sweepStep' = "deleting"
    /\ sweepKeys' = sweepKeys \ KnownKeys
    /\ UNCHANGED <<row, thumbKey, store, browserVars, workerVars,
                   reconcileVars, forgetVars, historyVars>>

DeleteOrphan(k) ==
    /\ sweepStep = "deleting"
    /\ k \in sweepKeys
    /\ store' = [store EXCEPT ![k] = "absent"]
    /\ removed' = removed \cup {k}
    /\ sweepKeys' = sweepKeys \ {k}
    /\ UNCHANGED <<row, thumbKey, browserVars, workerVars, reconcileVars,
                   forgetVars, sweepStep, late>>

\* Nothing left to delete, or the command stops early.
EndSweep ==
    /\ sweepStep # "idle"
    /\ sweepStep' = "idle"
    /\ sweepKeys' = {}
    /\ UNCHANGED <<row, thumbKey, store, browserVars, workerVars,
                   reconcileVars, forgetVars, historyVars>>

-----------------------------------------------------------------------------
Browser(m) ==
    \/ UploadUrl(m)
    \/ PutLands(m)
    \/ PutFails(m)
    \/ ConfirmUpload(m)

ThumbnailWorker(w, m) ==
    \/ ClaimThumbnail(w, m)
    \/ UploadThumbnail(w, m)
    \/ RecordThumbnail(w, m)

Reconciliation(m) ==
    \/ CheckObject(m)
    \/ PromoteRow(m)
    \/ FailRow(m)

Erasure(m) ==
    \/ ForgetOriginal(m)
    \/ ForgetThumbnail(m)
    \/ ForgetRow(m)

Next ==
    \/ DayPasses
    \/ \E m \in Photos : Tick(m) \/ Browser(m) \/ Reconciliation(m) \/ Erasure(m)
    \/ \E w \in Workers, m \in Photos : ThumbnailWorker(w, m)
    \/ \E w \in Workers : WorkerDies(w)
    \/ StartReconcile \/ FinishReconcile \/ AbortReconcile
    \/ \E chosen \in SUBSET Photos : StartForget(chosen)
    \/ AbortForget
    \/ ListBucket \/ SubtractKnown \/ EndSweep
    \/ \E k \in Keys : DeleteOrphan(k)

\* Time goes on; nothing else is promised.  In particular no schedule for
\* reconcile_uploads exists in the repository, so none is assumed.
Fairness == \A m \in Photos : WF_vars(Tick(m))

Spec == Init /\ [][Next]_vars /\ Fairness

-----------------------------------------------------------------------------
(***************************************************************************)
(* Properties.                                                             *)
(***************************************************************************)

\* A STORED row has its object, until somebody deliberately deletes it: the
\* browser's word and the reconciliation's exists() are both good evidence,
\* however late they are acted on (models.py UploadState, "STORED is set once
\* the object is confirmed to exist").
StoredHasObject ==
    \A m \in Photos :
        row[m] = "STORED" /\ Original(m) \notin removed => InBucket(Original(m))

\* A FAILED row is one whose object never arrived.  The reconciliation reads
\* the row, then the bucket, then writes, and no PUT can land in between or
\* afterwards, so no paid-for photograph hides behind a FAILED row.
FailedNeverArrived ==
    \A m \in Photos :
        row[m] = "FAILED" /\ Original(m) \notin removed => ~InBucket(Original(m))

\* What a settled row says of the bucket is so.
SettledRowsAreTrue == StoredHasObject /\ FailedNeverArrived

\* forget_media leaves no photograph behind its row, whichever step it was
\* interrupted at and re-run from: once the row is gone the original is gone,
\* unless a PUT granted minutes before was still in flight when it passed.
ErasureRemovesPhotograph ==
    \A m \in Photos :
        row[m] = "gone" /\ m \notin late => ~InBucket(Original(m))

\* The orphan sweep never holds the only copy of a photograph some row points
\* at: bucket first, rows second, and a row written before its object.
SweepSparesPhotographs ==
    \A m \in Photos :
        sweepStep = "deleting" /\ Original(m) \in sweepKeys => row[m] = "gone"

\* A recorded thumbnail_key names an object that was uploaded, so the feed
\* never asks R2 for a thumbnail nobody built.
ThumbnailBacked ==
    \A m \in thumbKey : Thumbnail(m) \notin removed => InBucket(Thumbnail(m))

\* Once the first of forget_media's deletes has passed, the photograph is on its
\* way out, even if the run is interrupted there and an upload still in flight
\* arrives.
Leaving(m) == Original(m) \in removed \/ m \in late

\* A link the feed signs, small picture or large, is to an object that is there,
\* unless somebody has deliberately deleted it (selectors.py, media_url).
LinksAreBacked ==
    \A m \in Photos, prefer_thumbnail \in BOOLEAN :
        \A k \in MediaUrl(m, prefer_thumbnail) : k \notin removed => InBucket(k)

\* If reconciliation runs keep completing, no row stays PENDING for ever:
\* neither a lost confirm nor a PUT that never happened leaves one behind.
PendingSettles ==
    []<><<FinishReconcile>>_vars =>
        \A m \in Photos : (row[m] = "PENDING") ~> (row[m] # "PENDING")

Settled == [none |-> "absent", PENDING |-> "pending", STORED |-> "kept",
            FAILED |-> "failed", gone |-> "erased"]

Status ==
    [m \in Photos |->
        IF Live(m) /\ Leaving(m) THEN "erasing" ELSE Settled[row[m]]]

\* What the rows and objects amount to for somebody who only knows UploadPromise.
Promise == INSTANCE UploadPromise WITH status <- Status

\* The protocol of browser, bucket, rows, nightly job, erasure and sweep
\* implements that promise: a settled photograph never changes its answer.
KeepsPromise == Promise!Spec

\* "A delete that leaves the image in the bucket is not a delete, and a bucket
\* object with no row is invisible" (services.py, the note above forget_media).
\* Stated as the note states it: no object outlives its row.  It does not hold
\* of thumbnails: a worker that read the row before the erasure uploads after.
NoObjectOutlivesRow ==
    \A m \in Photos :
        row[m] = "gone" /\ m \notin late =>
            ~InBucket(Original(m)) /\ ~InBucket(Thumbnail(m))
=============================================================================
