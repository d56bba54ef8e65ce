-------------------------- MODULE PhotoStoreProofs --------------------------
(***************************************************************************)
(* Proofs about PhotoStore, for any photographs, any number of workers and *)
(* any upload window that closes before the reconciliation's cutoff.       *)
(***************************************************************************)
EXTENDS PhotoStore, TLAPS

\* Present, or deliberately deleted since it was last written.
Accounted(k) == InBucket(k) \/ k \in removed

\* The row is written before the bytes can be: whatever knows a photograph
\* knows it after its row.
RowFirst ==
    \A m \in Photos :
        \/ browser[m] # "idle"
        \/ reconciling[m] # "no"
        \/ InBucket(Original(m))
        \/ Original(m) \in sweepKeys
        => row[m] # "none"

\* What is about to be acted on is still true, or was deliberately undone.
EvidenceStands ==
    \A m \in Photos :
        browser[m] = "putOK" \/ reconciling[m] = "found"
            => Accounted(Original(m))

\* No PUT can land on a row that is being, or has been, given up on.
WindowClosed ==
    \A m \in Photos :
        row[m] = "FAILED" \/ reconciling[m] # "no" => age[m] = ReconcileAge

MissingStaysMissing ==
    \A m \in Photos : reconciling[m] = "missing" => ~InBucket(Original(m))

\* Past the first of forget_media's deletes the original is gone.
OriginalFirst ==
    \A m \in Photos :
        forgetting[m] \in {"thumbnail", "row"} /\ m \notin late
            => ~InBucket(Original(m))

\* Past that delete, its traces stay until the row is gone, and no photograph
\* that was never registered has any.
ErasureLeavesTrace ==
    \A m \in Photos :
        /\ forgetting[m] \in {"thumbnail", "row"} \/ row[m] = "gone" => Leaving(m)
        /\ row[m] = "none" => ~Leaving(m)

\* The orphan sweep and the erasure only ever hold rows that exist.
ErasesRegistered ==
    \A m \in Photos : forgetting[m] # "no" => row[m] # "none"

ThumbnailUploaded ==
    \A w \in Workers, m \in Photos :
        worker[w] = [step |-> "record", photo |-> m] => Accounted(Thumbnail(m))

\* The inductive strengthening of the five safety invariants.
PhotoInv ==
    /\ TypeOK
    /\ RowFirst
    /\ EvidenceStands
    /\ WindowClosed
    /\ MissingStaysMissing
    /\ OriginalFirst
    /\ ErasureLeavesTrace
    /\ ErasesRegistered
    /\ ThumbnailUploaded
    /\ StoredHasObject
    /\ FailedNeverArrived
    /\ ErasureRemovesPhotograph
    /\ SweepSparesPhotographs
    /\ ThumbnailBacked

-----------------------------------------------------------------------------
LEMMA InitTypeOK == Init => TypeOK
<1>1. 0 \in 0 .. ReconcileAge /\ 0 \in 0 .. MaxJobs
  BY UploadWindow, JobBound
<1>2. Idle \in {Idle} \cup Job
  OBVIOUS
<1>3. ASSUME Init PROVE worker \in [Workers -> {Idle} \cup Job]
  BY <1>2, <1>3 DEF Init
<1>4. ASSUME Init
      PROVE  age \in [Photos -> 0 .. ReconcileAge] /\ queue \in [Photos -> 0 .. MaxJobs]
  BY <1>1, <1>4 DEF Init
<1>5. ASSUME Init
      PROVE  /\ thumbKey \subseteq Photos
             /\ staleThumb \subseteq Photos
             /\ sweepKeys \subseteq Keys
             /\ removed \subseteq Keys
             /\ late \subseteq Photos
             /\ reconcileOn \in BOOLEAN
             /\ sweepStep \in {"idle", "listed", "deleting"}
  BY <1>5 DEF Init
<1>6. ASSUME Init
      PROVE  /\ row \in [Photos -> {"none", "PENDING", "STORED", "FAILED", "gone"}]
             /\ store \in [Keys -> {"absent", "fresh", "old"}]
             /\ browser \in [Photos -> {"idle", "granted", "putOK", "done"}]
             /\ reconciling \in [Photos -> {"no", "listed", "found", "missing"}]
             /\ forgetting \in [Photos -> {"no", "original", "thumbnail", "row"}]
  BY <1>6 DEF Init
<1> QED
  BY <1>3, <1>4, <1>5, <1>6 DEF TypeOK

\* Every step keeps every variable in its type.
LEMMA NextTypeOK == TypeOK /\ [Next]_vars => TypeOK'
<1> SUFFICES ASSUME TypeOK, [Next]_vars PROVE TypeOK'
  OBVIOUS
<1> USE UploadWindow, JobBound DEF TypeOK, browserVars, workerVars, reconcileVars,
        forgetVars, sweepVars, historyVars
<1>1. ASSUME NEW m \in Photos, Tick(m) PROVE TypeOK'
  BY <1>1 DEF Tick
<1>2. ASSUME NEW m \in Photos, UploadUrl(m) PROVE TypeOK'
  BY <1>2 DEF UploadUrl
<1>3. ASSUME NEW m \in Photos, PutLands(m) PROVE TypeOK'
  BY <1>3 DEF PutLands, Original, Keys
<1>4. ASSUME NEW m \in Photos, PutFails(m) PROVE TypeOK'
  BY <1>4 DEF PutFails
<1>5. ASSUME NEW m \in Photos, ConfirmUpload(m) PROVE TypeOK'
  BY <1>5 DEF ConfirmUpload, StoreRow, EnqueueThumbnail, Live
<1>6. ASSUME NEW w \in Workers, NEW m \in Photos, ClaimThumbnail(w, m) PROVE TypeOK'
  BY <1>6 DEF ClaimThumbnail, Idle, Job
<1>7. ASSUME NEW w \in Workers, NEW m \in Photos, UploadThumbnail(w, m) PROVE TypeOK'
  BY <1>7 DEF UploadThumbnail, Thumbnail, Keys, Idle, Job
<1>8. ASSUME NEW w \in Workers, NEW m \in Photos, RecordThumbnail(w, m) PROVE TypeOK'
  BY <1>8 DEF RecordThumbnail, Idle, Job
<1>9. ASSUME NEW w \in Workers, WorkerDies(w) PROVE TypeOK'
  BY <1>9 DEF WorkerDies, Idle
<1>10. ASSUME DayPasses PROVE TypeOK'
  BY <1>10 DEF DayPasses, InBucket
<1>11. ASSUME StartReconcile PROVE TypeOK'
  BY <1>11 DEF StartReconcile
<1>12. ASSUME NEW m \in Photos, CheckObject(m) PROVE TypeOK'
  BY <1>12 DEF CheckObject
<1>13. ASSUME NEW m \in Photos, PromoteRow(m) PROVE TypeOK'
  BY <1>13 DEF PromoteRow, StoreRow, EnqueueThumbnail, Live
<1>14. ASSUME NEW m \in Photos, FailRow(m) PROVE TypeOK'
  BY <1>14 DEF FailRow
<1>15. ASSUME FinishReconcile PROVE TypeOK'
  BY <1>15 DEF FinishReconcile
<1>16. ASSUME AbortReconcile PROVE TypeOK'
  BY <1>16 DEF AbortReconcile
<1>17. ASSUME NEW chosen \in SUBSET Photos, StartForget(chosen) PROVE TypeOK'
  BY <1>17 DEF StartForget
<1>18. ASSUME NEW m \in Photos, ForgetOriginal(m) PROVE TypeOK'
  BY <1>18 DEF ForgetOriginal, Original, Keys
<1>19. ASSUME NEW m \in Photos, ForgetThumbnail(m) PROVE TypeOK'
  BY <1>19 DEF ForgetThumbnail, Thumbnail, Keys
<1>20. ASSUME NEW m \in Photos, ForgetRow(m) PROVE TypeOK'
  BY <1>20 DEF ForgetRow
<1>21. ASSUME AbortForget PROVE TypeOK'
  BY <1>21 DEF AbortForget
<1>22. ASSUME ListBucket PROVE TypeOK'
  BY <1>22 DEF ListBucket
<1>23. ASSUME SubtractKnown PROVE TypeOK'
  BY <1>23 DEF SubtractKnown
<1>24. ASSUME NEW k \in Keys, DeleteOrphan(k) PROVE TypeOK'
  BY <1>24 DEF DeleteOrphan
<1>25. ASSUME EndSweep PROVE TypeOK'
  BY <1>25 DEF EndSweep
<1>26. CASE UNCHANGED vars
  BY <1>26 DEF vars
<1> QED
  BY <1>1, <1>2, <1>3, <1>4, <1>5, <1>6, <1>7, <1>8, <1>9, <1>10, <1>11, <1>12, <1>13, <1>14, <1>15, <1>16, <1>17, <1>18, <1>19, <1>20, <1>21, <1>22, <1>23, <1>24, <1>25, <1>26
     DEF Next, Browser, ThumbnailWorker, Reconciliation, Erasure

-----------------------------------------------------------------------------
LEMMA InitInv == Init => PhotoInv
  BY InitTypeOK
     DEF Init, PhotoInv, RowFirst, EvidenceStands, WindowClosed, MissingStaysMissing,
         OriginalFirst, ErasureLeavesTrace, ErasesRegistered, Leaving, ThumbnailUploaded, StoredHasObject, FailedNeverArrived,
         ErasureRemovesPhotograph, SweepSparesPhotographs, ThumbnailBacked,
         InBucket, Original, Thumbnail, Keys, Idle

LEMMA NextInv == PhotoInv /\ [Next]_vars => PhotoInv'
<1> SUFFICES ASSUME PhotoInv, [Next]_vars PROVE PhotoInv'
  OBVIOUS
<1>age. \A m \in Photos : age[m] >= ReconcileAge => age[m] = ReconcileAge
  BY UploadWindow DEF PhotoInv, TypeOK
<1> USE UploadWindow DEF PhotoInv, RowFirst, EvidenceStands, WindowClosed, MissingStaysMissing,
         OriginalFirst, ErasureLeavesTrace, ErasesRegistered, Leaving, ThumbnailUploaded, StoredHasObject, FailedNeverArrived,
         ErasureRemovesPhotograph, SweepSparesPhotographs, ThumbnailBacked,
         Accounted, InBucket, Original, Thumbnail, Keys, browserVars, workerVars,
         reconcileVars, forgetVars, sweepVars, historyVars
<1>0. TypeOK'
  BY NextTypeOK
<1>1. ASSUME NEW m \in Photos, Tick(m) PROVE PhotoInv'
  BY <1>0, <1>1 DEF TypeOK, Tick
<1>2. ASSUME NEW m \in Photos, UploadUrl(m) PROVE PhotoInv'
  BY <1>0, <1>2 DEF TypeOK, UploadUrl
<1>3. ASSUME NEW m \in Photos, PutLands(m) PROVE PhotoInv'
  BY <1>0, <1>3 DEF TypeOK, PutLands
<1>4. ASSUME NEW m \in Photos, PutFails(m) PROVE PhotoInv'
  BY <1>0, <1>4 DEF TypeOK, PutFails
<1>5. ASSUME NEW m \in Photos, ConfirmUpload(m) PROVE PhotoInv'
  BY <1>0, <1>5 DEF TypeOK, ConfirmUpload, StoreRow, Live
<1>6. ASSUME NEW w \in Workers, NEW m \in Photos, ClaimThumbnail(w, m) PROVE PhotoInv'
  BY <1>0, <1>6 DEF TypeOK, ClaimThumbnail, Idle, Job
<1>7. ASSUME NEW w \in Workers, NEW m \in Photos, UploadThumbnail(w, m) PROVE PhotoInv'
  BY <1>0, <1>7 DEF TypeOK, UploadThumbnail, Idle, Job
<1>8. ASSUME NEW w \in Workers, NEW m \in Photos, RecordThumbnail(w, m) PROVE PhotoInv'
  BY <1>0, <1>8 DEF TypeOK, RecordThumbnail, Idle, Job, Live
<1>9. ASSUME NEW w \in Workers, WorkerDies(w) PROVE PhotoInv'
  BY <1>0, <1>9 DEF TypeOK, WorkerDies, Idle
<1>10. ASSUME DayPasses PROVE PhotoInv'
  <2>1. \A k \in Keys : InBucket(k)' <=> InBucket(k)
    BY <1>10 DEF DayPasses
  <2>2. \A m \in Photos : row[m] # "none" => age'[m] = ReconcileAge
    BY <1>10 DEF DayPasses
  <2>3. \A m \in Photos : Original(m) \in Keys /\ Thumbnail(m) \in Keys
    OBVIOUS
  <2>4. WindowClosed'
    BY <1>10, <2>2 DEF DayPasses
  <2>5. /\ RowFirst' /\ EvidenceStands' /\ MissingStaysMissing'
        /\ OriginalFirst' /\ ErasureLeavesTrace' /\ ErasesRegistered' /\ StoredHasObject' /\ FailedNeverArrived'
        /\ ErasureRemovesPhotograph' /\ SweepSparesPhotographs'
    BY <1>10, <2>1, <2>3 DEF DayPasses
  <2>6. ThumbnailBacked' /\ ThumbnailUploaded'
    BY <1>10, <2>1, <2>3 DEF DayPasses, TypeOK
  <2> QED
    BY <1>0, <2>4, <2>5, <2>6
<1>11. ASSUME StartReconcile PROVE PhotoInv'
  <2>1. \A m \in Photos :
            /\ reconciling'[m] \in {"listed", "no"}
            /\ reconciling'[m] = "listed" => row[m] = "PENDING" /\ age[m] >= ReconcileAge
    BY <1>11 DEF StartReconcile
  <2>3. RowFirst' /\ WindowClosed'
    BY <1>11, <2>1, <1>age DEF StartReconcile
  <2>4. EvidenceStands' /\ MissingStaysMissing'
    BY <1>11, <2>1 DEF StartReconcile
  <2>5. /\ OriginalFirst' /\ ErasureLeavesTrace' /\ ErasesRegistered' /\ ThumbnailUploaded' /\ StoredHasObject' /\ FailedNeverArrived'
        /\ ErasureRemovesPhotograph' /\ SweepSparesPhotographs' /\ ThumbnailBacked'
    BY <1>11 DEF StartReconcile
  <2> QED
    BY <1>0, <2>3, <2>4, <2>5
<1>12. ASSUME NEW m \in Photos, CheckObject(m) PROVE PhotoInv'
  BY <1>0, <1>12 DEF TypeOK, CheckObject
<1>13. ASSUME NEW m \in Photos, PromoteRow(m) PROVE PhotoInv'
  BY <1>0, <1>13 DEF TypeOK, PromoteRow, StoreRow, Live
<1>14. ASSUME NEW m \in Photos, FailRow(m) PROVE PhotoInv'
  BY <1>0, <1>14 DEF TypeOK, FailRow, Live
<1>15. ASSUME FinishReconcile PROVE PhotoInv'
  BY <1>0, <1>15 DEF TypeOK, FinishReconcile
<1>16. ASSUME AbortReconcile PROVE PhotoInv'
  BY <1>0, <1>16 DEF TypeOK, AbortReconcile
<1>17. ASSUME NEW chosen \in SUBSET Photos, StartForget(chosen) PROVE PhotoInv'
  BY <1>0, <1>17 DEF TypeOK, StartForget, Live
<1>18. ASSUME NEW m \in Photos, ForgetOriginal(m) PROVE PhotoInv'
  BY <1>0, <1>18 DEF TypeOK, ForgetOriginal
<1>19. ASSUME NEW m \in Photos, ForgetThumbnail(m) PROVE PhotoInv'
  BY <1>0, <1>19 DEF TypeOK, ForgetThumbnail
<1>20. ASSUME NEW m \in Photos, ForgetRow(m) PROVE PhotoInv'
  BY <1>0, <1>20 DEF TypeOK, ForgetRow
<1>21. ASSUME AbortForget PROVE PhotoInv'
  BY <1>0, <1>21 DEF TypeOK, AbortForget
<1>22. ASSUME ListBucket PROVE PhotoInv'
  BY <1>0, <1>22 DEF TypeOK, ListBucket
<1>23. ASSUME SubtractKnown PROVE PhotoInv'
  BY <1>0, <1>23 DEF TypeOK, SubtractKnown, KnownKeys, Live
<1>24. ASSUME NEW k \in Keys, DeleteOrphan(k) PROVE PhotoInv'
  BY <1>0, <1>24 DEF TypeOK, DeleteOrphan
<1>25. ASSUME EndSweep PROVE PhotoInv'
  BY <1>0, <1>25 DEF TypeOK, EndSweep
<1>26. CASE UNCHANGED vars
  BY <1>0, <1>26 DEF vars
<1> QED
  BY <1>1, <1>2, <1>3, <1>4, <1>5, <1>6, <1>7, <1>8, <1>9, <1>10, <1>11, <1>12, <1>13, <1>14, <1>15, <1>16, <1>17, <1>18, <1>19, <1>20, <1>21, <1>22, <1>23, <1>24, <1>25, <1>26
     DEF Next, Browser, ThumbnailWorker, Reconciliation, Erasure

-----------------------------------------------------------------------------
\* The inductive invariant holds in every reachable state.
THEOREM PhotoInvariant == Spec => []PhotoInv
<1>1. Init => PhotoInv
  BY InitInv
<1>2. PhotoInv /\ [Next]_vars => PhotoInv'
  BY NextInv
<1> QED
  BY <1>1, <1>2, PTL DEF Spec

\* Every variable keeps its type.
THEOREM PhotoTypeCorrect == Spec => []TypeOK
BY PhotoInvariant, PTL DEF PhotoInv

\* The evidence a row is settled on is never out of date when it is used: a
\* STORED row has its object and a FAILED row has none, however the browser's
\* confirm, the reconciliation and the deletions interleave.
THEOREM SettledRowsAreRight == Spec => []SettledRowsAreTrue
BY PhotoInvariant, PTL DEF PhotoInv, SettledRowsAreTrue

\* Objects first and the row last: an interrupted or repeated erasure leaves no
\* photograph behind its row.
THEOREM ErasureIsComplete == Spec => []ErasureRemovesPhotograph
BY PhotoInvariant, PTL DEF PhotoInv

\* The orphan sweep never deletes a photograph that a row still claims.
THEOREM SweepIsSafe == Spec => []SweepSparesPhotographs
BY PhotoInvariant, PTL DEF PhotoInv

\* A thumbnail_key is recorded only for an object that was uploaded.
THEOREM ThumbnailKeysAreBacked == Spec => []ThumbnailBacked
BY PhotoInvariant, PTL DEF PhotoInv

\* No link of the feed is to a picture that was never there, whether the job that
\* makes thumbnails has been round, failed half way or is running twice.
THEOREM FeedLinksAreBacked == Spec => []LinksAreBacked
<1>1. PhotoInv => LinksAreBacked
  <2> SUFFICES ASSUME PhotoInv, NEW m \in Photos, NEW prefer \in BOOLEAN,
                      NEW k \in MediaUrl(m, prefer), k \notin removed
               PROVE  InBucket(k)
    BY DEF LinksAreBacked
  <2>1. CASE k = Original(m)
    BY <2>1 DEF PhotoInv, StoredHasObject, MediaUrl
  <2>2. CASE k = Thumbnail(m) /\ m \in thumbKey
    BY <2>2 DEF PhotoInv, ThumbnailBacked
  <2> QED
    BY <2>1, <2>2 DEF MediaUrl
<1> QED
  BY <1>1, PhotoInvariant, PTL

-----------------------------------------------------------------------------
\* The meaning of Status at one photograph.
LEMMA StatusOf ==
    ASSUME PhotoInv, NEW m \in Photos
    PROVE  /\ row[m] = "none" => Status[m] = "absent"
           /\ row[m] = "gone" => Status[m] = "erased"
           /\ Live(m) /\ Leaving(m) => Status[m] = "erasing"
           /\ row[m] = "PENDING" /\ ~Leaving(m) => Status[m] = "pending"
           /\ row[m] = "STORED" /\ ~Leaving(m) => Status[m] = "kept"
           /\ row[m] = "FAILED" /\ ~Leaving(m) => Status[m] = "failed"
BY DEF Status, Settled, Live

\* A step shows at a photograph only if it changes that photograph's row or
\* the traces of its erasure.
LEMMA StatusFrame ==
    ASSUME NEW m \in Photos, row'[m] = row[m], Leaving(m)' = Leaving(m)
    PROVE  Status'[m] = Status[m]
BY DEF Status, Settled, Live

\* A step of one photograph that UploadPromise allows it.
Allowed(m) == \/ <<Status[m], Status'[m]>> \in
                   {<<"absent", "pending">>, <<"pending", "kept">>,
                    <<"pending", "failed">>, <<"pending", "erasing">>,
                    <<"kept", "erasing">>, <<"failed", "erasing">>,
                    <<"erasing", "erased">>}
              \/ Status'[m] = Status[m]

\* One photograph's allowed step, the others standing still, is a step of
\* UploadPromise or a stutter.
LEMMA OneAtATime ==
    ASSUME NEW m \in Photos, Allowed(m),
           \A n \in Photos \ {m} : Status'[n] = Status[n]
    PROVE  [Promise!Next]_Status
<1>1. /\ Status = [n \in Photos |-> Status[n]]
      /\ Status' = [n \in Photos |-> Status'[n]]
  BY DEF Status
<1>2. Status' = [Status EXCEPT ![m] = Status'[m]]
  BY <1>1
<1>3. CASE Status'[m] = Status[m]
  BY <1>1, <1>3
<1>4. CASE Status'[m] # Status[m]
  BY <1>2, <1>4
     DEF Allowed, Promise!Next, Promise!Register, Promise!Keep, Promise!GiveUp,
         Promise!BeginErasure, Promise!FinishErasure, Promise!Becomes
<1> QED
  BY <1>3, <1>4

\* A step that leaves rows and traces alone is a stutter of UploadPromise.
LEMMA Invisible ==
    ASSUME row' = row, removed' = removed, late' = late
    PROVE  [Promise!Next]_Status
<1>1. \A m \in Photos : Status'[m] = Status[m]
  BY DEF Status, Settled, Live, Leaving
<1> QED
  BY <1>1 DEF Status

\* Every step of the photo store is a step the promise allows, or shows nothing.
LEMMA StepKeepsPromise == PhotoInv /\ PhotoInv' /\ [Next]_vars => [Promise!Next]_Status
<1> SUFFICES ASSUME PhotoInv, PhotoInv', [Next]_vars PROVE [Promise!Next]_Status
  OBVIOUS
<1> USE DEF historyVars
<1>type. /\ row \in [Photos -> {"none", "PENDING", "STORED", "FAILED", "gone"}]
        /\ removed \subseteq Keys /\ late \subseteq Photos
  BY DEF PhotoInv, TypeOK
<1>known. \A m \in Photos : row[m] = "none" => ~Leaving(m)
  BY DEF PhotoInv, ErasureLeavesTrace
<1>1. ASSUME NEW m \in Photos, Tick(m) PROVE [Promise!Next]_Status
  BY <1>1, Invisible DEF Tick
<1>2. ASSUME NEW m \in Photos, PutFails(m) PROVE [Promise!Next]_Status
  BY <1>2, Invisible DEF PutFails
<1>3. ASSUME NEW m \in Photos, CheckObject(m) PROVE [Promise!Next]_Status
  BY <1>3, Invisible DEF CheckObject
<1>4. ASSUME NEW w \in Workers, NEW m \in Photos, ClaimThumbnail(w, m) PROVE [Promise!Next]_Status
  BY <1>4, Invisible DEF ClaimThumbnail
<1>5. ASSUME NEW w \in Workers, NEW m \in Photos, RecordThumbnail(w, m) PROVE [Promise!Next]_Status
  BY <1>5, Invisible DEF RecordThumbnail
<1>6. ASSUME NEW w \in Workers, WorkerDies(w) PROVE [Promise!Next]_Status
  BY <1>6, Invisible DEF WorkerDies
<1>7. ASSUME DayPasses PROVE [Promise!Next]_Status
  BY <1>7, Invisible DEF DayPasses
<1>8. ASSUME StartReconcile PROVE [Promise!Next]_Status
  BY <1>8, Invisible DEF StartReconcile
<1>9. ASSUME FinishReconcile PROVE [Promise!Next]_Status
  BY <1>9, Invisible DEF FinishReconcile
<1>10. ASSUME AbortReconcile PROVE [Promise!Next]_Status
  BY <1>10, Invisible DEF AbortReconcile
<1>11. ASSUME AbortForget PROVE [Promise!Next]_Status
  BY <1>11, Invisible DEF AbortForget
<1>12. ASSUME ListBucket PROVE [Promise!Next]_Status
  BY <1>12, Invisible DEF ListBucket
<1>13. ASSUME SubtractKnown PROVE [Promise!Next]_Status
  BY <1>13, Invisible DEF SubtractKnown
<1>14. ASSUME EndSweep PROVE [Promise!Next]_Status
  BY <1>14, Invisible DEF EndSweep
<1>15. ASSUME NEW chosen \in SUBSET Photos, StartForget(chosen) PROVE [Promise!Next]_Status
  BY <1>15, Invisible DEF StartForget
<1>16. ASSUME NEW m \in Photos, UploadUrl(m) PROVE [Promise!Next]_Status
  <2>1. \A n \in Photos \ {m} : Status'[n] = Status[n]
    BY <1>16, <1>type DEF UploadUrl, Status, Settled, Live, Leaving, Original, Thumbnail
  <2>2. Allowed(m)
    BY <1>16, <1>type, <1>known DEF UploadUrl, Allowed, Status, Settled, Live, Leaving, Original, Thumbnail
  <2> QED
    BY <2>1, <2>2, OneAtATime
<1>17. ASSUME NEW m \in Photos, PutLands(m) PROVE [Promise!Next]_Status
  <2>1. \A n \in Photos \ {m} : Status'[n] = Status[n]
    BY <1>17, <1>type DEF PutLands, Status, Settled, Live, Leaving, Original, Thumbnail
  <2>2. Allowed(m)
    BY <1>17, <1>type, <1>known DEF PutLands, Allowed, Status, Settled, Live, Leaving, Original, Thumbnail
  <2> QED
    BY <2>1, <2>2, OneAtATime
<1>18. ASSUME NEW m \in Photos, ConfirmUpload(m) PROVE [Promise!Next]_Status
  <2>1. \A n \in Photos \ {m} : Status'[n] = Status[n]
    BY <1>18, <1>type DEF ConfirmUpload, StoreRow, Status, Settled, Live, Leaving, Original, Thumbnail
  <2>2. Allowed(m)
    BY <1>18, <1>type, <1>known DEF ConfirmUpload, StoreRow, PhotoInv, EvidenceStands, FailedNeverArrived, Accounted, Allowed, Status, Settled, Live, Leaving, Original, Thumbnail
  <2> QED
    BY <2>1, <2>2, OneAtATime
<1>19. ASSUME NEW m \in Photos, PromoteRow(m) PROVE [Promise!Next]_Status
  <2>1. \A n \in Photos \ {m} : Status'[n] = Status[n]
    BY <1>19, <1>type DEF PromoteRow, StoreRow, Status, Settled, Live, Leaving, Original, Thumbnail
  <2>2. Allowed(m)
    BY <1>19, <1>type, <1>known DEF PromoteRow, StoreRow, PhotoInv, EvidenceStands, FailedNeverArrived, Accounted, Allowed, Status, Settled, Live, Leaving, Original, Thumbnail
  <2> QED
    BY <2>1, <2>2, OneAtATime
<1>20. ASSUME NEW m \in Photos, FailRow(m) PROVE [Promise!Next]_Status
  <2>1. \A n \in Photos \ {m} : Status'[n] = Status[n]
    BY <1>20, <1>type DEF FailRow, Status, Settled, Live, Leaving, Original, Thumbnail
  <2>2. Allowed(m)
    BY <1>20, <1>type, <1>known DEF FailRow, PhotoInv, MissingStaysMissing, StoredHasObject, Allowed, Status, Settled, Live, Leaving, Original, Thumbnail
  <2> QED
    BY <2>1, <2>2, OneAtATime
<1>21. ASSUME NEW m \in Photos, ForgetOriginal(m) PROVE [Promise!Next]_Status
  <2>1. \A n \in Photos \ {m} : Status'[n] = Status[n]
    BY <1>21, <1>type DEF ForgetOriginal, Status, Settled, Live, Leaving, Original, Thumbnail
  <2>2. Allowed(m)
    BY <1>21, <1>type, <1>known DEF ForgetOriginal, PhotoInv, ErasesRegistered, Allowed, Status, Settled, Live, Leaving, Original, Thumbnail
  <2> QED
    BY <2>1, <2>2, OneAtATime
<1>22. ASSUME NEW m \in Photos, ForgetRow(m) PROVE [Promise!Next]_Status
  <2>1. \A n \in Photos \ {m} : Status'[n] = Status[n]
    BY <1>22, <1>type DEF ForgetRow, Status, Settled, Live, Leaving, Original, Thumbnail
  <2>2. Allowed(m)
    BY <1>22, <1>type, <1>known DEF ForgetRow, PhotoInv, ErasureLeavesTrace, Allowed, Status, Settled, Live, Leaving, Original, Thumbnail
  <2> QED
    BY <2>1, <2>2, OneAtATime
<1>23. ASSUME NEW m \in Photos, ForgetThumbnail(m) PROVE [Promise!Next]_Status
  <2>1. \A n \in Photos : Status'[n] = Status[n]
    BY <1>23, <1>type DEF ForgetThumbnail, Status, Settled, Live, Leaving, Original, Thumbnail
  <2> QED
    BY <2>1 DEF Status
<1>24. ASSUME NEW w \in Workers, NEW m \in Photos, UploadThumbnail(w, m) PROVE [Promise!Next]_Status
  <2>1. \A n \in Photos : Status'[n] = Status[n]
    BY <1>24, <1>type DEF UploadThumbnail, Status, Settled, Live, Leaving, Original, Thumbnail
  <2> QED
    BY <2>1 DEF Status
<1>25. ASSUME NEW k \in Keys, DeleteOrphan(k) PROVE [Promise!Next]_Status
  <2>1. ASSUME NEW m \in Photos PROVE Status'[m] = Status[m]
    <3>1. CASE k = Original(m)
      BY <1>25, <3>1, <1>type DEF DeleteOrphan, PhotoInv, SweepSparesPhotographs, Status, Settled, Live, Leaving
    <3>2. CASE k # Original(m)
      BY <1>25, <3>2, <1>type DEF DeleteOrphan, Status, Settled, Live, Leaving
    <3> QED
      BY <3>1, <3>2
  <2> QED
    BY <2>1 DEF Status
<1>26. CASE UNCHANGED vars
  BY <1>26, Invisible DEF vars
<1> QED
  BY <1>1, <1>2, <1>3, <1>4, <1>5, <1>6, <1>7, <1>8, <1>9, <1>10, <1>11,
     <1>12, <1>13, <1>14, <1>15, <1>16, <1>17, <1>18, <1>19, <1>20, <1>21,
     <1>22, <1>23, <1>24, <1>25, <1>26
     DEF Next, Browser, ThumbnailWorker, Reconciliation, Erasure

\* The photo store implements UploadPromise: whatever the interleaving, an
\* upload settles at most once, a kept photograph is never reported failed nor a
\* failed one kept, and what is erased stays erased.
THEOREM PhotoStoreKeepsPromise == Spec => KeepsPromise
<1>1. Init => Promise!Init
  <2>1. ASSUME Init, NEW m \in Photos PROVE Status[m] = "absent"
    BY <2>1 DEF Init, Status, Settled, Live
  <2> QED
    BY <2>1 DEF Promise!Init, Status
<1>2. PhotoInv /\ PhotoInv' /\ [Next]_vars => [Promise!Next]_Status
  BY StepKeepsPromise
<1> QED
  BY <1>1, <1>2, PhotoInvariant, PTL DEF Spec, KeepsPromise, Promise!Spec
=============================================================================
