------------------------------ MODULE PhotoUploads ------------------------------
(***************************************************************************)
(* Photos: an upload reserves an Attachment row, puts the bytes in S3      *)
(* outside any transaction and then makes the row READY, or recovers from  *)
(* its failure.  Users remove photos, or turn them into evidence by        *)
(* submitting their checklist or reporting their complaint; an operator's  *)
(* cleanup command deletes what was abandoned.                             *)
(*                                                                         *)
(* A serializable transaction is one atomic step; an S3 request is another *)
(* and may fail, and a put that failed for its client may still arrive.    *)
(* Times are what they are compared with: a time limit is "fresh", then    *)
(* "expired", then "old", an hour after it expired, the cleanup's grace.   *)
(***************************************************************************)
EXTENDS Naturals, FiniteSets

CONSTANTS Photos,      \* attachments; a server-made id is never used again
          Drafts,      \* private checklists
          TaskDrafts,  \* those that belong to a cleaning task
          Guest,       \* the owner of a complaint's photos before it is reported
          Cleaners,    \* runs of the cleanup command at the same time
          MaxPhotos,   \* MAX_DRAFT_PHOTOS
          None

VARIABLES photo,     \* the Attachment table
          draft,     \* the ChecklistSubmission table: status and private access
          objects,   \* the photos whose bytes are in the bucket
          late,      \* puts that were given up: not arrived yet, arrived
          upload,    \* where uploadPhoto() of a photo is
          removing,  \* the photos removePhoto() has still to delete from S3
          cleaner    \* the runs of the cleanup command

vars == <<photo, draft, objects, late, upload, removing, cleaner>>

ASSUME MaxPhotosIsNat == MaxPhotos \in Nat
ASSUME TasksAreDrafts == TaskDrafts \subseteq Drafts
ASSUME GuestIsNoDraft == Guest \notin Drafts

Ages == {"fresh", "expired", "old"}
Older(age) == IF age = "fresh" THEN "expired" ELSE "old"

\* lease: uploadExpiresAt; deleted: deletedAt; attempted: there is a generation in
\* storageCleanupAttemptedAt; gone: storageDeletedAt is set; evidence: a submission
\* revision or an issue event refers to the photo.
Photo == [owner: Drafts \cup {Guest}, status: {"PENDING", "READY", "FAILED", "DELETED"},
          lease: Ages \cup {None}, deleted: {"recent", "old", None},
          attempted: BOOLEAN, gone: BOOLEAN, evidence: BOOLEAN]
Draft == [status: {"DRAFT", "SUBMITTED", "CANCELLED"}, access: Ages \cup {None}]
\* unchanged: nobody has advanced the generation of the photo since its claim.
Cleaner == [pc: {"idle", "next", "erase", "acknowledge"}, batch: SUBSET Photos,
            photo: Photos \cup {None}, unchanged: BOOLEAN]
NoRun == [pc |-> "idle", batch |-> {}, photo |-> None, unchanged |-> TRUE]

ASSUME NoneIsNoValue == None \notin Photo \cup Photos \cup Ages \cup {"recent"}

\* A row is DELETED exactly if it says when, and confirmed deleted only if it is DELETED:
\* the cleanup finds every deletion that is not confirmed.
RowsAreConsistent ==
    \A p \in Photos : photo[p] # None =>
        /\ photo[p].status = "DELETED" <=> photo[p].deleted # None
        /\ photo[p].gone => photo[p].status = "DELETED"

TypeOK ==
    /\ photo \in [Photos -> Photo \cup {None}]
    /\ draft \in [Drafts -> Draft]
    /\ objects \subseteq Photos
    /\ late \in [Photos -> {"none", "sent", "arrived"}]
    /\ upload \in [Photos -> {"none", "put", "finalize", "recover", "erase", "done", "lost"}]
    /\ removing \subseteq Photos
    /\ cleaner \in [Cleaners -> Cleaner]
    /\ RowsAreConsistent

--------------------------------------------------------------------------------
Exists(p) == photo[p] # None
Owned(d) == {p \in Photos : Exists(p) /\ photo[p].owner = d}

\* resolveDraft(): an unexpired draft; the QR code admits every guest.
Accessible(owner) ==
    owner \in Drafts => draft[owner].status = "DRAFT" /\ draft[owner].access = "fresh"

\* The photos that count: reservations as well as completed uploads.
\* Faulty variant: completed uploads only.
Completed(d) == {p \in Owned(d) : photo[p].status = "READY"}
Counted(d) == {p \in Owned(d) : photo[p].status \in {"PENDING", "READY"}}

\* A new generation: the claims of cleanup runs on the photo are not current any more.
Advance(p) == [c \in Cleaners |-> IF cleaner[c].photo = p
                                  THEN [cleaner[c] EXCEPT !.unchanged = FALSE] ELSE cleaner[c]]

\* An S3 delete succeeds, or fails.
Erase(p) == objects' = objects \ {p}
EraseFails == UNCHANGED objects

--------------------------------------------------------------------------------
\* uploadPhoto() reserves the row; a complaint's photos are not limited here.
Reserve(p) ==
    /\ ~Exists(p)
    /\ \E o \in Drafts \cup {Guest} :
         /\ Accessible(o)
         /\ o \in Drafts => Cardinality(Counted(o)) < MaxPhotos
         /\ photo' = [photo EXCEPT ![p] =
                        [owner |-> o, status |-> "PENDING", lease |-> "fresh", deleted |-> None,
                         attempted |-> FALSE, gone |-> FALSE, evidence |-> FALSE]]
    /\ upload' = [upload EXCEPT ![p] = "put"]
    /\ UNCHANGED <<draft, objects, late, removing, cleaner>>

Put(p) ==
    /\ upload[p] = "put"
    /\ objects' = objects \cup {p}
    /\ upload' = [upload EXCEPT ![p] = "finalize"]
    /\ UNCHANGED <<photo, draft, late, removing, cleaner>>

\* The put fails or times out: it never arrives, has arrived, or still will.
PutFails(p, next) ==
    /\ \/ UNCHANGED <<objects, late>>
       \/ objects' = objects \cup {p} /\ UNCHANGED late
       \/ late' = [late EXCEPT ![p] = "sent"] /\ UNCHANGED objects
    /\ upload' = [upload EXCEPT ![p] = next]
    /\ UNCHANGED <<photo, draft, removing, cleaner>>

PutLost(p) == upload[p] = "put" /\ PutFails(p, "recover")

Arrive(p) ==
    /\ late[p] = "sent"
    /\ late' = [late EXCEPT ![p] = "arrived"]
    /\ objects' = objects \cup {p}
    /\ UNCHANGED <<photo, draft, upload, removing, cleaner>>

\* The second transaction makes the reservation READY; its response may get lost,
\* which sends the upload to its recovery all the same.
Finalize(p) ==
    /\ upload[p] = "finalize"
    /\ photo[p].status = "PENDING" /\ photo[p].lease = "fresh" /\ Accessible(photo[p].owner)
    /\ photo' = [photo EXCEPT ![p].status = "READY",
                              ![p].lease = IF photo[p].owner = Guest THEN "fresh" ELSE None]
    /\ \E next \in {"done", "recover"} : upload' = [upload EXCEPT ![p] = next]
    /\ UNCHANGED <<draft, objects, late, removing, cleaner>>

\* PHOTO_UPLOAD_EXPIRED, no access any more, or a database failure.
FinalizeRefused(p) ==
    /\ upload[p] = "finalize"
    /\ upload' = [upload EXCEPT ![p] = "recover"]
    /\ UNCHANGED <<photo, draft, objects, late, removing, cleaner>>

\* recoverPhotoUpload() only touches what is not READY and not referred to.
\* Faulty variant: what it believes failed is taken to be failed.
AnyPhoto(p) == ~photo[p].evidence
Recoverable(p) ==
    photo[p].status \in {"PENDING", "FAILED", "DELETED"} /\ ~photo[p].evidence

\* A reservation becomes FAILED; any deletion is reopened.
\* Faulty variant: all becomes FAILED.
RecoveredFailed(x) == [x EXCEPT !.status = "FAILED", !.gone = FALSE, !.attempted = TRUE]
Recovered(x) ==
    [x EXCEPT !.status = IF @ = "PENDING" THEN "FAILED" ELSE @, !.gone = FALSE, !.attempted = TRUE]

Recover(p) ==
    /\ upload[p] = "recover"
    /\ IF Recoverable(p)
       THEN /\ photo' = [photo EXCEPT ![p] = Recovered(@)]
            /\ cleaner' = Advance(p)
            /\ upload' = [upload EXCEPT ![p] = "erase"]
       ELSE upload' = [upload EXCEPT ![p] = "done"] /\ UNCHANGED <<photo, cleaner>>
    /\ UNCHANGED <<draft, objects, late, removing>>

UploadErase(p) ==
    /\ upload[p] = "erase"
    /\ Erase(p) \/ EraseFails
    /\ upload' = [upload EXCEPT ![p] = "done"]
    /\ UNCHANGED <<photo, draft, late, removing, cleaner>>

\* The process dies, or the recovery's transaction fails and is only logged.
UploadLost(p) ==
    /\ upload[p] \in {"put", "finalize", "recover", "erase"}
    /\ IF upload[p] = "put" THEN PutFails(p, "lost")
       ELSE /\ upload' = [upload EXCEPT ![p] = "lost"]
            /\ UNCHANGED <<photo, draft, objects, late, removing, cleaner>>

--------------------------------------------------------------------------------
\* removePhoto(): not while the upload goes on, and not what is referred to.  A
\* guest's access to an unreported photo ends with its time limit.
\* Faulty variant: the time of the deletion is forgotten.
RemovedUndated(p) == [photo[p] EXCEPT !.status = "DELETED"]
Removed(p) ==
    IF photo[p].status = "DELETED" THEN photo[p]
    ELSE [photo[p] EXCEPT !.status = "DELETED", !.deleted = "recent"]

Remove(p) ==
    /\ Exists(p)
    /\ Accessible(photo[p].owner)
    /\ photo[p].owner = Guest => photo[p].lease = "fresh"
    /\ photo[p].status # "PENDING"
    /\ ~photo[p].evidence
    /\ photo' = [photo EXCEPT ![p] = Removed(p)]
    /\ removing' = removing \cup {p}
    /\ UNCHANGED <<draft, objects, late, upload, cleaner>>

\* Then its S3 delete succeeds, fails, or is never made.
RemoveErase(p) ==
    /\ p \in removing
    /\ Erase(p) \/ EraseFails
    /\ removing' = removing \ {p}
    /\ UNCHANGED <<photo, draft, late, upload, cleaner>>

--------------------------------------------------------------------------------
\* Nothing but a draft, or a guest's unreported upload, owns a photo to clean up.
Unsubmitted(p) == photo[p].owner \in Drafts => draft[photo[p].owner].status = "DRAFT"

\* cleanupCandidateWhere()
Candidate(p) ==
    LET x == photo[p]
    IN  /\ Exists(p) /\ ~x.evidence /\ ~x.gone /\ Unsubmitted(p)
        /\ \/ x.status \in {"PENDING", "FAILED"} /\ x.lease = "old"
           \/ x.status = "READY" /\ x.owner = Guest /\ x.lease = "old"
           \/ /\ x.status = "READY" /\ x.owner \in Drafts \ TaskDrafts
              /\ draft[x.owner].access = "old"
           \/ x.status = "DELETED" /\ x.deleted # None /\ (x.deleted = "old" \/ x.attempted)

Begin(c) ==
    LET batch == {p \in Photos : Candidate(p)}
    IN  /\ cleaner[c].pc = "idle"
        /\ batch # {}
        /\ cleaner' = [cleaner EXCEPT ![c] = [NoRun EXCEPT !.pc = "next", !.batch = batch]]
        /\ UNCHANGED <<photo, draft, objects, late, upload, removing>>

\* The next photo of the batch, or the end of the run.
NextPhoto(c, p) ==
    LET rest == cleaner[c].batch \ {p}
    IN  IF rest = {} THEN NoRun ELSE [NoRun EXCEPT !.pc = "next", !.batch = rest]

\* claim(): checked again, the photo becomes DELETED under a new generation.
ClaimPhoto(c, p) ==
    /\ cleaner[c].pc = "next" /\ p \in cleaner[c].batch
    /\ Candidate(p)
    /\ photo' = [photo EXCEPT ![p].status = "DELETED", ![p].attempted = TRUE,
                              ![p].deleted = IF @ = None THEN "recent" ELSE @]
    /\ cleaner' = [Advance(p) EXCEPT ![c] = [cleaner[c] EXCEPT !.pc = "erase", !.photo = p,
                                                              !.unchanged = TRUE]]
    /\ UNCHANGED <<draft, objects, late, upload, removing>>

\* CHANGED, or the claim fails.
SkipPhoto(c, p) ==
    /\ cleaner[c].pc = "next" /\ p \in cleaner[c].batch
    /\ cleaner' = [cleaner EXCEPT ![c] = NextPhoto(c, p)]
    /\ UNCHANGED <<photo, draft, objects, late, upload, removing>>

CleanErase(c) ==
    /\ cleaner[c].pc = "erase"
    /\ Erase(cleaner[c].photo)
    /\ cleaner' = [cleaner EXCEPT ![c].pc = "acknowledge"]
    /\ UNCHANGED <<photo, draft, late, upload, removing>>

\* The deletion is confirmed unless a recovery or another run came after the claim.
\* Faulty variant: whatever happened since the claim.
ConfirmsAny(c) == photo[cleaner[c].photo].status = "DELETED" /\ ~photo[cleaner[c].photo].gone
Confirms(c) ==
    LET p == cleaner[c].photo
    IN  /\ ~photo[p].evidence /\ Unsubmitted(p)
        /\ photo[p].status = "DELETED" /\ ~photo[p].gone
        /\ cleaner[c].unchanged

Acknowledge(c) ==
    LET p == cleaner[c].photo
    IN  /\ cleaner[c].pc = "acknowledge"
        /\ photo' = IF Confirms(c) THEN [photo EXCEPT ![p].gone = TRUE] ELSE photo
        /\ cleaner' = [cleaner EXCEPT ![c] = NextPhoto(c, p)]
        /\ UNCHANGED <<draft, objects, late, upload, removing>>

\* The S3 delete or the acknowledgement fails: the next run tries again.
CleanFails(c) ==
    /\ cleaner[c].pc \in {"erase", "acknowledge"}
    /\ cleaner' = [cleaner EXCEPT ![c] = NextPhoto(c, cleaner[c].photo)]
    /\ UNCHANGED <<photo, draft, objects, late, upload, removing>>

CleanCrash(c) ==
    /\ cleaner[c].pc # "idle"
    /\ cleaner' = [cleaner EXCEPT ![c] = NoRun]
    /\ UNCHANGED <<photo, draft, objects, late, upload, removing>>

--------------------------------------------------------------------------------
\* checkPhotos(): no upload of the checklist is still going on.
\* Faulty variant: one whose lease has expired does not count.
UploadingNow(d) == {p \in Owned(d) : photo[p].status = "PENDING" /\ photo[p].lease = "fresh"}
Uploading(d) == {p \in Owned(d) : photo[p].status = "PENDING"}

\* submitChecklist(): all its READY photos, and no other, become evidence; a cleaning
\* task needs one of the finished work.
Submit(d) ==
    /\ Accessible(d)
    /\ Uploading(d) = {}
    /\ d \in TaskDrafts => Completed(d) # {}
    /\ draft' = [draft EXCEPT ![d].status = "SUBMITTED"]
    /\ photo' = [p \in Photos |-> IF p \in Completed(d)
                                  THEN [photo[p] EXCEPT !.evidence = TRUE] ELSE photo[p]]
    /\ UNCHANGED <<objects, late, upload, removing, cleaner>>

\* attachToReport() consumes the time limit of each photo of a complaint.
Report(S) ==
    /\ S # {}
    /\ \A p \in S : /\ Exists(p) /\ photo[p].owner = Guest /\ photo[p].status = "READY"
                    /\ photo[p].lease = "fresh" /\ ~photo[p].evidence
    /\ photo' = [p \in Photos |-> IF p \in S
                                  THEN [photo[p] EXCEPT !.lease = None, !.evidence = TRUE]
                                  ELSE photo[p]]
    /\ UNCHANGED <<draft, objects, late, upload, removing, cleaner>>

\* startCleaningTaskDraft(): the assignee resumes the draft of a task, whether its
\* access had expired or not, or a new assignee's start cancels it.
Resume(d) ==
    /\ d \in TaskDrafts
    /\ draft[d].status = "DRAFT"
    /\ draft' = [draft EXCEPT ![d].access = "fresh"]
    /\ UNCHANGED <<photo, objects, late, upload, removing, cleaner>>

HandOver(d) ==
    /\ d \in TaskDrafts
    /\ draft[d].status = "DRAFT"
    /\ draft' = [draft EXCEPT ![d] = [status |-> "CANCELLED", access |-> None]]
    /\ UNCHANGED <<photo, objects, late, upload, removing, cleaner>>

--------------------------------------------------------------------------------
\* Time passes for a lease, for a deletion, or for the access to a draft.
AgeLease(p) ==
    /\ Exists(p)
    /\ photo[p].lease \in {"fresh", "expired"}
    /\ photo' = [photo EXCEPT ![p].lease = Older(@)]
    /\ UNCHANGED <<draft, objects, late, upload, removing, cleaner>>

AgeDeletion(p) ==
    /\ Exists(p)
    /\ photo[p].deleted = "recent"
    /\ photo' = [photo EXCEPT ![p].deleted = "old"]
    /\ UNCHANGED <<draft, objects, late, upload, removing, cleaner>>

AgeAccess(d) ==
    /\ draft[d].access \in {"fresh", "expired"}
    /\ draft' = [draft EXCEPT ![d].access = Older(@)]
    /\ UNCHANGED <<photo, objects, late, upload, removing, cleaner>>

--------------------------------------------------------------------------------
Init ==
    /\ photo = [p \in Photos |-> None]
    /\ draft = [d \in Drafts |-> [status |-> "DRAFT", access |-> "fresh"]]
    /\ objects = {}
    /\ late = [p \in Photos |-> "none"]
    /\ upload = [p \in Photos |-> "none"]
    /\ removing = {}
    /\ cleaner = [c \in Cleaners |-> NoRun]

UploadStep(p) ==
    \/ Put(p) \/ PutLost(p) \/ Finalize(p) \/ FinalizeRefused(p) \/ Recover(p) \/ UploadErase(p)

Next ==
    \/ \E p \in Photos : \/ Reserve(p) \/ UploadStep(p) \/ Arrive(p) \/ UploadLost(p)
                         \/ Remove(p) \/ RemoveErase(p) \/ AgeLease(p) \/ AgeDeletion(p)
    \/ \E c \in Cleaners : \/ Begin(c) \/ CleanErase(c) \/ Acknowledge(c)
                           \/ CleanFails(c) \/ CleanCrash(c)
                           \/ \E p \in Photos : ClaimPhoto(c, p) \/ SkipPhoto(c, p)
    \/ \E d \in Drafts : Submit(d) \/ Resume(d) \/ HandOver(d) \/ AgeAccess(d)
    \/ \E S \in SUBSET Photos : Report(S)

Spec == Init /\ [][Next]_vars

\* Uploads go on or die, time passes, and the operator runs the command again and again;
\* not every run fails at the same place.
Fairness ==
    /\ \A p \in Photos : /\ WF_vars(UploadStep(p)) /\ WF_vars(AgeLease(p))
                         /\ WF_vars(AgeDeletion(p))
    /\ \A d \in Drafts : WF_vars(AgeAccess(d))
    /\ \A c \in Cleaners : /\ WF_vars(Begin(c)) /\ SF_vars(CleanErase(c))
                           /\ SF_vars(Acknowledge(c))
                           /\ \A p \in Photos : SF_vars(ClaimPhoto(c, p))

FairSpec == Spec /\ Fairness

--------------------------------------------------------------------------------
\* Whatever uploads, recoveries, removals and cleanup runs race with it, a photo that is
\* READY or that a record refers to is in the bucket, and the latter stays READY.
EvidenceIsStored ==
    \A p \in Photos : Exists(p) =>
        /\ photo[p].evidence => photo[p].status = "READY"
        /\ photo[p].status = "READY" => p \in objects

\* A confirmed deletion is one: the bytes only come back by an upload that is still going
\* on and will reopen it, by one that died, or by a put that arrived after all.
ConfirmedDeletions ==
    \A p \in Photos : Exists(p) /\ photo[p].gone /\ p \in objects =>
        upload[p] \in {"put", "finalize", "recover", "lost"} \/ late[p] = "arrived"

\* Parallel uploads do not exceed the limit of a draft.
LimitKept == \A d \in Drafts : Cardinality(Counted(d)) <= MaxPhotos

\* A submitted checklist refers to every photo that was uploaded for it, and no upload for
\* it is left to be finished.
NoPhotoLeftBehind ==
    \A d \in Drafts : draft[d].status = "SUBMITTED" =>
        \A p \in Counted(d) : photo[p].status = "READY" /\ photo[p].evidence

\* Every photo ends as evidence, as kept work of a task, or with a confirmed deletion,
\* unless its checklist is submitted without it or cancelled.
PhotosSettle ==
    \A p \in Photos :
        LET unsettled == /\ Exists(p) /\ Unsubmitted(p) /\ ~photo[p].evidence /\ ~photo[p].gone
                         /\ ~(photo[p].status = "READY" /\ photo[p].owner \in TaskDrafts)
        IN  unsettled ~> ~unsettled
================================================================================
