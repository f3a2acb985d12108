--------------------------- MODULE PhotoUploadsProofs ---------------------------
(***************************************************************************)
(* Theorems about PhotoUploads for all photos, drafts, runs and limits.    *)
(***************************************************************************)
EXTENDS PhotoUploads, TLAPS, FiniteSetTheorems

\* What is referred to is READY and what is READY is stored; the bytes of a reservation
\* that is about to be READY are stored; only an ended photo is about to be erased.
PhotoInv(p) ==
    /\ Exists(p) /\ photo[p].evidence => photo[p].status = "READY"
    /\ Exists(p) /\ photo[p].status = "READY" => p \in objects
    /\ upload[p] \notin {"none", "done", "lost"} => Exists(p)
    /\ upload[p] = "finalize" /\ photo[p].status = "PENDING" => p \in objects
    /\ upload[p] = "erase" => photo[p].status \in {"FAILED", "DELETED"}
    /\ p \in removing => Exists(p) /\ photo[p].status = "DELETED"

Erasing == {"erase", "acknowledge"}

\* A run works on a photo that it made DELETED, and that stays so.
CleanerInv(c) ==
    cleaner[c].pc \in Erasing =>
        /\ cleaner[c].photo \in Photos
        /\ Exists(cleaner[c].photo)
        /\ photo[cleaner[c].photo].status = "DELETED"

Places == {"none", "put", "finalize", "recover", "erase", "done", "lost"}

\* The runs keep the photos they work on, but for one that takes up p.
RunsKeep(p, x) ==
    /\ cleaner' \in [Cleaners -> Cleaner]
    /\ \A c \in Cleaners : cleaner'[c].pc \in Erasing =>
         \/ cleaner'[c].photo = p /\ x.status = "DELETED"
         \/ cleaner[c].pc \in Erasing /\ cleaner'[c].photo = cleaner[c].photo

IInv ==
    /\ TypeOK
    /\ \A p \in Photos : PhotoInv(p)
    /\ \A c \in Cleaners : CleanerInv(c)

--------------------------------------------------------------------------------
\* No row, no upload and no run at the start.
LEMMA InitIInv == Init => IInv
<1> SUFFICES ASSUME Init PROVE IInv
    OBVIOUS
<1>1. NoRun \in Cleaner
  BY DEF NoRun, Cleaner
<1>2. TypeOK
  BY <1>1 DEF Init, TypeOK, RowsAreConsistent, Draft, Ages
<1> QED
  BY <1>2 DEF Init, IInv, PhotoInv, CleanerInv, Exists, NoRun, Erasing

\* A row that changes stays DELETED once it is, keeps what it says consistent, and refers
\* to stored bytes where it has to; the runs keep their photos or lose what they know.
LEMMA RowStep ==
    ASSUME IInv, NEW p \in Photos, NEW x \in Photo,
           photo' = [photo EXCEPT ![p] = x],
           upload' \in [Photos -> Places],
           \A q \in Photos \ {p} : upload'[q] = upload[q],
           removing' = removing \/ (removing' = removing \cup {p} /\ x.status = "DELETED"),
           cleaner' = cleaner \/ RunsKeep(p, x),
           UNCHANGED <<draft, objects, late>>,
           x.status = "DELETED" <=> x.deleted # None,
           x.gone => x.status = "DELETED",
           x.evidence => x.status = "READY",
           x.status = "READY" => p \in objects,
           upload'[p] = "finalize" /\ x.status = "PENDING" => p \in objects,
           upload'[p] = "erase" => x.status \in {"FAILED", "DELETED"},
           Exists(p) /\ photo[p].status = "DELETED" => x.status = "DELETED"
    PROVE  IInv'
<1>1. /\ x # None
      /\ photo \in [Photos -> Photo \cup {None}]
      /\ \A q \in Photos : photo'[q] = IF q = p THEN x ELSE photo[q]
  BY NoneIsNoValue DEF IInv, TypeOK
<1>2. RowsAreConsistent'
  BY <1>1 DEF IInv, TypeOK, RowsAreConsistent
<1>3. TypeOK'
  BY <1>1, <1>2 DEF IInv, TypeOK, Places, RunsKeep
<1>4. ASSUME NEW q \in Photos PROVE PhotoInv(q)'
  <2>1. PhotoInv(q)
    BY DEF IInv
  <2>2. CASE q = p
    BY <1>1, <2>1, <2>2 DEF PhotoInv, Exists
  <2>3. CASE q # p
    BY <1>1, <2>1, <2>3 DEF PhotoInv, Exists
  <2> QED BY <2>2, <2>3
<1>5. ASSUME NEW c \in Cleaners PROVE CleanerInv(c)'
  <2>1. CleanerInv(c)
    BY DEF IInv
  <2> QED BY <1>1, <2>1 DEF CleanerInv, Exists, Erasing, RunsKeep
<1> QED BY <1>3, <1>4, <1>5 DEF IInv

\* A step that changes no row: an upload, a removal or a run moves on, bytes arrive, and
\* only bytes that somebody was about to erase disappear.
LEMMA StoreStep ==
    ASSUME IInv, UNCHANGED photo,
           draft' \in [Drafts -> Draft],
           objects' \subseteq Photos,
           late' \in [Photos -> {"none", "sent", "arrived"}],
           upload' \in [Photos -> Places],
           removing' \subseteq removing,
           cleaner' \in [Cleaners -> Cleaner],
           \A q \in objects \ objects' : photo[q].status \in {"FAILED", "DELETED"},
           \A q \in Photos :
               \/ upload'[q] = upload[q]
               \/ /\ upload[q] \notin {"none", "done", "lost"}
                  /\ \/ upload'[q] \in {"recover", "done", "lost"}
                     \/ upload'[q] = "finalize" /\ q \in objects',
           \A c \in Cleaners : cleaner'[c].pc \in Erasing =>
               cleaner[c].pc \in Erasing /\ cleaner'[c].photo = cleaner[c].photo
    PROVE  IInv'
<1>1. TypeOK'
  BY DEF IInv, TypeOK, RowsAreConsistent, Places
<1>2. ASSUME NEW q \in Photos PROVE PhotoInv(q)'
  <2>1. PhotoInv(q)
    BY DEF IInv
  <2> QED BY <2>1 DEF PhotoInv, Exists
<1>3. ASSUME NEW c \in Cleaners PROVE CleanerInv(c)'
  <2>1. CleanerInv(c)
    BY DEF IInv
  <2> QED BY <2>1 DEF CleanerInv, Exists, Erasing
<1> QED BY <1>1, <1>2, <1>3 DEF IInv

\* Photos that are READY become evidence.
LEMMA EvidenceStep ==
    ASSUME IInv, NEW S \in SUBSET Photos,
           photo' \in [Photos -> Photo \cup {None}],
           draft' \in [Drafts -> Draft],
           UNCHANGED <<objects, late, upload, removing, cleaner>>,
           \A p \in Photos \ S : photo'[p] = photo[p],
           \A p \in S : /\ Exists(p) /\ photo[p].status = "READY"
                        /\ photo'[p] # None /\ photo'[p].status = "READY"
                        /\ photo'[p].deleted = photo[p].deleted
                        /\ photo'[p].gone = photo[p].gone
    PROVE  IInv'
<1>1. RowsAreConsistent'
  BY DEF IInv, TypeOK, RowsAreConsistent, Exists
<1>2. TypeOK'
  BY <1>1 DEF IInv, TypeOK
<1>3. ASSUME NEW q \in Photos PROVE PhotoInv(q)'
  <2>1. PhotoInv(q)
    BY DEF IInv
  <2> QED BY <2>1 DEF PhotoInv, Exists
<1>4. ASSUME NEW c \in Cleaners PROVE CleanerInv(c)'
  <2>1. CleanerInv(c)
    BY DEF IInv
  <2> QED BY <2>1 DEF CleanerInv, Exists, Erasing
<1> QED BY <1>2, <1>3, <1>4 DEF IInv

--------------------------------------------------------------------------------
\* A new generation changes nothing else of the runs.
LEMMA Advanced ==
    ASSUME TypeOK, NEW p \in Photos
    PROVE  /\ Advance(p) \in [Cleaners -> Cleaner]
           /\ \A c \in Cleaners : /\ Advance(p)[c].pc = cleaner[c].pc
                                 /\ Advance(p)[c].photo = cleaner[c].photo
<1>1. \A c \in Cleaners : /\ cleaner[c] \in Cleaner
                         /\ [cleaner[c] EXCEPT !.unchanged = FALSE] \in Cleaner
                         /\ [cleaner[c] EXCEPT !.unchanged = FALSE].pc = cleaner[c].pc
                         /\ [cleaner[c] EXCEPT !.unchanged = FALSE].photo = cleaner[c].photo
  BY DEF TypeOK, Cleaner
<1> QED BY <1>1 DEF Advance

\* What the invariant says of the types of one photo, its upload and the runs.
LEMMA Types ==
    ASSUME IInv, NEW p \in Photos
    PROVE  /\ photo \in [Photos -> Photo \cup {None}]
           /\ upload \in [Photos -> Places]
           /\ Exists(p) => /\ photo[p] \in Photo
                           /\ photo[p].status = "DELETED" <=> photo[p].deleted # None
                           /\ photo[p].gone => photo[p].status = "DELETED"
           /\ PhotoInv(p)
BY DEF IInv, TypeOK, RowsAreConsistent, Exists, Places

LEMMA ReserveStep == ASSUME IInv, NEW p \in Photos, Reserve(p) PROVE IInv'
<1>1. PICK o \in Drafts \cup {Guest} :
        photo' = [photo EXCEPT ![p] =
                    [owner |-> o, status |-> "PENDING", lease |-> "fresh", deleted |-> None,
                     attempted |-> FALSE, gone |-> FALSE, evidence |-> FALSE]]
  BY DEF Reserve
<1> DEFINE x == [owner |-> o, status |-> "PENDING", lease |-> "fresh", deleted |-> None,
                 attempted |-> FALSE, gone |-> FALSE, evidence |-> FALSE]
<1>2. x \in Photo /\ x.status = "PENDING" /\ x.deleted = None /\ ~x.gone /\ ~x.evidence
  BY DEF Photo, Ages
<1>3. /\ upload' \in [Photos -> Places] /\ upload'[p] = "put"
      /\ \A q \in Photos \ {p} : upload'[q] = upload[q]
      /\ UNCHANGED <<draft, objects, late, removing, cleaner>>
      /\ ~Exists(p)
  BY Types DEF Reserve, Places
<1>4. photo' = [photo EXCEPT ![p] = x]
  BY <1>1
<1> HIDE DEF x
<1> QED BY <1>2, <1>3, <1>4, RowStep

LEMMA FinalizeStep == ASSUME IInv, NEW p \in Photos, Finalize(p) PROVE IInv'
<1> DEFINE x == [photo[p] EXCEPT !.status = "READY",
                                 !.lease = IF photo[p].owner = Guest THEN "fresh" ELSE None]
<1>1. /\ PhotoInv(p) /\ Exists(p) /\ photo[p] \in Photo
      /\ photo[p].status = "PENDING" /\ photo[p].deleted = None /\ ~photo[p].gone
      /\ p \in objects
  BY Types DEF PhotoInv, Finalize
<1>2. /\ x \in Photo /\ x.status = "READY" /\ x.deleted = None /\ ~x.gone
      /\ photo' = [photo EXCEPT ![p] = x]
  BY <1>1, Types DEF Photo, Ages, Finalize
<1>3. PICK pc \in {"done", "recover"} : upload' = [upload EXCEPT ![p] = pc]
  BY DEF Finalize
<1>4. /\ upload' \in [Photos -> Places] /\ upload'[p] = pc
      /\ \A q \in Photos \ {p} : upload'[q] = upload[q]
      /\ UNCHANGED <<draft, objects, late, removing, cleaner>>
  BY <1>3, Types DEF Places, Finalize
<1> HIDE DEF x
<1> QED BY <1>1, <1>2, <1>4, RowStep

LEMMA RecoverStep == ASSUME IInv, NEW p \in Photos, Recover(p) PROVE IInv'
<1> DEFINE x == Recovered(photo[p])
<1>1. PhotoInv(p) /\ Exists(p) /\ photo[p] \in Photo
  BY Types DEF PhotoInv, Recover
<1>2. CASE Recoverable(p)
  <2>1. /\ x \in Photo /\ x.status \in {"FAILED", "DELETED"} /\ ~x.gone /\ ~x.evidence
        /\ x.status = "DELETED" <=> photo[p].status = "DELETED"
        /\ x.deleted = photo[p].deleted
    BY <1>1, <1>2 DEF Recovered, Recoverable, Photo
  <2>2. photo' = [photo EXCEPT ![p] = x]
    BY <1>2, Types DEF Recover
  <2>3. /\ upload' \in [Photos -> Places] /\ upload'[p] = "erase"
        /\ \A q \in Photos \ {p} : upload'[q] = upload[q]
        /\ UNCHANGED <<draft, objects, late, removing>>
    BY <1>2, Types DEF Recover, Places
  <2>4. RunsKeep(p, x)
    BY <1>2, Advanced DEF Recover, RunsKeep, IInv
  <2>5. x.status = "DELETED" <=> x.deleted # None
    BY <1>1, <2>1, Types
  <2> HIDE DEF x
  <2> QED BY <1>1, <2>1, <2>2, <2>3, <2>4, <2>5, RowStep
<1>3. CASE ~Recoverable(p)
  <2>1. upload' = [upload EXCEPT ![p] = "done"] /\ UNCHANGED <<photo, draft, objects, late, removing, cleaner>>
    BY <1>3 DEF Recover
  <2>2. /\ upload' \in [Photos -> Places]
        /\ \A q \in Photos : upload'[q] = upload[q] \/ (q = p /\ upload'[q] = "done")
    BY <2>1, Types DEF Places
  <2> QED BY <2>1, <2>2, StoreStep DEF IInv, TypeOK, Recover
<1> QED BY <1>2, <1>3

LEMMA RemoveStep == ASSUME IInv, NEW p \in Photos, Remove(p) PROVE IInv'
<1> DEFINE x == Removed(p)
<1>1. PhotoInv(p) /\ Exists(p) /\ photo[p] \in Photo /\ ~photo[p].evidence
  BY Types DEF Remove
<1>2. /\ x \in Photo /\ x.status = "DELETED" /\ x.deleted # None /\ ~x.evidence
  BY <1>1, Types, NoneIsNoValue DEF Removed, Photo
<1>3. /\ photo' = [photo EXCEPT ![p] = x] /\ removing' = removing \cup {p}
      /\ UNCHANGED <<draft, objects, late, upload, cleaner>>
  BY DEF Remove
<1> HIDE DEF x
<1> QED BY <1>1, <1>2, <1>3, Types, RowStep

LEMMA ClaimPhotoStep ==
    ASSUME IInv, NEW c \in Cleaners, NEW p \in Photos, ClaimPhoto(c, p) PROVE IInv'
<1> DEFINE x == [photo[p] EXCEPT !.status = "DELETED", !.attempted = TRUE,
                                 !.deleted = IF @ = None THEN "recent" ELSE @]
           r == [cleaner[c] EXCEPT !.pc = "erase", !.photo = p, !.unchanged = TRUE]
<1>1. PhotoInv(p) /\ Exists(p) /\ photo[p] \in Photo /\ ~photo[p].evidence
  BY Types DEF ClaimPhoto, Candidate
<1>2. /\ x \in Photo /\ x.status = "DELETED" /\ x.deleted # None /\ ~x.evidence
  BY <1>1, NoneIsNoValue DEF Photo
<1>3. /\ photo' = [photo EXCEPT ![p] = x] /\ cleaner' = [Advance(p) EXCEPT ![c] = r]
      /\ UNCHANGED <<draft, objects, late, upload, removing>>
  BY Types DEF ClaimPhoto
<1>4. r \in Cleaner /\ r.photo = p
  BY DEF Cleaner, IInv, TypeOK
<1> HIDE DEF x, r
<1>5. RunsKeep(p, x)
  BY <1>2, <1>3, <1>4, Advanced DEF RunsKeep, IInv
<1> QED BY <1>1, <1>2, <1>3, <1>5, Types, RowStep

LEMMA AgeLeaseStep == ASSUME IInv, NEW p \in Photos, AgeLease(p) PROVE IInv'
<1> DEFINE x == [photo[p] EXCEPT !.lease = Older(@)]
<1>1. PhotoInv(p) /\ Exists(p) /\ photo[p] \in Photo
  BY Types DEF AgeLease
<1>2. /\ x \in Photo /\ x.status = photo[p].status /\ x.deleted = photo[p].deleted
      /\ x.gone = photo[p].gone /\ x.evidence = photo[p].evidence
  BY <1>1 DEF Photo, Older, Ages
<1>3. photo' = [photo EXCEPT ![p] = x] /\ UNCHANGED <<draft, objects, late, upload, removing, cleaner>>
  BY Types DEF AgeLease
<1> HIDE DEF x
<1> QED BY <1>1, <1>2, <1>3, Types, RowStep DEF PhotoInv

LEMMA AgeDeletionStep == ASSUME IInv, NEW p \in Photos, AgeDeletion(p) PROVE IInv'
<1> DEFINE x == [photo[p] EXCEPT !.deleted = "old"]
<1>1. PhotoInv(p) /\ Exists(p) /\ photo[p] \in Photo /\ photo[p].deleted # None
  BY Types, NoneIsNoValue DEF AgeDeletion
<1>2. /\ x \in Photo /\ x.status = photo[p].status /\ x.deleted = "old" /\ x.gone = photo[p].gone
      /\ x.evidence = photo[p].evidence
  BY <1>1 DEF Photo
<1>3. photo' = [photo EXCEPT ![p] = x] /\ UNCHANGED <<draft, objects, late, upload, removing, cleaner>>
  BY DEF AgeDeletion
<1>4. "old" # None
  BY NoneIsNoValue DEF Ages
<1> HIDE DEF x
<1> QED BY <1>1, <1>2, <1>3, <1>4, Types, RowStep DEF PhotoInv

--------------------------------------------------------------------------------
\* The uploads' requests to S3.
LEMMA PutStep == ASSUME IInv, NEW p \in Photos, Put(p) PROVE IInv'
<1>1. /\ upload' \in [Photos -> Places]
      /\ \A q \in Photos : upload'[q] = IF q = p THEN "finalize" ELSE upload[q]
      /\ upload[p] = "put" /\ objects' = objects \cup {p}
      /\ UNCHANGED <<photo, draft, late, removing, cleaner>>
  BY Types DEF Put, Places
<1> QED BY <1>1, StoreStep DEF IInv, TypeOK

LEMMA PutFailsStep ==
    ASSUME IInv, NEW p \in Photos, upload[p] = "put", NEW pc \in {"recover", "lost"}, PutFails(p, pc)
    PROVE  IInv'
<1>1. /\ upload' \in [Photos -> Places]
      /\ \A q \in Photos : upload'[q] = IF q = p THEN pc ELSE upload[q]
      /\ objects' = objects \/ objects' = objects \cup {p}
      /\ late' \in [Photos -> {"none", "sent", "arrived"}]
      /\ UNCHANGED <<photo, draft, removing, cleaner>>
  BY Types DEF PutFails, Places, IInv, TypeOK
<1> QED BY <1>1, StoreStep DEF IInv, TypeOK

LEMMA UploadLostStep == ASSUME IInv, NEW p \in Photos, UploadLost(p) PROVE IInv'
<1>1. CASE upload[p] = "put"
  BY <1>1, PutFailsStep DEF UploadLost
<1>2. CASE upload[p] # "put"
  <2>1. /\ upload' \in [Photos -> Places]
        /\ \A q \in Photos : upload'[q] = IF q = p THEN "lost" ELSE upload[q]
        /\ upload[p] \notin {"none", "done", "lost"}
        /\ UNCHANGED <<photo, draft, objects, late, removing, cleaner>>
    BY <1>2, Types DEF UploadLost, Places
  <2> QED BY <2>1, StoreStep DEF IInv, TypeOK
<1> QED BY <1>1, <1>2

LEMMA FinalizeRefusedStep == ASSUME IInv, NEW p \in Photos, FinalizeRefused(p) PROVE IInv'
<1>1. /\ upload' \in [Photos -> Places]
      /\ \A q \in Photos : upload'[q] = IF q = p THEN "recover" ELSE upload[q]
      /\ upload[p] = "finalize"
      /\ UNCHANGED <<photo, draft, objects, late, removing, cleaner>>
  BY Types DEF FinalizeRefused, Places
<1> QED BY <1>1, StoreStep DEF IInv, TypeOK

LEMMA UploadEraseStep == ASSUME IInv, NEW p \in Photos, UploadErase(p) PROVE IInv'
<1>1. /\ upload' \in [Photos -> Places]
      /\ \A q \in Photos : upload'[q] = IF q = p THEN "done" ELSE upload[q]
      /\ upload[p] = "erase" /\ objects' \in {objects, objects \ {p}}
      /\ photo[p].status \in {"FAILED", "DELETED"}
      /\ UNCHANGED <<photo, draft, late, removing, cleaner>>
  BY Types DEF UploadErase, Erase, EraseFails, Places, PhotoInv
<1> QED BY <1>1, StoreStep DEF IInv, TypeOK

LEMMA ArriveStep == ASSUME IInv, NEW p \in Photos, Arrive(p) PROVE IInv'
<1>1. /\ late' \in [Photos -> {"none", "sent", "arrived"}] /\ objects' = objects \cup {p}
      /\ UNCHANGED <<photo, draft, upload, removing, cleaner>>
  BY DEF Arrive, IInv, TypeOK
<1> QED BY <1>1, Types, StoreStep DEF IInv, TypeOK

LEMMA RemoveEraseStep == ASSUME IInv, NEW p \in Photos, RemoveErase(p) PROVE IInv'
<1>1. /\ removing' \subseteq removing /\ objects' \in {objects, objects \ {p}}
      /\ photo[p].status = "DELETED"
      /\ UNCHANGED <<photo, draft, late, upload, cleaner>>
  BY Types DEF RemoveErase, Erase, EraseFails, PhotoInv
<1> QED BY <1>1, Types, StoreStep DEF IInv, TypeOK

--------------------------------------------------------------------------------
\* The steps of a run of the cleanup command.
LEMMA NextPhotoType ==
    ASSUME TypeOK, NEW c \in Cleaners, NEW p
    PROVE  NextPhoto(c, p) \in Cleaner /\ NextPhoto(c, p).pc \notin Erasing
<1>1. cleaner[c].batch \in SUBSET Photos
  BY DEF TypeOK, Cleaner
<1> QED BY <1>1 DEF NextPhoto, NoRun, Cleaner, Erasing

LEMMA RunStep ==
    ASSUME IInv, NEW c \in Cleaners, NEW r \in Cleaner, cleaner' = [cleaner EXCEPT ![c] = r],
           r.pc \in Erasing => cleaner[c].pc \in Erasing /\ r.photo = cleaner[c].photo,
           objects' = objects \/ (cleaner[c].pc = "erase" /\ objects' = objects \ {cleaner[c].photo}),
           UNCHANGED <<photo, draft, late, upload, removing>>
    PROVE  IInv'
<1>1. /\ cleaner' \in [Cleaners -> Cleaner]
      /\ \A d \in Cleaners : cleaner'[d] = IF d = c THEN r ELSE cleaner[d]
  BY DEF IInv, TypeOK
<1>2. cleaner[c].pc = "erase" => photo[cleaner[c].photo].status = "DELETED"
  BY DEF IInv, CleanerInv, Erasing
<1> QED BY <1>1, <1>2, StoreStep DEF IInv, TypeOK, Places

LEMMA AcknowledgeStep == ASSUME IInv, NEW c \in Cleaners, Acknowledge(c) PROVE IInv'
<1> DEFINE r == NextPhoto(c, cleaner[c].photo)
<1>1. /\ r \in Cleaner /\ r.pc \notin Erasing
      /\ cleaner' = [cleaner EXCEPT ![c] = r]
      /\ UNCHANGED <<draft, objects, late, upload, removing>>
  BY NextPhotoType DEF Acknowledge, IInv
<1> HIDE DEF r
<1>2. CASE ~Confirms(c)
  BY <1>1, <1>2, RunStep DEF Acknowledge
<1>3. CASE Confirms(c)
  <2>1. PICK p \in Photos : /\ p = cleaner[c].photo /\ Exists(p)
                            /\ photo[p].status = "DELETED"
    BY DEF Acknowledge, IInv, CleanerInv, Erasing
  <2> DEFINE x == [photo[p] EXCEPT !.gone = TRUE]
  <2>2. /\ x \in Photo /\ x.status = "DELETED" /\ x.deleted # None
        /\ x.evidence = photo[p].evidence
    BY <2>1, Types DEF Photo
  <2>3. photo' = [photo EXCEPT ![p] = x]
    BY <1>3, <2>1, Types DEF Acknowledge
  <2>4. cleaner' \in [Cleaners -> Cleaner] /\ \A d \in Cleaners : d # c => cleaner'[d] = cleaner[d]
    BY <1>1 DEF IInv, TypeOK
  <2>5. cleaner'[c] = r
    BY <1>1 DEF IInv, TypeOK
  <2> HIDE DEF x
  <2>6. RunsKeep(p, x)
    BY <1>1, <2>4, <2>5 DEF RunsKeep
  <2>7. ~x.evidence
    BY <1>3, <2>1, <2>2 DEF Confirms
  <2> QED BY <1>1, <2>1, <2>2, <2>3, <2>6, <2>7, Types, RowStep
<1> QED BY <1>2, <1>3

LEMMA CleanStep ==
    ASSUME IInv, NEW c \in Cleaners,
           \/ Begin(c) \/ CleanErase(c) \/ CleanFails(c) \/ CleanCrash(c)
           \/ \E p \in Photos : SkipPhoto(c, p)
    PROVE  IInv'
<1>1. ASSUME Begin(c) PROVE IInv'
  <2> DEFINE r == [NoRun EXCEPT !.pc = "next", !.batch = {p \in Photos : Candidate(p)}]
  <2>1. r \in Cleaner /\ r.pc = "next"
    BY DEF NoRun, Cleaner
  <2>2. cleaner' = [cleaner EXCEPT ![c] = r] /\ UNCHANGED <<photo, draft, objects, late, upload, removing>>
    BY <1>1 DEF Begin
  <2> HIDE DEF r
  <2> QED BY <2>1, <2>2, RunStep DEF Erasing
<1>2. ASSUME CleanErase(c) PROVE IInv'
  <2> DEFINE r == [cleaner[c] EXCEPT !.pc = "acknowledge"]
  <2>1. r \in Cleaner /\ r.photo = cleaner[c].photo
    BY DEF Cleaner, IInv, TypeOK
  <2>2. /\ cleaner' = [cleaner EXCEPT ![c] = r] /\ cleaner[c].pc = "erase"
        /\ objects' = objects \ {cleaner[c].photo}
        /\ UNCHANGED <<photo, draft, late, upload, removing>>
    BY <1>2 DEF CleanErase, Erase
  <2> HIDE DEF r
  <2> QED BY <2>1, <2>2, RunStep DEF Erasing
<1>3. ASSUME CleanFails(c) PROVE IInv'
  BY <1>3, NextPhotoType, RunStep DEF CleanFails, IInv
<1>4. ASSUME CleanCrash(c) PROVE IInv'
  <2>1. NoRun \in Cleaner /\ NoRun.pc \notin Erasing
    BY DEF NoRun, Cleaner, Erasing
  <2> QED BY <1>4, <2>1, RunStep DEF CleanCrash
<1>5. ASSUME NEW p \in Photos, SkipPhoto(c, p) PROVE IInv'
  BY <1>5, NextPhotoType, RunStep DEF SkipPhoto, IInv
<1> QED BY <1>1, <1>2, <1>3, <1>4, <1>5

--------------------------------------------------------------------------------
\* The steps of the drafts.
LEMMA SubmitStep == ASSUME IInv, NEW d \in Drafts, Submit(d) PROVE IInv'
<1>1. \A p \in Photos : photo[p] \in Photo \cup {None}
  BY DEF IInv, TypeOK
<1>2. draft' \in [Drafts -> Draft]
  BY DEF Submit, IInv, TypeOK, Draft
<1>3. \A p \in Completed(d) :
        /\ p \in Photos /\ Exists(p) /\ photo[p].status = "READY" /\ photo[p] \in Photo
        /\ photo'[p] = [photo[p] EXCEPT !.evidence = TRUE]
  BY <1>1 DEF Submit, Completed, Owned, Exists
<1>4. \A p \in Completed(d) :
        /\ photo'[p] \in Photo /\ photo'[p].status = "READY"
        /\ photo'[p].deleted = photo[p].deleted /\ photo'[p].gone = photo[p].gone
  BY <1>3 DEF Photo
<1>5. \A p \in Photos \ Completed(d) : photo'[p] = photo[p]
  BY DEF Submit
<1>6. photo' \in [Photos -> Photo \cup {None}]
  BY <1>1, <1>4, <1>5 DEF Submit
<1>7. Completed(d) \in SUBSET Photos
  BY DEF Completed, Owned
<1>8. UNCHANGED <<objects, late, upload, removing, cleaner>>
  BY DEF Submit
<1>9. \A p \in Completed(d) :
        /\ Exists(p) /\ photo[p].status = "READY"
        /\ photo'[p] # None /\ photo'[p].status = "READY"
        /\ photo'[p].deleted = photo[p].deleted /\ photo'[p].gone = photo[p].gone
  BY <1>3, <1>4, NoneIsNoValue
<1> QED BY <1>2, <1>5, <1>6, <1>7, <1>8, <1>9, EvidenceStep

LEMMA ReportStep == ASSUME IInv, NEW S \in SUBSET Photos, Report(S) PROVE IInv'
<1>1. \A p \in Photos : photo[p] \in Photo \cup {None}
  BY DEF IInv, TypeOK
<1>2. \A p \in S :
        /\ Exists(p) /\ photo[p].status = "READY" /\ photo[p] \in Photo
        /\ photo'[p] = [photo[p] EXCEPT !.lease = None, !.evidence = TRUE]
  BY <1>1 DEF Report, Exists
<1>3. \A p \in S :
        /\ photo'[p] \in Photo /\ photo'[p].status = "READY"
        /\ photo'[p].deleted = photo[p].deleted /\ photo'[p].gone = photo[p].gone
  BY <1>2 DEF Photo
<1>4. \A p \in Photos \ S : photo'[p] = photo[p]
  BY DEF Report
<1>5. photo' \in [Photos -> Photo \cup {None}]
  BY <1>1, <1>3, <1>4 DEF Report
<1>6. draft' \in [Drafts -> Draft]
  BY DEF Report, IInv, TypeOK
<1>7. UNCHANGED <<objects, late, upload, removing, cleaner>>
  BY DEF Report
<1>8. \A p \in S :
        /\ Exists(p) /\ photo[p].status = "READY"
        /\ photo'[p] # None /\ photo'[p].status = "READY"
        /\ photo'[p].deleted = photo[p].deleted /\ photo'[p].gone = photo[p].gone
  BY <1>2, <1>3, NoneIsNoValue
<1> QED BY <1>4, <1>5, <1>6, <1>7, <1>8, EvidenceStep

LEMMA DraftStep ==
    ASSUME IInv, NEW d \in Drafts, Resume(d) \/ HandOver(d) \/ AgeAccess(d) PROVE IInv'
<1>1. draft' \in [Drafts -> Draft]
  BY DEF Resume, HandOver, AgeAccess, Older, IInv, TypeOK, Draft, Ages
<1>2. UNCHANGED <<photo, objects, late, upload, removing, cleaner>>
  BY DEF Resume, HandOver, AgeAccess
<1> QED BY <1>1, <1>2, StoreStep DEF IInv, TypeOK, Places

--------------------------------------------------------------------------------
LEMMA NextIInv == IInv /\ [Next]_vars => IInv'
<1> SUFFICES ASSUME IInv, [Next]_vars PROVE IInv'
    OBVIOUS
<1>1. CASE UNCHANGED vars
  BY <1>1, StoreStep DEF vars, IInv, TypeOK, Places
<1>2. ASSUME NEW p \in Photos,
             \/ Reserve(p) \/ UploadStep(p) \/ Arrive(p) \/ UploadLost(p)
             \/ Remove(p) \/ RemoveErase(p) \/ AgeLease(p) \/ AgeDeletion(p)
      PROVE  IInv'
  BY <1>2, ReserveStep, PutStep, PutFailsStep, FinalizeStep, FinalizeRefusedStep, RecoverStep,
     UploadEraseStep, ArriveStep, UploadLostStep, RemoveStep, RemoveEraseStep, AgeLeaseStep,
     AgeDeletionStep DEF UploadStep, PutLost
<1>3. ASSUME NEW c \in Cleaners,
             \/ Begin(c) \/ CleanErase(c) \/ Acknowledge(c) \/ CleanFails(c) \/ CleanCrash(c)
             \/ \E p \in Photos : ClaimPhoto(c, p) \/ SkipPhoto(c, p)
      PROVE  IInv'
  BY <1>3, CleanStep, AcknowledgeStep, ClaimPhotoStep
<1>4. ASSUME NEW d \in Drafts, Submit(d) \/ Resume(d) \/ HandOver(d) \/ AgeAccess(d)
      PROVE  IInv'
  BY <1>4, SubmitStep, DraftStep
<1>5. ASSUME NEW S \in SUBSET Photos, Report(S) PROVE IInv'
  BY <1>5, ReportStep
<1> QED BY <1>1, <1>2, <1>3, <1>4, <1>5 DEF Next

\* The invariant that everything else follows from.
THEOREM Invariant == Spec => []IInv
BY InitIInv, NextIInv, PTL DEF Spec

\* Rows keep their shape, and deletions can be found again, whatever fails.
THEOREM TypeCorrect == Spec => []TypeOK
<1>1. IInv => TypeOK
  BY DEF IInv
<1> QED BY <1>1, Invariant, PTL

\* The bytes of READY photos and of evidence are never deleted: not by the recovery of an
\* upload whose success went unheard, a repeated removal or a run of the cleanup.
THEOREM Stored == Spec => []EvidenceIsStored
<1>1. IInv => EvidenceIsStored
  BY DEF IInv, PhotoInv, EvidenceIsStored
<1> QED BY <1>1, Invariant, PTL

--------------------------------------------------------------------------------
\* What a step may do to a row that is there: its owner stays, it does not count again
\* once it does not, and evidence stays what it is.
Moved(old, new) ==
    /\ new.owner = old.owner
    /\ new.status \in {"PENDING", "READY"} => old.status \in {"PENDING", "READY"}
    /\ old.evidence => new.status = "READY" /\ new.evidence

Moves(p) == Exists(p)' => (Exists(p) /\ Moved(photo[p], photo'[p])) \/ Reserve(p)
AllMove == \A p \in Photos : Moves(p)

LEMMA Stays == ASSUME IInv, NEW p \in Photos, photo'[p] = photo[p] PROVE Moves(p)
BY Types DEF Moves, Moved, Exists, PhotoInv

LEMMA OneMoves ==
    ASSUME IInv, NEW p \in Photos, NEW x, Exists(p), photo' = [photo EXCEPT ![p] = x],
           Moved(photo[p], x)
    PROVE  AllMove
<1>1. photo'[p] = x /\ \A q \in Photos \ {p} : photo'[q] = photo[q]
  BY DEF IInv, TypeOK
<1> QED BY <1>1, Stays DEF AllMove, Moves

LEMMA PhotoMoves ==
    ASSUME IInv, NEW p \in Photos,
           \/ Finalize(p) \/ Recover(p) \/ Remove(p) \/ AgeLease(p) \/ AgeDeletion(p)
           \/ \E c \in Cleaners : ClaimPhoto(c, p)
    PROVE  AllMove
<1>1. Exists(p) => photo[p] \in Photo /\ PhotoInv(p)
  BY Types
<1>2. ASSUME Finalize(p) PROVE AllMove
  <2> DEFINE x == [photo[p] EXCEPT !.status = "READY",
                                   !.lease = IF photo[p].owner = Guest THEN "fresh" ELSE None]
  <2>1. Exists(p) /\ photo[p].status = "PENDING"
    BY <1>2, Types DEF Finalize, PhotoInv
  <2>2. photo' = [photo EXCEPT ![p] = x] /\ Moved(photo[p], x)
    BY <1>1, <1>2, <2>1, Types DEF Finalize, Moved, Photo, PhotoInv
  <2> HIDE DEF x
  <2> QED BY <2>1, <2>2, OneMoves
<1>3. ASSUME Recover(p) PROVE AllMove
  <2>1. CASE Recoverable(p)
    <3>1. Exists(p)
      BY <1>3, Types DEF Recover, PhotoInv
    <3>2. photo' = [photo EXCEPT ![p] = Recovered(photo[p])]
      BY <1>3, <2>1, Types DEF Recover
    <3>3. Moved(photo[p], Recovered(photo[p]))
      BY <1>1, <2>1, <3>1 DEF Recoverable, Recovered, Moved, Photo
    <3> QED BY <3>1, <3>2, <3>3, OneMoves
  <2>2. CASE ~Recoverable(p)
    BY <1>3, <2>2, Stays DEF Recover, AllMove
  <2> QED BY <2>1, <2>2
<1>4. ASSUME Remove(p) PROVE AllMove
  <2>1. Moved(photo[p], Removed(p))
    BY <1>1, <1>4 DEF Remove, Removed, Moved, Photo
  <2> QED BY <1>4, <2>1, OneMoves DEF Remove
<1>5. ASSUME AgeLease(p) PROVE AllMove
  <2> DEFINE x == [photo[p] EXCEPT !.lease = Older(@)]
  <2>1. photo' = [photo EXCEPT ![p] = x] /\ Moved(photo[p], x)
    BY <1>1, <1>5, Types DEF AgeLease, Moved, Photo, PhotoInv
  <2> HIDE DEF x
  <2> QED BY <1>5, <2>1, OneMoves DEF AgeLease
<1>6. ASSUME AgeDeletion(p) PROVE AllMove
  <2> DEFINE x == [photo[p] EXCEPT !.deleted = "old"]
  <2>1. photo' = [photo EXCEPT ![p] = x] /\ Moved(photo[p], x)
    BY <1>1, <1>6, Types DEF AgeDeletion, Moved, Photo, PhotoInv
  <2> HIDE DEF x
  <2> QED BY <1>6, <2>1, OneMoves DEF AgeDeletion
<1>7. ASSUME NEW c \in Cleaners, ClaimPhoto(c, p) PROVE AllMove
  <2> DEFINE x == [photo[p] EXCEPT !.status = "DELETED", !.attempted = TRUE,
                                   !.deleted = IF @ = None THEN "recent" ELSE @]
  <2>1. Exists(p) /\ ~photo[p].evidence
    BY <1>7 DEF ClaimPhoto, Candidate
  <2>2. photo' = [photo EXCEPT ![p] = x] /\ Moved(photo[p], x)
    BY <1>1, <1>7, <2>1, Types DEF ClaimPhoto, Moved, Photo
  <2> HIDE DEF x
  <2> QED BY <2>1, <2>2, OneMoves
<1> QED BY <1>2, <1>3, <1>4, <1>5, <1>6, <1>7

LEMMA ReserveMoves == ASSUME IInv, NEW p \in Photos, Reserve(p) PROVE AllMove
<1>1. \A q \in Photos \ {p} : photo'[q] = photo[q]
  BY Types DEF Reserve
<1> QED BY <1>1, Stays DEF AllMove, Moves

LEMMA ReferMoves ==
    ASSUME IInv, (\E d \in Drafts : Submit(d)) \/ (\E S \in SUBSET Photos : Report(S))
    PROVE  AllMove
<1>1. \A p \in Photos : Exists(p) => photo[p] \in Photo
  BY Types
<1>2. ASSUME NEW d \in Drafts, Submit(d), NEW p \in Photos PROVE Moves(p)
  <2>1. CASE p \in Completed(d)
    <3>1. /\ Exists(p) /\ photo[p].status = "READY" /\ photo[p] \in Photo
          /\ photo'[p] = [photo[p] EXCEPT !.evidence = TRUE]
      BY <1>1, <1>2, <2>1 DEF Submit, Completed, Owned
    <3> QED BY <3>1 DEF Moves, Moved, Photo
  <2>2. CASE p \notin Completed(d)
    BY <1>2, <2>2, Stays DEF Submit
  <2> QED BY <2>1, <2>2
<1>3. ASSUME NEW S \in SUBSET Photos, Report(S), NEW p \in Photos PROVE Moves(p)
  <2>1. CASE p \in S
    <3>1. /\ Exists(p) /\ photo[p].status = "READY" /\ photo[p] \in Photo
          /\ photo'[p] = [photo[p] EXCEPT !.lease = None, !.evidence = TRUE]
      BY <1>1, <1>3, <2>1 DEF Report
    <3> QED BY <3>1 DEF Moves, Moved, Photo
  <2>2. CASE p \notin S
    BY <1>3, <2>2, Stays DEF Report
  <2> QED BY <2>1, <2>2
<1> QED BY <1>2, <1>3 DEF AllMove

LEMMA AcknowledgeMoves == ASSUME IInv, NEW c \in Cleaners, Acknowledge(c) PROVE AllMove
<1>1. CASE ~Confirms(c)
  BY <1>1, Stays DEF Acknowledge, AllMove
<1>2. CASE Confirms(c)
  <2>1. PICK p \in Photos : p = cleaner[c].photo /\ Exists(p)
    BY DEF Acknowledge, IInv, CleanerInv, Erasing
  <2> DEFINE x == [photo[p] EXCEPT !.gone = TRUE]
  <2>2. photo[p] \in Photo /\ ~photo[p].evidence
    BY <1>2, <2>1, Types DEF Confirms
  <2>3. photo' = [photo EXCEPT ![p] = x] /\ Moved(photo[p], x)
    BY <1>2, <2>1, <2>2, Types DEF Acknowledge, Moved, Photo
  <2> HIDE DEF x
  <2> QED BY <2>1, <2>3, OneMoves
<1> QED BY <1>1, <1>2

LEMMA RowsMove == ASSUME IInv, [Next]_vars PROVE AllMove
<1>1. ASSUME UNCHANGED photo PROVE AllMove
  BY <1>1, Stays DEF AllMove
<1>2. CASE UNCHANGED vars
  BY <1>1, <1>2 DEF vars
<1>3. ASSUME NEW p \in Photos,
             \/ Reserve(p) \/ UploadStep(p) \/ Arrive(p) \/ UploadLost(p)
             \/ Remove(p) \/ RemoveErase(p) \/ AgeLease(p) \/ AgeDeletion(p)
      PROVE  AllMove
  <2>1. ASSUME Put(p) \/ PutLost(p) \/ FinalizeRefused(p) \/ UploadErase(p) \/ Arrive(p)
               \/ UploadLost(p) \/ RemoveErase(p)
        PROVE  UNCHANGED photo
    BY <2>1 DEF Put, PutLost, PutFails, FinalizeRefused, UploadErase, Arrive, UploadLost, RemoveErase
  <2> QED BY <1>1, <1>3, <2>1, PhotoMoves, ReserveMoves DEF UploadStep
<1>4. ASSUME NEW c \in Cleaners,
             \/ Begin(c) \/ CleanErase(c) \/ Acknowledge(c) \/ CleanFails(c) \/ CleanCrash(c)
             \/ \E p \in Photos : ClaimPhoto(c, p) \/ SkipPhoto(c, p)
      PROVE  AllMove
  <2>1. ASSUME Begin(c) \/ CleanErase(c) \/ CleanFails(c) \/ CleanCrash(c)
               \/ \E p \in Photos : SkipPhoto(c, p)
        PROVE  UNCHANGED photo
    BY <2>1 DEF Begin, CleanErase, CleanFails, CleanCrash, SkipPhoto
  <2> QED BY <1>1, <1>4, <2>1, PhotoMoves, AcknowledgeMoves
<1>5. ASSUME NEW d \in Drafts, Submit(d) \/ Resume(d) \/ HandOver(d) \/ AgeAccess(d)
      PROVE  AllMove
  BY <1>1, <1>5, ReferMoves DEF Resume, HandOver, AgeAccess
<1>6. ASSUME NEW S \in SUBSET Photos, Report(S) PROVE AllMove
  BY <1>6, ReferMoves
<1> QED BY <1>2, <1>3, <1>4, <1>5, <1>6 DEF Next

\* Only a reservation makes a photo count, and it counted the others before.
FewPhotos(d) == IsFiniteSet(Counted(d)) /\ Cardinality(Counted(d)) <= MaxPhotos

LEMMA Enough == ASSUME NEW A, NEW B, IsFiniteSet(A), B \subseteq A
                PROVE  IsFiniteSet(B) /\ Cardinality(B) <= Cardinality(A)
BY FS_Subset

LEMMA OneMore ==
    ASSUME NEW A, IsFiniteSet(A), NEW x
    PROVE  IsFiniteSet(A \cup {x}) /\ Cardinality(A \cup {x}) <= Cardinality(A) + 1
<1>1. Cardinality(A) \in Nat
  BY FS_CardinalityType
<1> QED BY <1>1, FS_AddElement

LEMMA LimitStep ==
    ASSUME IInv, [Next]_vars, NEW d \in Drafts, FewPhotos(d) PROVE FewPhotos(d)'
<1>1. Counted(d)' \subseteq Photos
  BY DEF Counted, Owned
<1>2. ASSUME NEW q \in Photos, q \in Counted(d)', ~Reserve(q) PROVE q \in Counted(d)
  <2>1. Exists(q)' /\ photo'[q].owner = d /\ photo'[q].status \in {"PENDING", "READY"}
    BY <1>2 DEF Counted, Owned
  <2>2. Exists(q) /\ Moved(photo[q], photo'[q])
    BY <1>2, <2>1, RowsMove DEF AllMove, Moves
  <2> QED BY <2>1, <2>2 DEF Moved, Counted, Owned
<1>3. CASE \A q \in Photos : ~Reserve(q)
  <2>1. Counted(d)' \subseteq Counted(d)
    BY <1>1, <1>2, <1>3
  <2>2. IsFiniteSet(Counted(d)') /\ Cardinality(Counted(d)') <= Cardinality(Counted(d))
    BY <2>1, Enough DEF FewPhotos
  <2>3. Cardinality(Counted(d)) \in Nat /\ Cardinality(Counted(d)') \in Nat
    BY <2>2, FS_CardinalityType DEF FewPhotos
  <2> QED BY <2>2, <2>3, MaxPhotosIsNat DEF FewPhotos
<1>4. ASSUME NEW p \in Photos, Reserve(p) PROVE FewPhotos(d)'
  <2>1. PICK o \in Drafts \cup {Guest} :
          /\ o \in Drafts => Cardinality(Counted(o)) < MaxPhotos
          /\ photo' = [photo EXCEPT ![p] =
                         [owner |-> o, status |-> "PENDING", lease |-> "fresh", deleted |-> None,
                          attempted |-> FALSE, gone |-> FALSE, evidence |-> FALSE]]
    BY <1>4 DEF Reserve
  <2>2. photo'[p].owner = o /\ \A q \in Photos \ {p} : photo'[q] = photo[q]
    BY <2>1, Types
  <2>3. \A q \in Photos \ {p} : q \in Counted(d)' => q \in Counted(d)
    BY <2>2 DEF Counted, Owned, Exists
  <2>4. Cardinality(Counted(d)) \in Nat
    BY FS_CardinalityType DEF FewPhotos
  <2>5. CASE o = d
    <3>1. /\ IsFiniteSet(Counted(d) \cup {p})
          /\ Cardinality(Counted(d) \cup {p}) <= Cardinality(Counted(d)) + 1
      BY OneMore DEF FewPhotos
    <3>2. Counted(d)' \subseteq Counted(d) \cup {p}
      BY <1>1, <2>3
    <3>3. /\ IsFiniteSet(Counted(d)')
          /\ Cardinality(Counted(d)') <= Cardinality(Counted(d) \cup {p})
      BY <3>1, <3>2, Enough
    <3>4. Cardinality(Counted(d)') \in Nat /\ Cardinality(Counted(d) \cup {p}) \in Nat
      BY <3>1, <3>3, FS_CardinalityType
    <3> QED BY <2>1, <2>4, <2>5, <3>1, <3>3, <3>4, MaxPhotosIsNat DEF FewPhotos
  <2>6. CASE o # d
    <3>1. p \notin Counted(d)'
      BY <2>2, <2>6 DEF Counted, Owned
    <3>2. Counted(d)' \subseteq Counted(d)
      BY <1>1, <2>3, <3>1
    <3>3. IsFiniteSet(Counted(d)') /\ Cardinality(Counted(d)') <= Cardinality(Counted(d))
      BY <3>2, Enough DEF FewPhotos
    <3>4. Cardinality(Counted(d)') \in Nat
      BY <3>3, FS_CardinalityType
    <3> QED BY <2>4, <3>3, <3>4, MaxPhotosIsNat DEF FewPhotos
  <2> QED BY <2>5, <2>6
<1> QED BY <1>3, <1>4

\* However many uploads race at the limit of a checklist, its pending and completed photos
\* stay within it (reservation in uploadPhoto()).
THEOREM LimitIsKept == Spec => []LimitKept
<1> DEFINE Few == \A d \in Drafts : FewPhotos(d)
<1>1. Init => Few
  <2> SUFFICES ASSUME Init, NEW d \in Drafts PROVE FewPhotos(d)
    OBVIOUS
  <2>1. Counted(d) = {}
    BY DEF Init, Counted, Owned, Exists
  <2> QED BY <2>1, FS_EmptySet, MaxPhotosIsNat DEF FewPhotos
<1>2. IInv /\ Few /\ [Next]_vars => Few'
  BY LimitStep
<1>3. Few => LimitKept
  BY DEF FewPhotos, LimitKept
<1> QED BY <1>1, <1>2, <1>3, Invariant, PTL DEF Spec

--------------------------------------------------------------------------------
\* A submitted checklist stays so, and nothing is reserved for it any more.
LEMMA LeftBehindStep == ASSUME IInv, NoPhotoLeftBehind, [Next]_vars PROVE NoPhotoLeftBehind'
<1> SUFFICES ASSUME NEW d \in Drafts, draft'[d].status = "SUBMITTED", NEW p \in Photos, p \in Counted(d)'
             PROVE  photo'[p].status = "READY" /\ photo'[p].evidence
  BY DEF NoPhotoLeftBehind, Counted, Owned
<1>1. Exists(p)' /\ photo'[p].owner = d /\ photo'[p].status \in {"PENDING", "READY"}
  BY DEF Counted, Owned
<1>2. CASE Submit(d)
  <2>1. /\ draft[d].status = "DRAFT" /\ Uploading(d) = {}
        /\ photo'[p] = IF p \in Completed(d) THEN [photo[p] EXCEPT !.evidence = TRUE] ELSE photo[p]
    BY <1>2 DEF Submit, Accessible
  <2>2. Exists(p) => photo[p] \in Photo
    BY Types
  <2>3. CASE p \in Completed(d)
    BY <2>1, <2>2, <2>3 DEF Completed, Owned, Photo
  <2>4. CASE p \notin Completed(d)
    BY <1>1, <2>1, <2>4 DEF Uploading, Completed, Owned, Exists
  <2> QED BY <2>3, <2>4
<1>3. CASE ~Submit(d)
  <2>1. draft[d].status = "SUBMITTED"
    <3>1. draft \in [Drafts -> Draft]
      BY DEF IInv, TypeOK
    <3>2. CASE UNCHANGED draft
      BY <3>2
    <3>3. ASSUME NEW e \in Drafts, Submit(e) PROVE draft[d].status = "SUBMITTED"
      BY <1>3, <3>1, <3>3 DEF Submit
    <3>4. ASSUME NEW e \in Drafts, Resume(e) \/ HandOver(e) \/ AgeAccess(e)
          PROVE  draft[d].status = "SUBMITTED"
      BY <3>1, <3>4 DEF Resume, HandOver, AgeAccess, Draft
    <3>5. ASSUME NEW q \in Photos,
                 \/ Reserve(q) \/ UploadStep(q) \/ Arrive(q) \/ UploadLost(q)
                 \/ Remove(q) \/ RemoveErase(q) \/ AgeLease(q) \/ AgeDeletion(q)
          PROVE  UNCHANGED draft
      BY <3>5 DEF Reserve, UploadStep, Put, PutLost, PutFails, Finalize, FinalizeRefused, Recover,
         UploadErase, Arrive, UploadLost, Remove, RemoveErase, AgeLease, AgeDeletion
    <3>6. ASSUME NEW c \in Cleaners,
                 \/ Begin(c) \/ CleanErase(c) \/ Acknowledge(c) \/ CleanFails(c) \/ CleanCrash(c)
                 \/ \E q \in Photos : ClaimPhoto(c, q) \/ SkipPhoto(c, q)
          PROVE  UNCHANGED draft
      BY <3>6 DEF Begin, CleanErase, Acknowledge, CleanFails, CleanCrash, ClaimPhoto, SkipPhoto
    <3>7. ASSUME NEW S \in SUBSET Photos, Report(S) PROVE UNCHANGED draft
      BY <3>7 DEF Report
    <3>8. CASE UNCHANGED vars
      BY <3>2, <3>8 DEF vars
    <3> QED BY <3>2, <3>3, <3>4, <3>5, <3>6, <3>7, <3>8 DEF Next
  <2>2. ~Reserve(p)
    <3> SUFFICES ASSUME Reserve(p) PROVE FALSE
      OBVIOUS
    <3>1. PICK o \in Drafts \cup {Guest} :
            /\ Accessible(o)
            /\ photo' = [photo EXCEPT ![p] =
                           [owner |-> o, status |-> "PENDING", lease |-> "fresh", deleted |-> None,
                            attempted |-> FALSE, gone |-> FALSE, evidence |-> FALSE]]
      BY DEF Reserve
    <3>2. o = d
      BY <1>1, <3>1, Types
    <3> QED BY <2>1, <3>1, <3>2 DEF Accessible
  <2>3. Exists(p) /\ Moved(photo[p], photo'[p])
    BY <1>1, <2>2, RowsMove DEF AllMove, Moves
  <2>4. p \in Counted(d)
    BY <1>1, <2>3 DEF Moved, Counted, Owned
  <2>5. photo[p].evidence
    BY <2>1, <2>4 DEF NoPhotoLeftBehind
  <2> QED BY <2>3, <2>5 DEF Moved
<1> QED BY <1>2, <1>3

\* Every photo uploaded for a checklist, or still being uploaded, is referred to by its
\* submission: nothing is left behind (checkPhotos() in submitChecklist()).
THEOREM NothingLeftBehind == Spec => []NoPhotoLeftBehind
<1>1. Init => NoPhotoLeftBehind
  BY DEF Init, NoPhotoLeftBehind
<1> QED BY <1>1, LeftBehindStep, Invariant, PTL DEF Spec

--------------------------------------------------------------------------------
\* An upload that has put its bytes, or still may, and has not dealt with them; or a put
\* that arrived after all.
Undone(p) == upload[p] \in {"put", "finalize", "recover", "lost"} \/ late[p] = "arrived"

\* Confirmed deletions, and those that a run is about to confirm.
Gone(p) == Exists(p) /\ photo[p].gone
Waits(c) == cleaner[c].pc = "acknowledge" /\ cleaner[c].unchanged
DeletionsInv ==
    /\ \A p \in Photos : Gone(p) /\ p \in objects => Undone(p)
    /\ \A c \in Cleaners : Waits(c) /\ cleaner[c].photo \in objects => Undone(cleaner[c].photo)

Deals(p) == Finalize(p) \/ Recover(p)
PutsUndone(p) ==
    /\ p \in objects' => p \in objects \/ Undone(p)'
    /\ Undone(p) => Undone(p)' \/ Deals(p)

\* Bytes come by an upload that is not done with them, and it stays so until it deals with them.
LEMMA BytesCome == ASSUME IInv, [Next]_vars, NEW p \in Photos PROVE PutsUndone(p)
<1> USE DEF PutsUndone, Undone
<1>1. upload \in [Photos -> Places] /\ late \in [Photos -> {"none", "sent", "arrived"}]
  BY Types DEF IInv, TypeOK
<1>2. CASE UNCHANGED vars
  BY <1>2 DEF vars
<1>3. ASSUME NEW q \in Photos,
             \/ Reserve(q) \/ UploadStep(q) \/ Arrive(q) \/ UploadLost(q)
             \/ Remove(q) \/ RemoveErase(q) \/ AgeLease(q) \/ AgeDeletion(q)
      PROVE  PutsUndone(p)
  <2>1. ASSUME Reserve(q) \/ Put(q) \/ FinalizeRefused(q) \/ Arrive(q) PROVE PutsUndone(p)
    BY <1>1, <2>1 DEF Reserve, Put, FinalizeRefused, Arrive
  <2>2. ASSUME NEW next \in {"recover", "lost"}, upload[q] = "put", PutFails(q, next)
        PROVE  PutsUndone(p)
    BY <1>1, <2>2 DEF PutFails
  <2>3. ASSUME Finalize(q) PROVE PutsUndone(p)
    BY <1>1, <2>3 DEF Finalize, Deals
  <2>4. ASSUME Recover(q) PROVE PutsUndone(p)
    BY <1>1, <2>4 DEF Recover, Deals
  <2>5. ASSUME UploadErase(q) PROVE PutsUndone(p)
    BY <1>1, <2>5 DEF UploadErase, Erase, EraseFails
  <2>6. ASSUME UploadLost(q) PROVE PutsUndone(p)
    BY <1>1, <2>2, <2>6 DEF UploadLost
  <2>7. ASSUME Remove(q) \/ RemoveErase(q) \/ AgeLease(q) \/ AgeDeletion(q) PROVE PutsUndone(p)
    BY <2>7 DEF Remove, RemoveErase, AgeLease, AgeDeletion, Erase, EraseFails
  <2> QED BY <1>3, <2>1, <2>2, <2>3, <2>4, <2>5, <2>6, <2>7 DEF UploadStep, PutLost
<1>4. ASSUME NEW c \in Cleaners,
             \/ Begin(c) \/ CleanErase(c) \/ Acknowledge(c) \/ CleanFails(c) \/ CleanCrash(c)
             \/ \E q \in Photos : ClaimPhoto(c, q) \/ SkipPhoto(c, q)
      PROVE  PutsUndone(p)
  BY <1>4 DEF Begin, CleanErase, Acknowledge, CleanFails, CleanCrash, ClaimPhoto, SkipPhoto, Erase
<1>5. ASSUME NEW d \in Drafts, Submit(d) \/ Resume(d) \/ HandOver(d) \/ AgeAccess(d)
      PROVE  PutsUndone(p)
  BY <1>5 DEF Submit, Resume, HandOver, AgeAccess
<1>6. ASSUME NEW S \in SUBSET Photos, Report(S) PROVE PutsUndone(p)
  BY <1>6 DEF Report
<1> QED BY <1>2, <1>3, <1>4, <1>5, <1>6 DEF Next

\* An upload that deals with a photo leaves it unconfirmed.
LEMMA DealsUnconfirmed ==
    ASSUME IInv, NEW p \in Photos, Deals(p)
    PROVE  /\ ~(Exists(p)' /\ photo'[p].gone)
           /\ \A c \in Cleaners : cleaner[c].pc \in Erasing /\ cleaner[c].photo = p =>
                cleaner' = Advance(p)
<1>1. Exists(p) /\ PhotoInv(p) /\ photo[p] \in Photo /\ photo \in [Photos -> Photo \cup {None}]
  BY Types DEF Deals, Finalize, Recover, PhotoInv
<1>2. ASSUME Finalize(p) PROVE photo[p].status = "PENDING" /\ photo'[p].gone = photo[p].gone
  BY <1>1, <1>2 DEF Finalize, Photo
<1>3. ASSUME Recover(p), ~Recoverable(p)
      PROVE  photo[p].status = "READY" /\ photo' = photo
  BY <1>1, <1>3 DEF Recover, Recoverable, PhotoInv, Photo
<1>4. ASSUME Recover(p), Recoverable(p) PROVE ~photo'[p].gone /\ cleaner' = Advance(p)
  BY <1>1, <1>4 DEF Recover, Recovered, Photo
<1>5. \A c \in Cleaners : cleaner[c].pc \in Erasing /\ cleaner[c].photo = p => photo[p].status = "DELETED"
  BY DEF IInv, CleanerInv
<1>6. photo[p].gone => photo[p].status = "DELETED"
  BY <1>1, Types
<1> QED BY <1>2, <1>3, <1>4, <1>5, <1>6 DEF Deals

\* A deletion is confirmed by the run that waits for it, and stays confirmed.
LEMMA GoneBy ==
    ASSUME IInv, [Next]_vars, NEW p \in Photos, Gone(p)'
    PROVE  Gone(p) \/ \E c \in Cleaners : Waits(c) /\ cleaner[c].photo = p
<1>1. Exists(p) => photo[p] \in Photo
  BY Types
<1>2. photo \in [Photos -> Photo \cup {None}]
  BY DEF IInv, TypeOK
<1>3. ASSUME photo'[p] = photo[p] PROVE Gone(p)
  BY <1>3 DEF Gone, Exists
<1>4. CASE UNCHANGED vars
  BY <1>3, <1>4 DEF vars
<1>5. ASSUME NEW q \in Photos,
             \/ Reserve(q) \/ UploadStep(q) \/ Arrive(q) \/ UploadLost(q)
             \/ Remove(q) \/ RemoveErase(q) \/ AgeLease(q) \/ AgeDeletion(q)
      PROVE  Gone(p)
  <2>1. ASSUME Put(q) \/ PutLost(q) \/ FinalizeRefused(q) \/ UploadErase(q) \/ Arrive(q)
               \/ UploadLost(q) \/ RemoveErase(q)
        PROVE  UNCHANGED photo
    BY <2>1 DEF Put, PutLost, PutFails, FinalizeRefused, UploadErase, Arrive, UploadLost, RemoveErase
  <2>2. ASSUME Reserve(q) PROVE Gone(p)
    BY <1>2, <1>3, <2>2 DEF Reserve, Gone
  <2>3. ASSUME Deals(q) PROVE Gone(p)
    <3>1. q # p
      BY <2>3, DealsUnconfirmed DEF Gone
    <3> QED BY <1>2, <1>3, <2>3, <3>1 DEF Deals, Finalize, Recover
  <2>4. ASSUME Remove(q) \/ AgeLease(q) \/ AgeDeletion(q) PROVE Gone(p)
    <3>1. CASE q = p
      <4>1. Exists(p) /\ photo[p] \in Photo
        BY <1>1, <2>4, <3>1 DEF Remove, AgeLease, AgeDeletion
      <4>2. CASE Remove(p)
        <5>1. photo'[p] = Removed(p) /\ Removed(p).gone = photo[p].gone
          BY <1>2, <4>1, <4>2 DEF Remove, Removed, Photo
        <5> QED BY <4>1, <5>1 DEF Gone
      <4>3. CASE AgeLease(p)
        BY <1>2, <4>1, <4>3 DEF AgeLease, Gone, Photo
      <4>4. CASE AgeDeletion(p)
        BY <1>2, <4>1, <4>4 DEF AgeDeletion, Gone, Photo
      <4> QED BY <2>4, <3>1, <4>2, <4>3, <4>4
    <3>2. CASE q # p
      BY <1>2, <1>3, <2>4, <3>2 DEF Remove, AgeLease, AgeDeletion
    <3> QED BY <3>1, <3>2
  <2> QED BY <1>3, <1>5, <2>1, <2>2, <2>3, <2>4 DEF UploadStep, Deals
<1>6. ASSUME NEW c \in Cleaners, Acknowledge(c)
      PROVE  Gone(p) \/ (Waits(c) /\ cleaner[c].photo = p)
  BY <1>2, <1>3, <1>6 DEF Acknowledge, Confirms, Waits
<1>7. ASSUME NEW c \in Cleaners, NEW q \in Photos, ClaimPhoto(c, q) PROVE Gone(p)
  <2>1. CASE q = p
    BY <1>1, <1>2, <1>7, <2>1 DEF ClaimPhoto, Candidate, Gone, Photo
  <2>2. CASE q # p
    BY <1>2, <1>3, <1>7, <2>2 DEF ClaimPhoto
  <2> QED BY <2>1, <2>2
<1>8. ASSUME NEW c \in Cleaners,
             \/ Begin(c) \/ CleanErase(c) \/ CleanFails(c) \/ CleanCrash(c)
             \/ \E q \in Photos : SkipPhoto(c, q)
      PROVE  Gone(p)
  BY <1>3, <1>8 DEF Begin, CleanErase, CleanFails, CleanCrash, SkipPhoto
<1>9. ASSUME NEW d \in Drafts, Submit(d) \/ Resume(d) \/ HandOver(d) \/ AgeAccess(d) PROVE Gone(p)
  <2>1. CASE Submit(d)
    <3>1. \A q \in Completed(d) : photo[q] \in Photo
      BY Types DEF Completed, Owned
    <3> QED BY <1>3, <2>1, <3>1 DEF Submit, Completed, Owned, Gone, Photo
  <2>2. CASE ~Submit(d)
    BY <1>3, <1>9, <2>2 DEF Resume, HandOver, AgeAccess
  <2> QED BY <2>1, <2>2
<1>10. ASSUME NEW S \in SUBSET Photos, Report(S) PROVE Gone(p)
  BY <1>1, <1>3, <1>10 DEF Report, Gone, Photo
<1> QED BY <1>4, <1>5, <1>6, <1>7, <1>8, <1>9, <1>10 DEF Next

\* A run waits for the photo it has just deleted, or for the one it waited for, which no
\* upload has dealt with in between.
LEMMA WaitsFor ==
    ASSUME IInv, [Next]_vars, NEW c \in Cleaners, Waits(c)'
    PROVE  \/ cleaner'[c].photo \notin objects'
           \/ /\ Waits(c) /\ cleaner'[c].photo = cleaner[c].photo
              /\ ~Deals(cleaner[c].photo)
<1>1. cleaner \in [Cleaners -> Cleaner]
  BY DEF IInv, TypeOK
<1>2. ASSUME cleaner'[c] = cleaner[c]
      PROVE  Waits(c) /\ cleaner'[c].photo = cleaner[c].photo /\ ~Deals(cleaner[c].photo)
  <2>1. Waits(c) /\ cleaner[c].pc \in Erasing /\ cleaner[c].photo \in Photos
    BY <1>2 DEF Waits, Erasing, IInv, CleanerInv
  <2>2. cleaner' = Advance(cleaner[c].photo) => ~cleaner'[c].unchanged
    BY <1>1 DEF Advance, Cleaner
  <2> QED BY <1>2, <2>1, <2>2, DealsUnconfirmed DEF Waits
<1>3. ASSUME NEW q \in Photos, cleaner' = Advance(q) PROVE cleaner'[c] = cleaner[c]
  BY <1>1, <1>3 DEF Advance, Waits, Cleaner
<1>4. CASE UNCHANGED vars
  BY <1>2, <1>4 DEF vars
<1>5. ASSUME NEW q \in Photos,
             \/ Reserve(q) \/ UploadStep(q) \/ Arrive(q) \/ UploadLost(q)
             \/ Remove(q) \/ RemoveErase(q) \/ AgeLease(q) \/ AgeDeletion(q)
      PROVE  cleaner'[c] = cleaner[c]
  <2>1. CASE Recover(q)
    BY <1>3, <2>1 DEF Recover
  <2>2. CASE ~Recover(q)
    BY <1>5, <2>2 DEF Reserve, UploadStep, Put, PutLost, PutFails, Finalize, FinalizeRefused,
       UploadErase, Arrive, UploadLost, Remove, RemoveErase, AgeLease, AgeDeletion
  <2> QED BY <2>1, <2>2
<1>6. ASSUME NEW e \in Cleaners, CleanErase(e)
      PROVE  cleaner'[c].photo \notin objects' \/ cleaner'[c] = cleaner[c]
  BY <1>1, <1>6 DEF CleanErase, Erase, Cleaner
<1>7. ASSUME NEW e \in Cleaners, NEW q \in Photos, ClaimPhoto(e, q) PROVE cleaner'[c] = cleaner[c]
  <2>1. cleaner' = [Advance(q) EXCEPT ![e] = [cleaner[e] EXCEPT !.pc = "erase", !.photo = q,
                                                                !.unchanged = TRUE]]
    BY <1>7 DEF ClaimPhoto
  <2>2. Advance(q) \in [Cleaners -> Cleaner]
    BY Advanced DEF IInv
  <2>3. [cleaner[e] EXCEPT !.pc = "erase", !.photo = q, !.unchanged = TRUE].pc = "erase"
    BY <1>1 DEF Cleaner
  <2>4. c # e
    BY <2>1, <2>2, <2>3 DEF Waits
  <2>5. cleaner'[c] = Advance(q)[c]
    BY <2>1, <2>2, <2>4
  <2> QED BY <1>1, <2>5 DEF Advance, Waits, Cleaner
<1>8. ASSUME NEW e \in Cleaners,
             \/ Begin(e) \/ Acknowledge(e) \/ CleanFails(e) \/ CleanCrash(e)
             \/ \E q \in Photos : SkipPhoto(e, q)
      PROVE  cleaner'[c] = cleaner[c]
  <2>1. \A q : NextPhoto(e, q).pc # "acknowledge"
    BY NextPhotoType DEF IInv, Erasing
  <2>2. [NoRun EXCEPT !.pc = "next", !.batch = {q \in Photos : Candidate(q)}].pc = "next"
    BY DEF NoRun
  <2>3. PICK r : cleaner' = [cleaner EXCEPT ![e] = r] /\ r.pc # "acknowledge"
    <3>1. CASE Begin(e)
      <4> DEFINE r == [NoRun EXCEPT !.pc = "next", !.batch = {q \in Photos : Candidate(q)}]
      <4>1. cleaner' = [cleaner EXCEPT ![e] = r] /\ r.pc # "acknowledge"
        BY <2>2, <3>1 DEF Begin
      <4> HIDE DEF r
      <4> QED BY <4>1
    <3>2. CASE CleanCrash(e)
      <4>1. cleaner' = [cleaner EXCEPT ![e] = NoRun] /\ NoRun.pc # "acknowledge"
        BY <3>2 DEF CleanCrash, NoRun
      <4> QED BY <4>1
    <3>3. ASSUME NEW q, cleaner' = [cleaner EXCEPT ![e] = NextPhoto(e, q)]
          PROVE  \E r : cleaner' = [cleaner EXCEPT ![e] = r] /\ r.pc # "acknowledge"
      BY <2>1, <3>3
    <3> QED BY <1>8, <3>1, <3>2, <3>3 DEF Acknowledge, CleanFails, SkipPhoto
  <2> QED BY <1>1, <2>3 DEF Waits
<1>9. ASSUME NEW d \in Drafts, Submit(d) \/ Resume(d) \/ HandOver(d) \/ AgeAccess(d)
      PROVE  cleaner'[c] = cleaner[c]
  BY <1>9 DEF Submit, Resume, HandOver, AgeAccess
<1>10. ASSUME NEW S \in SUBSET Photos, Report(S) PROVE cleaner'[c] = cleaner[c]
  BY <1>10 DEF Report
<1> QED BY <1>2, <1>4, <1>5, <1>6, <1>7, <1>8, <1>9, <1>10 DEF Next

LEMMA DeletionsStep == ASSUME IInv, DeletionsInv, [Next]_vars PROVE DeletionsInv'
<1>1. ASSUME NEW p \in Photos, Gone(p)', p \in objects' PROVE Undone(p)'
  <2>1. Gone(p) \/ \E c \in Cleaners : Waits(c) /\ cleaner[c].photo = p
    BY <1>1, GoneBy
  <2>2. p \in objects => Undone(p)
    BY <2>1 DEF DeletionsInv
  <2>3. ~Deals(p)
    BY <1>1, DealsUnconfirmed DEF Gone
  <2> QED BY <1>1, <2>2, <2>3, BytesCome DEF PutsUndone
<1>2. ASSUME NEW c \in Cleaners, Waits(c)', cleaner'[c].photo \in objects'
      PROVE  Undone(cleaner[c].photo)'
  <2> DEFINE p == cleaner[c].photo
  <2>1. Waits(c) /\ cleaner'[c].photo = p /\ ~Deals(p)
    BY <1>2, WaitsFor
  <2>2. p \in Photos
    BY <2>1 DEF Waits, Erasing, IInv, CleanerInv
  <2>3. p \in objects => Undone(p)
    BY <2>1 DEF DeletionsInv
  <2>4. p \in objects' => Undone(p)' \/ (upload'[p] \in {"put", "finalize", "recover", "lost"} \/ late'[p] = "arrived")
    BY <2>1, <2>2, <2>3, BytesCome DEF PutsUndone, Undone
  <2> QED BY <1>2, <2>1, <2>4 DEF Undone
<1> QED BY <1>1, <1>2 DEF DeletionsInv

\* The bytes of a deletion that was confirmed only come back by an upload that will reopen
\* it, by one that died, or late (acknowledgment of the cleanup, recoverPhotoUpload()).
THEOREM DeletionsStayTrue == Spec => []ConfirmedDeletions
<1>1. Init => DeletionsInv
  BY DEF Init, DeletionsInv, Gone, Exists
<1>2. DeletionsInv => ConfirmedDeletions
  BY DEF DeletionsInv, ConfirmedDeletions, Gone, Undone
<1> QED BY <1>1, <1>2, DeletionsStep, Invariant, PTL DEF Spec

================================================================================
