SPECIFICATION FairSpec
CONSTANTS
    Photos = {p1}
    Drafts = {d1, t1}
    TaskDrafts = {t1}
    Guest = Guest
    Cleaners = {c1}
    MaxPhotos = 1
    None = None
INVARIANTS EvidenceIsStored ConfirmedDeletions NoPhotoLeftBehind
PROPERTIES PhotosSettle
CHECK_DEADLOCK FALSE
