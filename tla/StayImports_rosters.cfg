SPECIFICATION Spec
CONSTANTS
    Stays = {s1, s2, s3}
    Legacy = {}
    Extra = {}
    Submissions = {}
    g1 = g1
    Guests = {g1}
    Roster <- Sheet
    Periods <- Rosters
    MaxTime = 1
    Day = 1
    MaxRevision = 2
    MaxVersion = 1
    None = None
    Batches = {b1}
    Rows = {r1, r2}
    MaxReviews = 2
    MaxChanges = 1
SYMMETRY Symmetry
CONSTRAINT FewChanges
INVARIANTS NoDoubleBooking SourceIsKept RegisteredAsShown
CHECK_DEADLOCK FALSE
