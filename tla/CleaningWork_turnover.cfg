SPECIFICATION Spec
CONSTANTS
    Stays = {s1, s2}
    Legacy = {s1, s2}
    Extra = {x1}
    Submissions = {d1, d2}
    Guests = {g1}
    Periods <- TwoStaysInTurn
    MaxTime = 1
    Day = 1
    MaxRevision = 3
    MaxVersion = 3
    None = None
    Staff = {u1, u2}
    Codes = {k1, k2}
    MaxCode = 2
    MaxLinks = 2
    Lead = 1
    MaxChanges = 2
SYMMETRY Symmetry
CONSTRAINT FewChanges
INVARIANTS TaskFollowsStay OneOpenDraft UnreviewedCodeIsCurrent
PROPERTIES WorkImplementsBookings LinksStayClosed RevealedAsAnnounced
CHECK_DEADLOCK FALSE
