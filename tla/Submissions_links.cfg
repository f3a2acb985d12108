SPECIFICATION Spec
CONSTANTS
    None = None
    Submissions = {s1, s2}
    Items = {i1}
    Required = {}
    Types = {"CHECK_IN"}
    Stays = {x1}
    ChecklistIds <- AllItems
    GuestKeys = {}
    Texts = {}
    Categories = {c1}
    Names = {n1}
    Fallback = n1
    Admins = {a1}
    Reasons = {why}
    MaxDepth = 1
    MaxVersion = 4
    MaxTime = 0
    MaxClock = 1
    MaxRevision = 3
    MaxLinks = 2
    s1 = s1
    s2 = s2
    i1 = i1
    t1 = t1
    t2 = t2
    c1 = c1
    n1 = n1
    a1 = a1
    x1 = x1
    MaxRequests = 6
SYMMETRY Symmetry
CONSTRAINT FewRequests
INVARIANTS LinksAreDeliberate CalendarIsTrue
PROPERTIES InvitationsStayClosed
CHECK_DEADLOCK FALSE
