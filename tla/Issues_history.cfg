SPECIFICATION IssuesSpec
CONSTANTS
    i1 = i1
    i2 = i2
    i3 = i3
    None = None
    ChecklistIds = {}
    GuestKeys = {i1, i2, i3}
    Texts = {text}
    Categories = {c1}
    Names = {n1}
    Fallback = n1
    Admins = {a1}
    Reasons = {why}
    MaxDepth = 2
    MaxVersion = 3
    MaxTime = 1
    MaxActions = 3
SYMMETRY Keys
CONSTRAINT FewActions
INVARIANTS HistoryMatches RepliesAreTrue NoRecurrenceCycle OfferedIsAccepted
CHECK_DEADLOCK FALSE
