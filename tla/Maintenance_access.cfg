SPECIFICATION Spec
CONSTANTS
    Properties = {p1, p2}
    Definitions = {d1, d2}
    None = None
    MaxVersion = 3
    Staff = {w1, w2}
    Sheets = {s1}
    MaxSaves = 3
    MaxPublished = 3
SYMMETRY Symmetry
CONSTRAINT Small
INVARIANTS HistoryIsTrue BackfillIsTrue CompletedStaysCompleted ListMatchesLinks
PROPERTIES RevokedStaysClosed
CHECK_DEADLOCK FALSE
