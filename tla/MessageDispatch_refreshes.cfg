SPECIFICATION FairSpec
CONSTANTS
    Notices = {n1}
    Keys = {k1}
    Calls = {c1}
    Refreshers = {r1, r2}
    Details = {d1}
    MaxEvent = 0
    None = None
INVARIANTS TruthfulRows
PROPERTIES NoRegression SendingEnds
