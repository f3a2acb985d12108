SPECIFICATION Spec
CONSTANTS
    Notices = {n1}
    Keys = {k1, k2}
    Calls = {c1, c2}
    Refreshers = {r1}
    Details = {d1}
    MaxEvent = 1
    None = None
SYMMETRY Symmetry
INVARIANTS OneNoticePerEvent OneSubmissionPerKey
PROPERTIES CheckedBeforeSend
