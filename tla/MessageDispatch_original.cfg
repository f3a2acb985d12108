SPECIFICATION Spec
CONSTANTS
    Notices = {n1}
    Keys = {k1, k2}
    Calls = {c1, c2}
    Refreshers = {}
    Details = {d1}
    MaxEvent = 0
    None = None
SYMMETRY Symmetry
PROPERTIES OriginalKeyReturnsItsOutcome
