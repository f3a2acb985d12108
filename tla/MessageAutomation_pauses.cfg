SPECIFICATION Spec
CONSTANTS
    Stays = {s1}
    Tasks = {}
    Reminders = {"CHECKIN"}
    Workers = {w1, w2}
    Contents = {c1}
    Lateness = 1
    MaxTime = 1
    MaxEdits = 1
    MaxKey = 1
    MaxFaults = 0
    MaxPauses = 1
    Results = {}
    None = None
CONSTRAINT OneChange
SYMMETRY Symmetry
PROPERTIES SentAsScheduled
