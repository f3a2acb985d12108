SPECIFICATION FairSpec
CONSTANTS
    Stays = {}
    Tasks = {t1}
    Reminders = {}
    Workers = {w1}
    Contents = {c1, c2}
    Lateness = 0
    MaxTime = 1
    MaxEdits = 1
    MaxKey = 0
    MaxFaults = 1
    MaxPauses = 0
    Results = {"ACCEPTED", "UNKNOWN"}
    None = None
INVARIANTS TruthfulJobs QueuedEventsAreCurrent
PROPERTIES AttemptsAreRecorded LateJobsEnd ChangesAreNoticed
