----------------------------- MODULE MCCleaningWork -----------------------------
(* An instance of GuestCodes for TLC.                                      *)
EXTENDS GuestCodes, TLC, FiniteSetsExt

CONSTANT MaxChanges

\* A reservation, the next one, one that overlaps it, and one that ends as it starts.
TwoStaysInTurn == {<<0, 1>>, <<2, 3>>, <<1, 3>>, <<1, 1>>}

Symmetry == Permutations(Stays) \cup Permutations(Staff) \cup Permutations(Codes)
            \cup Permutations(Submissions)

\* Bound: how often something was changed that was there before, and how much is unusual.
If(condition) == IF condition THEN 1 ELSE 0
Again(version) == IF version = 0 THEN 0 ELSE version - 1
Changes ==
    MapThenSumSet(LAMBDA s : stay[s].revision - 1 + CodeVersion(s), {s \in Stays : Booked(s)})
    + MapThenSumSet(LAMBDA t : If(task[t].moved) + If(Deliberate(t)) + If(t \in Extra),
                    {t \in Tasks : Exists(t)})
    + MapThenSumSet(LAMBDA d : If(draft[d].revised), {d \in Submissions : draft[d] # None})
    + Again(SettingsVersion) + Again(qrs) + Again(links)
    + If(~open) + If(staff = None) + If(active # Staff)
FewChanges == Changes <= MaxChanges
================================================================================
