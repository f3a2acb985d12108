----------------------------- MODULE MCStayImports -----------------------------
(* An instance of StayImports for TLC.                                       *)
EXTENDS StayImports, TLC, FiniteSetsExt

CONSTANTS g1, MaxChanges

\* A reservation, the next one, and one that overlaps both.
Rosters == {<<0, 1>>, <<1, 2>>, <<0, 2>>}

\* Guests of the first and of both periods, a doubtful one, two who are not complete, and a note.
Guest(cells, here, in, out) == Parsed(cells, here, in, out, g1)
Sheet == {Guest("CLEAR", TRUE, 0, 1), Guest("CLEAR", TRUE, 1, 2), Guest("UNCLEAR", TRUE, 0, 2),
          Guest("UNTIMED", TRUE, 0, 2), Guest("CLEAR", FALSE, 0, 1), Skipped(Guest("UNUSABLE", TRUE, 0, 1))}

Symmetry == Permutations(Stays) \cup Permutations(Rows)

\* Bound: how often reservations, tasks and the property were changed.
If(condition) == IF condition THEN 1 ELSE 0
Changes ==
    MapThenSumSet(LAMBDA s : stay[s].revision - 1, {s \in Stays : Booked(s)})
    + MapThenSumSet(LAMBDA t : If(task[t].moved) + If(Deliberate(t)) + If(task[t].submission # None),
                    {t \in Tasks : Exists(t)})
    + If(~open)
FewChanges == Changes <= MaxChanges
================================================================================
