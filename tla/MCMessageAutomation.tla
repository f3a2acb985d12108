-------------------------- MODULE MCMessageAutomation --------------------------
(* Instances of MessageAutomation for TLC.                                   *)
EXTENDS MessageAutomation, TLC

\* Runners and contents are interchangeable.
Symmetry == Permutations(Workers) \cup Permutations(Contents)

\* Bound: one change of a reservation or of the key; the key changes without pauses.
OneChange == edits + key + (IF key > 0 THEN pauses ELSE 0) <= 1
================================================================================
