-------------------------------- MODULE MCIssues --------------------------------
(* An instance of Issues for TLC: guests' reports of a problem, urgent or not.            *)
EXTENDS Issues, TLC, FiniteSetsExt

CONSTANTS i1, i2, i3, MaxActions

Keys == Permutations(GuestKeys)

\* Bound: how often administrators acted.
FewActions == MapThenSumSet(LAMBDA i : issues[i].version - 1, {i \in IssueIds : Reported(i)}) <= MaxActions
================================================================================
