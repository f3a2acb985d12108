--------------------------- MODULE MCMessageDispatch ---------------------------
(* Instances of MessageDispatch for TLC.                                     *)
EXTENDS MessageDispatch, TLC

\* Keys, executions of dispatch() and refreshes are interchangeable.
Symmetry == Permutations(Keys) \cup Permutations(Calls) \cup Permutations(Refreshers)
================================================================================
