----------------------------- MODULE MCPhotoUploads -----------------------------
(* Instances of PhotoUploads for TLC.                                        *)
EXTENDS PhotoUploads, TLC

\* Photos, and runs of the cleanup command, are interchangeable.
Symmetry == Permutations(Photos) \cup Permutations(Cleaners)
================================================================================
