------------------------------ MODULE MCMaintenance ------------------------------
(* An instance of Maintenance for TLC: two properties, two staff members.                 *)
EXTENDS Maintenance, TLC, FiniteSetsExt

CONSTANTS MaxPublished  \* bound: versions of all templates

Symmetry == Permutations(Properties) \cup Permutations(Staff)

\* Bounds: the command is not run where staff is put on duty, no old process is left there, and
\* one property has a template.
Rollout == backfill.phase # "idle" \/ legacy
OffDuty == staff = [p \in Properties |-> None] /\ issued = {} /\ active = Staff /\ open = Properties
Small ==
    /\ Rollout => OffDuty
    /\ MapThenSumSet(LAMBDA p : template[p].version, Made) <= MaxPublished
    /\ ~OffDuty => Cardinality(Made) <= 1 /\ \A p \in Made : ArchivedCurrent(p) /\ template[p].version <= 2
================================================================================
