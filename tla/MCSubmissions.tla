----------------------------- MODULE MCSubmissions -----------------------------
(* Instances of Submissions for TLC.                                         *)
EXTENDS Readers, TLC, FiniteSetsExt

CONSTANTS s1, s2, i1, t1, t2, c1, n1, a1, x1, MaxRequests

AllItems == Submissions \X Items
Symmetry == Permutations(Submissions) \cup Permutations(Texts)

\* Bound: how often drafts were started and saved, submissions revised, issues handled and
\* reservations changed, in all.
Drafts == {s \in Submissions : Started(s)}
Saves == MapThenSumSet(LAMBDA s : Cardinality(views[s]) - 1, Drafts)
Revised == MapThenSumSet(LAMBDA s : Len(revisions[s]), Submissions)
Handled == MapThenSumSet(LAMBDA j : Cardinality({n \in DOMAIN events[j] : events[j][n].revision = 0}), ChecklistIds)
Moved == MapThenSumSet(LAMBDA x : stays[x].revision - 1 + stays[x].link, Stays)
FewRequests == Saves + Revised + Handled + Moved + Cardinality(Drafts) <= MaxRequests
================================================================================
