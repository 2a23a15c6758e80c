----------------------------- MODULE MCIssueQueue -----------------------------
(* Instances of IssueQueue for TLC.                                        *)
EXTENDS IssueQueue, TLC

\* One project, or an issue at least for every project.
OneProject == [i \in Issues |-> CHOOSE p \in Projects : TRUE]
EachItsProject ==
  CHOOSE f \in [Issues -> Projects] : \A p \in Projects : \E i \in Issues : f[i] = p

\* Row ids and coroutine slots are interchangeable; so are the issues of one project.
RowSymmetry   == Permutations(Rows) \cup Permutations(Tasks)
QueueSymmetry ==
  RowSymmetry \cup {f \in Permutations(Issues) : \A i \in Issues : ProjectOf[f[i]] = ProjectOf[i]}
=============================================================================
