------------------------------- MODULE MCIssues -------------------------------
(* Instances of Issues: issues of two projects. *)
EXTENDS Issues

MCProjectOf == [i \in Issues |-> IF i = 1 THEN 1 ELSE 2]
=================================================================================
