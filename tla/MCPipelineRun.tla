---------------------------- MODULE MCPipelineRun ----------------------------
(* Instances of PipelineRun for TLC.                                       *)
EXTENDS PipelineRun, TLC

\* Request handlers are interchangeable.
TaskSymmetry == Permutations(Tasks)
=============================================================================
