--------------------------- MODULE MCPipelineRuns ---------------------------
(* Instances of PipelineRuns for TLC. *)
EXTENDS PipelineRuns
=============================================================================
