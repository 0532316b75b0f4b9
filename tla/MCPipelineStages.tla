-------------------------- MODULE MCPipelineStages --------------------------
(* PipelineStages on a small instance: TLC evaluates its assumptions here. *)
EXTENDS PipelineStages, TLC

Symmetric == Permutations(Req) \cup Permutations(Instance)
=============================================================================
