----------------------------- MODULE MCPipeline -----------------------------
(* Instances of Pipeline for TLC.  MaxFrame passes N: the list reaches its  *)
(* steady state at frame N and the cursor wraps after it.                   *)
EXTENDS Pipeline

=============================================================================
