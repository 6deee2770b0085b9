------------------------------ MODULE MCBatch ------------------------------
(* Small instances of Batch, with the cameras and segments of MCPipeline.  *)
EXTENDS Batch, MCPipeline
=============================================================================
