------------------------------ MODULE MCInline ------------------------------
(* A small instance of InlineWork: see MCPipeline for the calls.           *)
EXTENDS MCPipeline, InlineWork
==============================================================================
