-------------------------- MODULE MCPipelineRunner --------------------------
(* TLC instance of PipelineRunner: a watchdog of two ticks, two polls, two   *)
(* messages, of which every order and kind occurs.                           *)
EXTENDS PipelineRunner
=============================================================================
