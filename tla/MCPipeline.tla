------------------------------ MODULE MCPipeline ------------------------------
(* Two events of the gateway and two of another sender, through two queues   *)
(* of one each: both queues overflow, a request can be read after its        *)
(* successor, foreign events come before, between and after, and the console *)
(* can be killed and restarted with another secret or with none while the    *)
(* gateway goes on.                                                          *)
EXTENDS Pipeline
=============================================================================
