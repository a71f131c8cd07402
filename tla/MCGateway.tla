------------------------------ MODULE MCGateway ------------------------------
(* Two requests over a queue of one, so the second verdict can overflow it.   *)
(* The upstream may answer 401 or 502, the codes the gateway itself uses for  *)
(* a request it refuses and for an upstream it cannot reach.                  *)
EXTENDS Gateway
=============================================================================
