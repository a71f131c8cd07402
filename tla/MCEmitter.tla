------------------------------ MODULE MCEmitter ------------------------------
(* The emitter with a queue of two and five events: enough for the queue to  *)
(* overflow with the getter in every state, before and after the stop.       *)
EXTENDS Emitter
=============================================================================
