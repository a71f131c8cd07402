------------------------------ MODULE MCBatcher ------------------------------
(* A queue of two and four events over two buckets: batches of two that fail  *)
(* half way, an overflow while a batch is being written, and one kill at any  *)
(* point.                                                                     *)
EXTENDS Batcher
=============================================================================
