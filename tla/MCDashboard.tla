----------------------------- MODULE MCDashboard -----------------------------
(* Three events in batches of at most two, over two hours of two instants:     *)
(* events fall into, out of and between windows of one and two hours, and a    *)
(* flush or a sweep can come between any two reads of a page.  A provider has  *)
(* both verdicts, and the latencies differ, so that a median tells them apart. *)
(* An event comes two instants late, or from a clock that is one ahead.        *)
(* The liveness window ends with its instant, so that a flush, even one of an  *)
(* event that is ahead, gets out of it.                                        *)
EXTENDS Dashboard

MCKinds == {[provider |-> "stripe", verdict |-> "accepted", latency |-> 1],
            [provider |-> "github", verdict |-> "rejected", latency |-> 2],
            [provider |-> "github", verdict |-> "accepted", latency |-> 3]}
MCDelays == {-1, 2}
=============================================================================
