--------------------------- MODULE MCConsoleEvents ---------------------------
(* Three events, three instants and two windows: a sweep can delete some, all  *)
(* or none of the rows while a batch is being written and a stream follows.    *)
(*                                                                             *)
(* What is typed into the forms: units of one and two characters, of which one *)
(* begins with another; texts long enough for two terms, for a sign, a point   *)
(* and a number that overflows; filters of two and paths of three of the       *)
(* characters that LIKE treats apart.                                          *)
(*                                                                             *)
(* The two share no state: each is followed while the other has not begun,     *)
(* which leaves out only interleavings of steps that cannot see each other.    *)
EXTENDS ConsoleEvents, Forms

Untyped == field = "window" /\ text = <<>>
Unstarted == Init /\ retention = 1

MCInit == Init /\ FormsInit /\ (Untyped \/ Unstarted)

MCNext ==
  \/ Untyped /\ Next /\ UNCHANGED formsVars
  \/ Unstarted /\ FormsNext /\ UNCHANGED vars

MCSpec == MCInit /\ [][MCNext]_<<vars, formsVars>>

(* The fairness of module ConsoleEvents. *)
MCFairSpec == MCSpec /\ WF_vars(Poll)

MCScale == [u \in {<<"n", "s">>, <<"m", "s">>, <<"s">>, <<"m">>} |->
              CASE u = <<"n", "s">> -> 1 [] u = <<"m", "s">> -> 10
                [] u = <<"s">> -> 100 [] OTHER -> 600]
MCUpper == [l \in {"a"} |-> "A"]
MCPathChars == {"a", "A", "%", "_", "\\"}
MCBounds == {-1, 0, 2}
=============================================================================
