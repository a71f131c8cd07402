------------------------------ MODULE MCAccounts ------------------------------
(* Two accounts, two requests in flight and three sessions: enough for an id   *)
(* to be given away while a request that knows it is suspended, and for two    *)
(* administrators to act on each other.  Neither the addresses nor the         *)
(* requests are told apart by any action or property.                          *)
(*                                                                             *)
(* The limiter in front of login and signup: two keys, two attempts per window *)
(* of two and five instants: attempts fall on both sides of a boundary, with   *)
(* refusals in between and a prune that is late by any amount.                 *)
(*                                                                             *)
(* The two share no state: each is followed while the other has not begun,     *)
(* which leaves out only interleavings of steps that cannot see each other.    *)
EXTENDS Accounts, Limiter, TLC

MCInit == Init /\ LimiterInit

MCNext ==
  \/ LimiterInit /\ Next /\ UNCHANGED limiterVars
  \/ Init /\ LimiterNext /\ UNCHANGED vars

MCSpec == MCInit /\ [][MCNext]_<<vars, limiterVars>>

Symmetry == Permutations(Users) \union Permutations(Requests)
=============================================================================
