---------------------------- MODULE BestEffortFeed ----------------------------
(***************************************************************************)
(* What the emitter promises to the request handlers, without its queue,   *)
(* its tasks or its shutdown: a feed that never makes a recorder wait,     *)
(* tries every event at most once and in order, never changes its mind     *)
(* about an event, and gives up unsent only events that at least Capacity  *)
(* newer ones have followed.                                               *)
(***************************************************************************)
EXTENDS Naturals

CONSTANTS
  Capacity,    \* how many of the newest events are safe from being dropped
  MaxEvents    \* bound of the model: how many events are ever recorded

VARIABLES
  recorded,    \* how many events were recorded; the n-th is the number n
  outcome      \* what became of each: "pending" until it is settled

vars == <<recorded, outcome>>

Results == {"delivered", "failed", "killed"}

Init ==
  /\ recorded = 0
  /\ outcome = [e \in 1..0 |-> "pending"]

(* A new event; at most one old one makes room for it. *)
Record ==
  /\ recorded < MaxEvents
  /\ recorded' = recorded + 1
  /\ \E gone \in SUBSET {e \in 1..recorded : /\ outcome[e] = "pending"
                                             /\ e + Capacity <= recorded + 1} :
       /\ \A d, e \in gone : d = e
       /\ outcome' = [e \in 1..(recorded + 1) |->
                        IF e \in gone THEN "dropped"
                        ELSE IF e = recorded + 1 THEN "pending" ELSE outcome[e]]

(* The oldest pending event is tried, once. *)
Attempt(e, result) ==
  /\ outcome[e] = "pending"
  /\ \A d \in 1..(e - 1) : outcome[d] # "pending"
  /\ outcome' = [outcome EXCEPT ![e] = result]
  /\ UNCHANGED recorded

Next ==
  \/ Record
  \/ \E e \in 1..recorded, result \in Results : Attempt(e, result)

Spec == Init /\ [][Next]_vars
=============================================================================
