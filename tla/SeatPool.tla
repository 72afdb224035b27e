------------------------------ MODULE SeatPool ------------------------------
(***************************************************************************)
(* What licensing promises: a pool of seats.  A step takes seats that are  *)
(* free, gives seats back, or changes the size of the pool without going   *)
(* below what is taken; the two numbers never change together.             *)
(***************************************************************************)
EXTENDS Naturals

VARIABLES cap, used

Init == cap \in Nat /\ used \in 0..cap

Take == used' > used /\ used' <= cap /\ UNCHANGED cap
Release == used' < used /\ UNCHANGED cap
Resize == cap' >= used /\ UNCHANGED used

Next == Take \/ Release \/ Resize

Spec == Init /\ [][Next]_<<cap, used>>
=============================================================================
