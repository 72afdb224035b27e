---------------------------- MODULE ExitProcess ----------------------------
(***************************************************************************)
(* What the exit module promises for one employee: clearances are given in *)
(* order, access is blocked only when nothing but Finance is left, an exit *)
(* is completed when everything is cleared or with the override on record, *)
(* and a completed exit does not change any more.                          *)
(***************************************************************************)
CONSTANTS
  Keys,      \* the clearances
  Last,      \* the one that access does not wait for
  Before(_), \* the clearances that come before one
  Enforced   \* completion waits for the clearances

VARIABLES phase, cleared, blocked, overridden

process == <<phase, cleared, blocked, overridden>>

Blank == cleared' = {} /\ blocked' = FALSE /\ overridden' = FALSE

Init == phase = "none" /\ cleared = {} /\ blocked = FALSE /\ overridden = FALSE

Start == phase = "none" /\ phase' = "open" /\ Blank

Approve(d) ==
  /\ phase = "open" /\ Before(d) \subseteq cleared
  /\ cleared' = cleared \cup {d}
  /\ UNCHANGED <<phase, blocked, overridden>>

Revoke(d) ==
  /\ phase = "open"
  /\ cleared' = cleared \ {d}
  /\ UNCHANGED <<phase, blocked, overridden>>

BlockAccess ==
  /\ phase = "open" /\ ~blocked /\ Keys \ {Last} \subseteq cleared
  /\ blocked' = TRUE
  /\ UNCHANGED <<phase, cleared, overridden>>

Complete ==
  /\ phase = "open" /\ phase' = "completed"
  /\ overridden' = (Enforced /\ cleared # Keys)
  /\ UNCHANGED <<cleared, blocked>>

\* A completed exit makes way for the next one.
Remove == phase = "completed" /\ phase' = "none" /\ Blank

Next ==
  \/ Start \/ BlockAccess \/ Complete \/ Remove
  \/ \E d \in Keys : Approve(d) \/ Revoke(d)

Spec == Init /\ [][Next]_process
=============================================================================
