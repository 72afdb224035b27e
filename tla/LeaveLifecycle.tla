--------------------------- MODULE LeaveLifecycle ---------------------------
(***************************************************************************)
(* What the leave module promises for the requests of one employee: a      *)
(* request is decided once, only a decision in its favour can be taken     *)
(* back, and no two requests in force are for the same time.               *)
(***************************************************************************)
CONSTANTS Requests, Clash   \* Clash[r]: the requests for the same time as r

VARIABLE status

Undecided(r) == status[r] = "PENDING"
Granted(r) == status[r] = "APPROVED"

Becomes(r, s) == status' = [status EXCEPT ![r] = s]

Init == status = [r \in Requests |-> "NONE"]

Submit(r) ==
  /\ status[r] = "NONE"
  /\ \A s \in Clash[r] : ~Undecided(s) /\ ~Granted(s)
  /\ Becomes(r, "PENDING")

Approve(r) == Undecided(r) /\ Becomes(r, "APPROVED")
Reject(r) == (Undecided(r) \/ Granted(r)) /\ Becomes(r, "REJECTED")
Cancel(r) == Undecided(r) /\ Becomes(r, "CANCELLED")

Next == \E r \in Requests : Submit(r) \/ Approve(r) \/ Reject(r) \/ Cancel(r)

Spec == Init /\ [][Next]_status
=============================================================================
