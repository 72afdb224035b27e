--------------------------- MODULE ConcernProcess ---------------------------
(***************************************************************************)
(* What the employee is promised about a concern on an annual appraisal:   *)
(* HR answers, he accepts or disputes, a dispute gets one final answer,    *)
(* and the sign-off waits for HR's answers (not for his).                  *)
(***************************************************************************)
EXTENDS Integers

CONSTANT Concerns
VARIABLES concern, locked, row

vars == <<concern, locked, row>>

Init == concern = [c \in Concerns |-> "NONE"] /\ locked = FALSE /\ row = 0

Move(from, to) ==
  /\ \E c \in Concerns : concern[c] = from /\ concern' = [concern EXCEPT ![c] = to]
  /\ UNCHANGED <<locked, row>>

Raise == ~locked /\ Move("NONE", "OPEN")
Answer == ~locked /\ Move("OPEN", "RESOLVED")
Dispute == ~locked /\ Move("RESOLVED", "ESCALATED")
AnswerFinally == ~locked /\ Move("ESCALATED", "CLOSED")
Close == Move("RESOLVED", "CLOSED")

\* HR signs off, or takes the sign-off back.
Sign ==
  /\ \A c \in Concerns : concern[c] \notin {"OPEN", "ESCALATED"}
  /\ locked' \in BOOLEAN /\ UNCHANGED <<concern, row>>

\* The review is deleted, or another one begun.
Renew ==
  /\ concern' = [c \in Concerns |-> "NONE"] /\ locked' = FALSE /\ row' \in {row, row + 1}

Spec == Init /\ [][Raise \/ Answer \/ Dispute \/ AnswerFinally \/ Close \/ Sign \/ Renew]_vars
=============================================================================
