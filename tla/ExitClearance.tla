--------------------------- MODULE ExitClearance ---------------------------
(***************************************************************************)
(* The exit of one employee (exit.controller.js, exitClearance.service.js) *)
(* and the other ways in which his account is closed and opened again.     *)
(*                                                                         *)
(* Every handler reads the exit, reads its clearance rows again, decides,  *)
(* and writes in one transaction, which does not look at the row again.    *)
(* feedbackRemarks is one JSON text: a handler that adds to it writes back *)
(* all of it as it was read.                                               *)
(***************************************************************************)
EXTENDS Integers

CONSTANTS
  Procs,     \* HTTP requests in flight
  Enforced,  \* the exit is younger than CLEARANCE_ENFORCED_FROM
  MaxRounds, MaxRecords  \* bounds: exits initiated, records filed

ASSUME ExitConstants == Enforced \in BOOLEAN /\ MaxRounds \in Nat /\ MaxRecords \in Nat

\* The clearances and their order, and the two steps of the manager's.
Rank == [manager |-> 1, it |-> 2, product |-> 3, hr |-> 4, finance |-> 5]
Keys == {"manager", "it", "product", "hr", "finance"}
Before(d) == {e \in Keys : Rank[e] < Rank[d]}
SubSteps == {"pre", "post"}

VARIABLES
  exit,      \* exit_details: status, settlementStatus, accessBlockedAt; round
             \* numbers the rows, of which the employee has at most one
  cleared,   \* exit_clearances: the rows with status CLEARED
  remarks,   \* feedbackRemarks: the manager's sub-steps, once any was stored,
             \* and whether an override of the clearances is noted
  account,   \* OPEN (INVITED or ACTIVE), EXITED, or DELETED (isDeleted as well)
  records,   \* ex_employee_records that the exit handlers filed
  pc, arg, seen  \* the requests in flight, and what they have read

vars == <<exit, cleared, remarks, account, records, pc, arg, seen>>
rows == <<exit, cleared, remarks, account, records>>

Open == {"INITIATED", "INTERVIEW_DONE", "PENDING_CLEARANCE", "ALL_CLEARED"}
Status == Open \cup {"NONE", "COMPLETED"}
Exit == [round : Nat, status : Status, settled : BOOLEAN, blocked : BOOLEAN]
Remarks == [stored : BOOLEAN, done : SUBSET SubSteps, override : BOOLEAN]
Stage == {"idle", "initiateRead", "initiateDelete", "initiateCreate", "interviewWrite",
          "clearRows", "clearWrite", "completeRows", "completeWrite",
          "blockRows", "blockWrite", "documentRows", "documentWrite", "leaveWrite"}
Arg == [key : Keys, subs : SUBSET SubSteps, approve : BOOLEAN, override : BOOLEAN]
Seen == [round : Nat, status : Status, remarks : Remarks, manager : BOOLEAN, rows : SUBSET Keys]

NoArg == [key |-> "manager", subs |-> {}, approve |-> FALSE, override |-> FALSE]
NoRemarks == [stored |-> FALSE, done |-> {}, override |-> FALSE]
NothingSeen == [round |-> 0, status |-> "NONE", remarks |-> NoRemarks, manager |-> FALSE, rows |-> {}]
NoExit(n) == [round |-> n, status |-> "NONE", settled |-> FALSE, blocked |-> FALSE]

TypeOK ==
  /\ exit \in Exit /\ cleared \in SUBSET Keys /\ remarks \in Remarks
  /\ account \in {"OPEN", "EXITED", "DELETED"} /\ records \in Nat
  /\ pc \in [Procs -> Stage] /\ arg \in [Procs -> Arg] /\ seen \in [Procs -> Seen]

Init ==
  /\ exit = NoExit(0) /\ cleared = {} /\ remarks = NoRemarks
  /\ account = "OPEN" /\ records = 0
  /\ pc = [p \in Procs |-> "idle"]
  /\ arg = [p \in Procs |-> NoArg]
  /\ seen = [p \in Procs |-> NothingSeen]

-----------------------------------------------------------------------------
(* Requests in flight.                                                     *)

\* The exit row as a handler reads it first; managerCleared is one of its columns.
ExitRead ==
  [round |-> exit.round, status |-> exit.status, remarks |-> remarks,
   manager |-> "manager" \in cleared, rows |-> {}]

Begin(p, stage, a) ==
  /\ pc[p] = "idle"
  /\ pc' = [pc EXCEPT ![p] = stage]
  /\ arg' = [arg EXCEPT ![p] = a]
  /\ seen' = [seen EXCEPT ![p] = ExitRead]
  /\ UNCHANGED rows

\* The clearance rows are read after the exit (ensureClearanceRows).
Looked(p) == [seen[p] EXCEPT !.rows = cleared]
Proceed(p, stage) ==
  /\ pc' = [pc EXCEPT ![p] = stage]
  /\ seen' = [seen EXCEPT ![p] = Looked(p)]
  /\ UNCHANGED arg

Finish(p) ==
  /\ pc' = [pc EXCEPT ![p] = "idle"]
  /\ arg' = [arg EXCEPT ![p] = NoArg]
  /\ seen' = [seen EXCEPT ![p] = NothingSeen]

\* The row that was read is still there; a write to it would fail otherwise.
Current(p) == exit.round = seen[p].round /\ exit.status # "NONE"

\* resolveManagerSubSteps: as stored, or else both steps as the row says.
SubStepsDone(text, mirror) ==
  IF text.stored THEN text.done ELSE IF mirror THEN SubSteps ELSE {}

SubStepsSeen(s) == SubStepsDone(s.remarks, s.manager \/ "manager" \in s.rows)

\* What is done, by what was read: the manager is judged by the sub-steps.
Done(s) ==
  (s.rows \ {"manager"}) \cup IF SubStepsSeen(s) = SubSteps THEN {"manager"} ELSE {}

-----------------------------------------------------------------------------
(* initiateExit.                                                           *)

Initiate(p) ==
  /\ account = "OPEN" /\ exit.round < MaxRounds
  /\ Begin(p, "initiateRead", NoArg)

Refused == exit.status \in Open

InitiateRead(p) ==
  /\ pc[p] = "initiateRead"
  /\ IF Refused THEN Finish(p)
     ELSE /\ pc' = [pc EXCEPT ![p] = IF exit.status = "NONE" THEN "initiateCreate"
                                      ELSE "initiateDelete"]
          /\ UNCHANGED <<arg, seen>>
  /\ UNCHANGED rows

\* delete where userId: whichever exit the employee has by now.
InitiateDelete(p) ==
  /\ pc[p] = "initiateDelete"
  /\ IF exit.status = "NONE" THEN Finish(p) /\ UNCHANGED rows
     ELSE /\ exit' = NoExit(exit.round) /\ cleared' = {} /\ remarks' = NoRemarks
          /\ pc' = [pc EXCEPT ![p] = "initiateCreate"]
          /\ UNCHANGED <<account, records, arg, seen>>

\* userId is unique: a second exit is refused.
InitiateCreate(p) ==
  /\ pc[p] = "initiateCreate"
  /\ IF exit.status = "NONE"
     THEN exit' = [NoExit(exit.round + 1) EXCEPT !.status = "INITIATED"]
     ELSE UNCHANGED exit
  /\ Finish(p)
  /\ UNCHANGED <<cleared, remarks, account, records>>

-----------------------------------------------------------------------------
(* saveExitInterview.                                                      *)

Interview(p) == exit.status \in Open /\ Begin(p, "interviewWrite", NoArg)

InterviewWrite(p) ==
  /\ pc[p] = "interviewWrite"
  /\ IF Current(p) THEN exit' = [exit EXCEPT !.status = "INTERVIEW_DONE"] ELSE UNCHANGED exit
  /\ Finish(p)
  /\ UNCHANGED <<cleared, remarks, account, records>>

-----------------------------------------------------------------------------
(* approveClearance.                                                       *)

Clear(p, d, subs, approve) ==
  /\ exit.status \in Open
  /\ d = "manager" <=> subs # {}
  /\ Begin(p, "clearRows", [NoArg EXCEPT !.key = d, !.subs = subs, !.approve = approve])

\* (mutant) Only the clearance just before is looked at.
InOrderOfLast(a, s) == a.approve => {e \in Keys : Rank[e] + 1 = Rank[a.key]} \subseteq Done(s)
\* The sequence: what comes before must be done; a revocation need not wait.
InOrder(a, s) == a.approve => Before(a.key) \subseteq Done(s)

ClearRows(p) ==
  /\ pc[p] = "clearRows"
  /\ IF Current(p) /\ InOrder(arg[p], Looked(p)) THEN Proceed(p, "clearWrite") ELSE Finish(p)
  /\ UNCHANGED rows

Change(approve, set, more) == IF approve THEN set \cup more ELSE set \ more

NewSubSteps(p) == Change(arg[p].approve, SubStepsSeen(seen[p]), arg[p].subs)

\* (mutant) The row follows the sub-step, not both.
RowBySubStep(p) == arg[p].approve
\* Whether the row ends up CLEARED.
RowCleared(p) ==
  IF arg[p].key = "manager" THEN NewSubSteps(p) = SubSteps ELSE arg[p].approve

\* (mutant) A revocation leaves the status alone.
StatusKept(p) ==
  IF RowCleared(p) /\ Keys \ {arg[p].key} \subseteq Done(seen[p]) THEN "ALL_CLEARED" ELSE exit.status
\* Back to PENDING_CLEARANCE also from ALL_CLEARED, when one is revoked.
StatusAfter(p) ==
  IF RowCleared(p) /\ Keys \ {arg[p].key} \subseteq Done(seen[p]) THEN "ALL_CLEARED"
  ELSE IF seen[p].status = "PENDING_CLEARANCE" THEN exit.status
  ELSE "PENDING_CLEARANCE"

\* Finance clearance is the settlement.
SettledAfter(p) == IF arg[p].key = "finance" THEN arg[p].approve ELSE exit.settled

\* The text that was read, with the manager's sub-steps if this is about them.
RemarksAfter(p) ==
  IF arg[p].key # "manager" THEN seen[p].remarks
  ELSE [seen[p].remarks EXCEPT !.stored = TRUE, !.done = NewSubSteps(p)]

ClearWrite(p) ==
  /\ pc[p] = "clearWrite"
  /\ IF Current(p)
     THEN /\ cleared' = Change(RowCleared(p), cleared, {arg[p].key})
          /\ exit' = [exit EXCEPT !.status = StatusAfter(p), !.settled = SettledAfter(p)]
          /\ remarks' = RemarksAfter(p)
     ELSE UNCHANGED <<cleared, exit, remarks>>
  /\ Finish(p)
  /\ UNCHANGED <<account, records>>

-----------------------------------------------------------------------------
(* completeExit.                                                           *)

\* (mutant) A deleted employee can be completed.
Employed == TRUE
\* The employee is not deleted.
StillThere == account # "DELETED"

Complete(p, override) ==
  /\ exit.status \in Open /\ StillThere /\ records < MaxRecords
  /\ Begin(p, "completeRows", [NoArg EXCEPT !.override = override])

\* What is pending, by the rows, must be overridden, if the rule applies.
MayComplete(a, s) == ~Enforced \/ s.rows = Keys \/ a.override

CompleteRows(p) ==
  /\ pc[p] = "completeRows"
  /\ IF Current(p) /\ MayComplete(arg[p], Looked(p)) THEN Proceed(p, "completeWrite")
     ELSE Finish(p)
  /\ UNCHANGED rows

\* (mutant) A completed exit is a settled one.
SettledAnyway(s) == TRUE
\* Completing over Finance does not claim the settlement.
SettledBy(s) == "finance" \in s.rows

CompleteWrite(p) ==
  /\ pc[p] = "completeWrite"
  /\ IF Current(p)
     THEN /\ account' = "DELETED" /\ records' = records + 1
          /\ exit' = [exit EXCEPT !.status = "COMPLETED", !.settled = SettledBy(seen[p])]
          /\ remarks' = IF Enforced /\ seen[p].rows # Keys
                         THEN [seen[p].remarks EXCEPT !.override = TRUE] ELSE remarks
     ELSE UNCHANGED <<account, records, exit, remarks>>
  /\ Finish(p)
  /\ UNCHANGED cleared

-----------------------------------------------------------------------------
(* blockExitAccess.                                                        *)

Block(p) ==
  /\ exit.status \in Open /\ account # "DELETED" /\ ~exit.blocked
  /\ Begin(p, "blockRows", NoArg)

BlockRows(p) ==
  /\ pc[p] = "blockRows"
  /\ IF Current(p) /\ Keys \ {"finance"} \subseteq Done(Looked(p)) THEN Proceed(p, "blockWrite")
     ELSE Finish(p)
  /\ UNCHANGED rows

\* The status of a deleted account is written too, and changes nothing.
Closed == IF account = "OPEN" THEN "EXITED" ELSE account

BlockWrite(p) ==
  /\ pc[p] = "blockWrite"
  /\ IF Current(p) THEN account' = Closed /\ exit' = [exit EXCEPT !.blocked = TRUE]
     ELSE UNCHANGED <<account, exit>>
  /\ Finish(p)
  /\ UNCHANGED <<cleared, remarks, records>>

-----------------------------------------------------------------------------
(* generateCertificate, sendExitDocuments: links and dates go to the text. *)

Document(p) == exit.status # "NONE" /\ Begin(p, "documentRows", NoArg)

\* documentsUnlocked reads the exit again.
DocumentRows(p) ==
  /\ pc[p] = "documentRows"
  /\ IF Current(p) /\ (exit.status = "COMPLETED" \/ "hr" \in cleared)
     THEN pc' = [pc EXCEPT ![p] = "documentWrite"] /\ UNCHANGED <<arg, seen>>
     ELSE Finish(p)
  /\ UNCHANGED rows

DocumentWrite(p) ==
  /\ pc[p] = "documentWrite"  \* the text that was read, and a link
  /\ remarks' = IF Current(p) THEN seen[p].remarks ELSE remarks
  /\ Finish(p)
  /\ UNCHANGED <<exit, cleared, account, records>>

-----------------------------------------------------------------------------
(* The account, past the exit process.                                     *)

\* exitEmployee, and addExEmployee of a serving employee: no exit is looked at.
Leave(p) ==
  /\ account = "OPEN" /\ records < MaxRecords
  /\ Begin(p, "leaveWrite", NoArg)

LeaveWrite(p) ==
  /\ pc[p] = "leaveWrite"
  /\ account' = "DELETED" /\ records' = records + 1
  /\ Finish(p)
  /\ UNCHANGED <<exit, cleared, remarks>>

SetAccount(p, s) ==
  /\ pc[p] = "idle" /\ account' = s
  /\ UNCHANGED <<exit, cleared, remarks, records, pc, arg, seen>>

\* deleteEmployee; deactivatePlatformUser; reactivateEmployee, restoreExEmployee
\* and reactivatePlatformUser.  None of them touches the exit.
Delete(p) == SetAccount(p, "DELETED")
Deactivate(p) == account = "OPEN" /\ SetAccount(p, "EXITED")
Return(p) == account # "OPEN" /\ SetAccount(p, "OPEN")

\* A request that stops between two of its statements.
Fail(p) == pc[p] # "idle" /\ Finish(p) /\ UNCHANGED rows

-----------------------------------------------------------------------------

Step(p) ==
  \/ Initiate(p) \/ InitiateRead(p) \/ InitiateDelete(p) \/ InitiateCreate(p)
  \/ Interview(p) \/ InterviewWrite(p)
  \/ \E d \in Keys, subs \in SUBSET SubSteps, approve \in BOOLEAN : Clear(p, d, subs, approve)
  \/ ClearRows(p) \/ ClearWrite(p)
  \/ \E override \in BOOLEAN : Complete(p, override)
  \/ CompleteRows(p) \/ CompleteWrite(p)
  \/ Block(p) \/ BlockRows(p) \/ BlockWrite(p)
  \/ Document(p) \/ DocumentRows(p) \/ DocumentWrite(p)
  \/ Leave(p) \/ LeaveWrite(p) \/ Delete(p) \/ Deactivate(p) \/ Return(p) \/ Fail(p)

Next == \E p \in Procs : Step(p)

Spec == Init /\ [][Next]_vars

-----------------------------------------------------------------------------
(* Properties.                                                             *)

\* The exit is only reported ready to be completed when every clearance is
\* given; a revocation takes that back.
AllClearedIsAll == exit.status = "ALL_CLEARED" => cleared = Keys

\* The row of the manager and the sub-steps in the remarks, which different
\* checks consult, say the same: completeExit and blockExitAccess agree.
ManagerAgrees ==
  "manager" \in cleared
    <=> SubStepsDone(remarks, "manager" \in cleared) = SubSteps

\* The settlement is done exactly when Finance has cleared, also when an exit is
\* completed over Finance or a clearance is revoked.
SettlementFollowsFinance == exit.settled <=> "finance" \in cleared

\* Nobody is filed as having left when he is gone already.
FiledOnce == [][records' > records => account # "DELETED"]_vars

\* Every step of every handler is a step of the promised exit process.
Phase ==
  CASE exit.status = "NONE" -> "none" [] exit.status = "COMPLETED" -> "completed" [] OTHER -> "open"
Process ==
  INSTANCE ExitProcess WITH phase <- Phase, blocked <- exit.blocked, overridden <- remarks.override,
                            Last <- "finance"
ExitProcessSpec == Process!Spec

-----------------------------------------------------------------------------
(* Why all of this holds when the handlers of one exit run one at a time:  *)
(* what a handler has read is still so when it writes.                     *)

OneAtATime == \A p, q \in Procs : p = q

AsRead(p) ==
  /\ exit.round = seen[p].round /\ exit.status = seen[p].status
  /\ remarks = seen[p].remarks /\ seen[p].manager = ("manager" \in cleared)

UpToDate(p) ==
  /\ pc[p] \notin {"idle", "initiateRead", "initiateDelete", "initiateCreate", "leaveWrite"} => AsRead(p)
  /\ pc[p] \in {"clearWrite", "completeWrite", "blockWrite"} => seen[p].rows = cleared
  /\ pc[p] \in {"interviewWrite", "clearRows", "clearWrite", "completeRows", "completeWrite",
               "blockRows", "blockWrite"} => exit.status \in Open
  /\ pc[p] = "clearWrite" => InOrder(arg[p], seen[p])
  /\ pc[p] = "completeWrite" => MayComplete(arg[p], seen[p])
  /\ pc[p] \in {"completeRows", "completeWrite", "blockRows", "blockWrite", "leaveWrite"} => StillThere
  /\ pc[p] \in {"blockRows", "blockWrite"} => ~exit.blocked
  /\ pc[p] = "blockWrite" => Keys \ {"finance"} \subseteq cleared
  /\ pc[p] = "initiateDelete" => exit.status = "COMPLETED"
  /\ pc[p] = "initiateCreate" => exit.status = "NONE"

\* Overrides are noted only in completed exits, and no row is left of no exit.
Blank == exit.status = "NONE" => cleared = {} /\ ~exit.blocked /\ remarks = NoRemarks
NotOverridden == remarks.override => exit.status = "COMPLETED"

SerialInv ==
  /\ AllClearedIsAll /\ ManagerAgrees /\ SettlementFollowsFinance
  /\ Blank /\ NotOverridden /\ \A p \in Procs : UpToDate(p)
=============================================================================
