----------------------------- MODULE ExitProofs -----------------------------
(***************************************************************************)
(* Theorems about ExitClearance, for any number of handlers, exits and     *)
(* records, with the clearance rule or without: types under every          *)
(* interleaving; and, when the handlers run one at a time, what status,    *)
(* settlement and the manager's clearance say, and that the handlers       *)
(* implement ExitProcess.                                                  *)
(***************************************************************************)
EXTENDS ExitClearance, TLAPS

-----------------------------------------------------------------------------
(* Types.                                                                  *)

FlightOK == pc \in [Procs -> Stage] /\ arg \in [Procs -> Arg] /\ seen \in [Procs -> Seen]

RowsOK ==
  /\ exit \in Exit /\ cleared \in SUBSET Keys /\ remarks \in Remarks
  /\ account \in {"OPEN", "EXITED", "DELETED"} /\ records \in Nat

LEMMA TypeParts == TypeOK <=> RowsOK /\ FlightOK
BY DEF TypeOK, RowsOK, FlightOK

LEMMA TypePartsNext == RowsOK' /\ FlightOK' => TypeOK'
BY DEF TypeOK, RowsOK, FlightOK

LEMMA RowsKept == TypeOK /\ UNCHANGED rows => RowsOK'
BY DEF TypeOK, RowsOK, rows

LEMMA NewRows ==
  /\ NoRemarks \in Remarks
  /\ \A n \in Nat : NoExit(n) \in Exit /\ [NoExit(n) EXCEPT !.status = "INITIATED"] \in Exit
BY DEF NoRemarks, Remarks, NoExit, Exit, Status, Open

LEMMA BeginType ==
  ASSUME TypeOK, NEW p \in Procs, NEW stage \in Stage, NEW a \in Arg, Begin(p, stage, a)
  PROVE  TypeOK'
<1>1. ExitRead \in Seen
  BY DEF TypeOK, ExitRead, Seen, Exit
<1>2. FlightOK'
  BY <1>1 DEF Begin, TypeOK, FlightOK
<1>. QED  BY <1>2, TypeParts, RowsKept DEF Begin, TypeOK, RowsOK, FlightOK

LEMMA FinishType ==
  ASSUME TypeOK, NEW p \in Procs, Finish(p)
  PROVE  FlightOK'
<1>1. NoArg \in Arg /\ "idle" \in Stage /\ NothingSeen \in Seen
  BY DEF NoArg, Arg, Stage, Keys, NothingSeen, Seen, Status, Open, NoRemarks, Remarks
<1>. QED  BY <1>1 DEF Finish, TypeOK, FlightOK

LEMMA ProceedType ==
  ASSUME TypeOK, NEW p \in Procs, NEW stage \in Stage, Proceed(p, stage)
  PROVE  FlightOK'
<1>1. Looked(p) \in Seen
  BY DEF TypeOK, Looked, Seen
<1>. QED  BY <1>1 DEF Proceed, TypeOK, FlightOK

\* A handler that only reads.
LEMMA ReadType ==
  ASSUME TypeOK, NEW p \in Procs,
         ClearRows(p) \/ CompleteRows(p) \/ BlockRows(p) \/ DocumentRows(p) \/ InitiateRead(p)
  PROVE  TypeOK'
<1>1. UNCHANGED rows
  BY DEF ClearRows, CompleteRows, BlockRows, DocumentRows, InitiateRead
<1>2. CASE Finish(p)
  BY <1>1, <1>2, FinishType, TypeParts, RowsKept DEF TypeOK, RowsOK, FlightOK
<1>3. CASE \E stage \in Stage : Proceed(p, stage)
  BY <1>1, <1>3, ProceedType, TypeParts, RowsKept DEF TypeOK, RowsOK, FlightOK
<1>4. CASE \E stage \in Stage : pc' = [pc EXCEPT ![p] = stage] /\ UNCHANGED <<arg, seen>>
  BY <1>1, <1>4, TypeParts, RowsKept DEF TypeOK, RowsOK, FlightOK
<1>. QED  BY <1>2, <1>3, <1>4
     DEF ClearRows, CompleteRows, BlockRows, DocumentRows, InitiateRead, Stage

LEMMA ClearWriteType ==
  ASSUME TypeOK, NEW p \in Procs, ClearWrite(p)
  PROVE  TypeOK'
<1>1. arg[p] \in Arg /\ seen[p] \in Seen
  BY DEF TypeOK
<1>2. SubStepsSeen(seen[p]) \in SUBSET SubSteps
  BY <1>1 DEF SubStepsSeen, SubStepsDone, Seen, Remarks
<1>3. NewSubSteps(p) \in SUBSET SubSteps
  BY <1>1, <1>2 DEF NewSubSteps, Change, Arg
<1>4. RemarksAfter(p) \in Remarks
  BY <1>1, <1>3 DEF RemarksAfter, Seen, Remarks
<1>5. Change(RowCleared(p), cleared, {arg[p].key}) \in SUBSET Keys
  BY <1>1 DEF Change, Arg, TypeOK
<1>6. StatusAfter(p) \in Status /\ SettledAfter(p) \in BOOLEAN
  BY <1>1 DEF StatusAfter, SettledAfter, Status, Open, Arg, TypeOK, Exit
<1>7. [exit EXCEPT !.status = StatusAfter(p), !.settled = SettledAfter(p)] \in Exit
  BY <1>6 DEF TypeOK, Exit
<1>. QED  BY <1>4, <1>5, <1>7, FinishType DEF ClearWrite, TypeOK, FlightOK

LEMMA StepType ==
  ASSUME TypeOK, NEW p \in Procs, Step(p)
  PROVE  TypeOK'
<1>0. NoArg \in Arg
  BY DEF NoArg, Arg, Keys
<1>1. CASE \/ Initiate(p) \/ Interview(p) \/ Block(p) \/ Document(p) \/ Leave(p)
           \/ \E d \in Keys, subs \in SUBSET SubSteps, approve \in BOOLEAN : Clear(p, d, subs, approve)
           \/ \E override \in BOOLEAN : Complete(p, override)
  <2>1. PICK stage \in Stage, a \in Arg : Begin(p, stage, a)
    <3>1. ASSUME NEW d \in Keys, NEW subs \in SUBSET SubSteps, NEW approve \in BOOLEAN,
                 Clear(p, d, subs, approve)
          PROVE  \E stage \in Stage, a \in Arg : Begin(p, stage, a)
      <4>. DEFINE a == [NoArg EXCEPT !.key = d, !.subs = subs, !.approve = approve]
      <4>1. a \in Arg /\ "clearRows" \in Stage
        BY DEF NoArg, Arg, Stage
      <4>. QED  BY <3>1, <4>1 DEF Clear
    <3>2. ASSUME NEW override \in BOOLEAN, Complete(p, override)
          PROVE  \E stage \in Stage, a \in Arg : Begin(p, stage, a)
      <4>. DEFINE a == [NoArg EXCEPT !.override = override]
      <4>1. a \in Arg /\ "completeRows" \in Stage
        BY DEF NoArg, Arg, Stage, Keys
      <4>. QED  BY <3>2, <4>1 DEF Complete
    <3>3. CASE Initiate(p) \/ Interview(p) \/ Block(p) \/ Document(p) \/ Leave(p)
      BY <1>0, <3>3 DEF Initiate, Interview, Block, Document, Leave, Stage
    <3>. QED  BY <1>1, <3>1, <3>2, <3>3
  <2>. QED  BY <2>1, BeginType
<1>2. CASE ClearRows(p) \/ CompleteRows(p) \/ BlockRows(p) \/ DocumentRows(p) \/ InitiateRead(p)
  BY <1>2, ReadType
<1>3. CASE InitiateDelete(p)
  <2>1. CASE Finish(p) /\ UNCHANGED rows
    BY <2>1, FinishType, TypePartsNext, RowsKept
  <2>2. CASE ~(Finish(p) /\ UNCHANGED rows)
    <3>1. exit' = NoExit(exit.round) /\ exit.round \in Nat
      BY <1>3, <2>2 DEF InitiateDelete, TypeOK, Exit
    <3>. QED  BY <1>3, <2>2, <3>1, NewRows DEF InitiateDelete, TypeOK, Stage
  <2>. QED  BY <2>1, <2>2
<1>4. CASE InitiateCreate(p)
  <2>1. exit' \in Exit
    <3>1. exit.round + 1 \in Nat
      BY DEF TypeOK, Exit
    <3>. QED  BY <1>4, <3>1, NewRows DEF InitiateCreate, TypeOK
  <2>. QED  BY <1>4, <2>1, FinishType DEF InitiateCreate, TypeOK, FlightOK
<1>5. CASE InterviewWrite(p)
  <2>1. exit' \in Exit
    BY <1>5 DEF InterviewWrite, TypeOK, Exit, Status, Open
  <2>. QED  BY <1>5, <2>1, FinishType DEF InterviewWrite, TypeOK, FlightOK
<1>6. CASE ClearWrite(p)
  BY <1>6, ClearWriteType
<1>7. CASE CompleteWrite(p)
  <2>1. exit' \in Exit /\ remarks' \in Remarks /\ records' \in Nat
        /\ account' \in {"OPEN", "EXITED", "DELETED"}
    <3>1. [exit EXCEPT !.status = "COMPLETED", !.settled = SettledBy(seen[p])] \in Exit
      <4>1. SettledBy(seen[p]) \in BOOLEAN
        BY DEF SettledBy
      <4>2. \A b \in BOOLEAN : [exit EXCEPT !.status = "COMPLETED", !.settled = b] \in Exit
        BY DEF TypeOK, Exit, Status
      <4>. QED  BY <4>1, <4>2
    <3>2. [seen[p].remarks EXCEPT !.override = TRUE] \in Remarks
      BY DEF TypeOK, Seen, Remarks
    <3>3. CASE Current(p)
      <4>1. exit' \in Exit
        BY <1>7, <3>1, <3>3 DEF CompleteWrite
      <4>2. remarks' \in Remarks
        BY <1>7, <3>2, <3>3 DEF CompleteWrite, TypeOK
      <4>. QED  BY <1>7, <3>3, <4>1, <4>2 DEF CompleteWrite, TypeOK
    <3>4. CASE ~Current(p)
      BY <1>7, <3>4 DEF CompleteWrite, TypeOK
    <3>. QED  BY <3>3, <3>4
  <2>. QED  BY <1>7, <2>1, FinishType DEF CompleteWrite, TypeOK, FlightOK
<1>8. CASE BlockWrite(p)
  <2>1. exit' \in Exit /\ account' \in {"OPEN", "EXITED", "DELETED"}
    BY <1>8 DEF BlockWrite, Closed, TypeOK, Exit
  <2>. QED  BY <1>8, <2>1, FinishType DEF BlockWrite, TypeOK, FlightOK
<1>9. CASE DocumentWrite(p)
  <2>1. remarks' \in Remarks
    BY <1>9 DEF DocumentWrite, TypeOK, Seen
  <2>. QED  BY <1>9, <2>1, FinishType DEF DocumentWrite, TypeOK, FlightOK
<1>10. CASE LeaveWrite(p)
  BY <1>10, FinishType DEF LeaveWrite, TypeOK, FlightOK
<1>11. CASE Delete(p) \/ Deactivate(p) \/ Return(p)
  BY <1>11 DEF Delete, Deactivate, Return, SetAccount, TypeOK
<1>12. CASE Fail(p)
  BY <1>12, FinishType, TypePartsNext, RowsKept DEF Fail
<1>. QED  BY <1>1, <1>2, <1>3, <1>4, <1>5, <1>6, <1>7, <1>8, <1>9, <1>10, <1>11, <1>12 DEF Step

LEMMA TypeStep == TypeOK /\ [Next]_vars => TypeOK'
<1>1. TypeOK /\ UNCHANGED vars => TypeOK'
  BY DEF vars, TypeOK
<1>. QED  BY <1>1, StepType DEF Next

LEMMA TypeInit == Init => TypeOK
BY DEF Init, TypeOK, NoExit, Exit, Status, NoRemarks, Remarks, NoArg, Arg, Keys, Stage,
       NothingSeen, Seen

\* Exit, clearances, remarks, account and handlers in flight always have their
\* types, whatever the interleaving of the handlers.
THEOREM TypeCorrect == Spec => []TypeOK
BY TypeInit, TypeStep, PTL DEF Spec

-----------------------------------------------------------------------------
(* One handler at a time: what the rows say.                               *)

Core == AllClearedIsAll /\ ManagerAgrees /\ SettlementFollowsFinance /\ Blank /\ NotOverridden

\* Judged from what is still so, the clearances done are the rows cleared.
LEMMA DoneIsCleared ==
  ASSUME TypeOK, ManagerAgrees, NEW s, s.remarks = remarks, s.rows = cleared,
         s.manager = ("manager" \in cleared)
  PROVE  /\ Done(s) = cleared
         /\ SubStepsSeen(s) = SubStepsDone(remarks, "manager" \in cleared)
<1>1. SubStepsSeen(s) = SubStepsDone(remarks, "manager" \in cleared)
  BY DEF SubStepsSeen, SubStepsDone
<1>. QED  BY <1>1 DEF Done, ManagerAgrees

\* What a handler about to write a clearance has read, and what it will write.
LEMMA ClearWriteEffect ==
  ASSUME TypeOK, SerialInv, NEW p \in Procs, ClearWrite(p)
  PROVE  /\ exit.status \in Open /\ exit'.status \in Open
         /\ arg[p].key \in Keys
         /\ cleared' = IF RowCleared(p) THEN cleared \cup {arg[p].key} ELSE cleared \ {arg[p].key}
         /\ RowCleared(p) => Before(arg[p].key) \subseteq cleared
         /\ exit'.status = "ALL_CLEARED" => RowCleared(p) /\ Keys \ {arg[p].key} \subseteq cleared
         /\ exit'.settled = SettledAfter(p) /\ exit'.blocked = exit.blocked
         /\ remarks' = RemarksAfter(p) /\ seen[p].remarks = remarks
<1>1. /\ pc[p] = "clearWrite" /\ AsRead(p) /\ seen[p].rows = cleared
      /\ exit.status \in Open /\ InOrder(arg[p], seen[p]) /\ ManagerAgrees
  BY DEF ClearWrite, SerialInv, UpToDate
<1>2. Current(p)
  BY <1>1 DEF Current, AsRead, Open
<1>3. Done(seen[p]) = cleared
  BY <1>1, DoneIsCleared DEF AsRead
<1>4. arg[p].key \in Keys /\ arg[p].approve \in BOOLEAN
  BY DEF TypeOK, Arg
<1>5. exit' = [exit EXCEPT !.status = StatusAfter(p), !.settled = SettledAfter(p)]
      /\ cleared' = Change(RowCleared(p), cleared, {arg[p].key}) /\ remarks' = RemarksAfter(p)
  BY <1>2 DEF ClearWrite
<1>6. exit'.status = StatusAfter(p) /\ exit'.settled = SettledAfter(p) /\ exit'.blocked = exit.blocked
  BY <1>5 DEF TypeOK, Exit
<1>7. RowCleared(p) => Before(arg[p].key) \subseteq cleared
  <2>1. CASE arg[p].key = "manager"
    BY <2>1 DEF Before, Keys, Rank
  <2>2. CASE arg[p].key # "manager"
    BY <1>1, <1>3, <2>2 DEF RowCleared, InOrder
  <2>. QED  BY <2>1, <2>2
<1>8. seen[p].status = exit.status /\ seen[p].remarks = remarks
  BY <1>1 DEF AsRead
<1>9. StatusAfter(p) \in Open
  BY <1>1 DEF StatusAfter, Open
<1>10. StatusAfter(p) = "ALL_CLEARED" => RowCleared(p) /\ Keys \ {arg[p].key} \subseteq cleared
  BY <1>3, <1>8 DEF StatusAfter
<1>. QED  BY <1>1, <1>4, <1>5, <1>6, <1>7, <1>8, <1>9, <1>10 DEF Change

LEMMA ClearWriteCore ==
  ASSUME TypeOK, SerialInv, NEW p \in Procs, ClearWrite(p)
  PROVE  Core'
<1>. DEFINE d == arg[p].key
<1>1. d \in Keys /\ arg[p].approve \in BOOLEAN /\ cleared \subseteq Keys /\ remarks \in Remarks
  BY DEF TypeOK, Arg
<1>2. AllClearedIsAll'
  BY <1>1, ClearWriteEffect DEF AllClearedIsAll
<1>3. ManagerAgrees'
  <2>1. CASE d = "manager"
    <3>1. remarks' = [remarks EXCEPT !.stored = TRUE, !.done = NewSubSteps(p)]
      BY <2>1, ClearWriteEffect DEF RemarksAfter
    <3>2. remarks'.stored = TRUE /\ remarks'.done = NewSubSteps(p)
      BY <1>1, <3>1 DEF Remarks
    <3>3. "manager" \in cleared' <=> RowCleared(p)
      BY <2>1, ClearWriteEffect
    <3>. QED  BY <2>1, <3>2, <3>3 DEF ManagerAgrees, SubStepsDone, RowCleared
  <2>2. CASE d # "manager"
    <3>1. remarks' = remarks
      BY <2>2, ClearWriteEffect DEF RemarksAfter
    <3>2. "manager" \in cleared' <=> "manager" \in cleared
      BY <2>2, ClearWriteEffect
    <3>. QED  BY <3>1, <3>2 DEF SerialInv, ManagerAgrees, SubStepsDone
  <2>. QED  BY <2>1, <2>2
<1>4. SettlementFollowsFinance'
  <2>1. CASE d = "finance"
    <3>1. RowCleared(p) = arg[p].approve /\ SettledAfter(p) = arg[p].approve
      BY <2>1 DEF RowCleared, SettledAfter
    <3>. QED  BY <1>1, <2>1, <3>1, ClearWriteEffect DEF SettlementFollowsFinance
  <2>2. CASE d # "finance"
    <3>1. exit'.settled = exit.settled
      BY <2>2, ClearWriteEffect DEF SettledAfter
    <3>2. "finance" \in cleared' <=> "finance" \in cleared
      BY <2>2, ClearWriteEffect
    <3>. QED  BY <3>1, <3>2 DEF SerialInv, SettlementFollowsFinance
  <2>. QED  BY <2>1, <2>2
<1>5. remarks'.override = remarks.override
  <2>1. remarks' = RemarksAfter(p) /\ seen[p].remarks = remarks
    BY ClearWriteEffect
  <2>2. remarks \in Remarks
    BY DEF TypeOK
  <2>3. ASSUME NEW r \in Remarks, NEW s
        PROVE  [r EXCEPT !.stored = TRUE, !.done = s].override = r.override
    BY DEF Remarks
  <2>. QED  BY <2>1, <2>2, <2>3 DEF RemarksAfter
<1>6. Blank' /\ NotOverridden'
  BY <1>5, ClearWriteEffect DEF Blank, NotOverridden, SerialInv, Open
<1>. QED  BY <1>2, <1>3, <1>4, <1>6 DEF Core

\* Completing an exit that is still as it was read.
LEMMA CompleteWriteEffect ==
  ASSUME TypeOK, SerialInv, NEW p \in Procs, CompleteWrite(p)
  PROVE  /\ exit.status \in Open /\ exit'.status = "COMPLETED" /\ exit'.blocked = exit.blocked
         /\ exit'.settled = ("finance" \in cleared) /\ cleared' = cleared
         /\ remarks'.stored = remarks.stored /\ remarks'.done = remarks.done
         /\ remarks'.override = (Enforced /\ cleared # Keys)
<1>1. /\ AsRead(p) /\ seen[p].rows = cleared /\ exit.status \in Open /\ ~remarks.override
  BY DEF CompleteWrite, SerialInv, UpToDate, NotOverridden, Open
<1>2. Current(p)
  BY <1>1 DEF Current, AsRead, Open
<1>3. /\ exit' = [exit EXCEPT !.status = "COMPLETED", !.settled = ("finance" \in cleared)]
      /\ remarks' = IF Enforced /\ cleared # Keys THEN [remarks EXCEPT !.override = TRUE] ELSE remarks
      /\ cleared' = cleared
  BY <1>1, <1>2 DEF CompleteWrite, SettledBy, AsRead
<1>4. exit'.status = "COMPLETED" /\ exit'.blocked = exit.blocked
      /\ exit'.settled = ("finance" \in cleared)
  BY <1>3 DEF TypeOK, Exit
<1>5. /\ remarks'.stored = remarks.stored /\ remarks'.done = remarks.done
      /\ remarks'.override = (Enforced /\ cleared # Keys)
  <2>1. CASE Enforced /\ cleared # Keys
    BY <1>3, <2>1 DEF TypeOK, Remarks
  <2>2. CASE ~(Enforced /\ cleared # Keys)
    <3>1. remarks' = remarks /\ remarks.override = FALSE
      BY <1>1, <1>3, <2>2 DEF TypeOK, Remarks
    <3>. QED  BY <2>2, <3>1, ExitConstants
  <2>. QED  BY <2>1, <2>2
<1>. QED  BY <1>1, <1>3, <1>4, <1>5

\* The steps that change nothing an exit is made of.
Aside(p) ==
  \/ Initiate(p) \/ InitiateRead(p) \/ Interview(p) \/ Block(p) \/ Document(p) \/ Leave(p)
  \/ \E d \in Keys, subs \in SUBSET SubSteps, approve \in BOOLEAN : Clear(p, d, subs, approve)
  \/ \E override \in BOOLEAN : Complete(p, override)
  \/ ClearRows(p) \/ CompleteRows(p) \/ BlockRows(p) \/ DocumentRows(p) \/ DocumentWrite(p)
  \/ LeaveWrite(p) \/ Delete(p) \/ Deactivate(p) \/ Return(p) \/ Fail(p)

LEMMA StepKinds ==
  ASSUME NEW p \in Procs, Step(p)
  PROVE  \/ Aside(p) \/ InitiateDelete(p) \/ InitiateCreate(p) \/ InterviewWrite(p)
         \/ ClearWrite(p) \/ CompleteWrite(p) \/ BlockWrite(p)
BY DEF Step, Aside

LEMMA AsideKeeps ==
  ASSUME TypeOK, SerialInv, NEW p \in Procs, Aside(p)
  PROVE  UNCHANGED <<exit, cleared, remarks>>
<1>1. CASE DocumentWrite(p)
  <2>1. seen[p].remarks = remarks
    BY <1>1 DEF DocumentWrite, SerialInv, UpToDate, AsRead
  <2>. QED  BY <1>1, <2>1 DEF DocumentWrite
<1>2. CASE LeaveWrite(p) \/ Delete(p) \/ Deactivate(p) \/ Return(p)
  BY <1>2 DEF LeaveWrite, Delete, Deactivate, Return, SetAccount
<1>3. CASE ~(DocumentWrite(p) \/ LeaveWrite(p) \/ Delete(p) \/ Deactivate(p) \/ Return(p))
  BY <1>3 DEF Aside, Initiate, InitiateRead, Interview, Block, Document, Leave, Clear, Complete,
              ClearRows, CompleteRows, BlockRows, DocumentRows, Fail, Begin, rows
<1>. QED  BY <1>1, <1>2, <1>3

LEMMA Fields ==
  /\ \A n : NoExit(n).status = "NONE" /\ NoExit(n).settled = FALSE /\ NoExit(n).blocked = FALSE
  /\ NoRemarks.stored = FALSE /\ NoRemarks.override = FALSE
BY DEF NoExit, NoRemarks

\* The other writes, on an exit that is as it was read.
LEMMA OtherWrites ==
  ASSUME TypeOK, SerialInv, NEW p \in Procs
  PROVE  /\ InitiateDelete(p) => /\ exit.status = "COMPLETED" /\ exit'.status = "NONE"
                                 /\ exit'.settled = FALSE /\ exit'.blocked = FALSE
                                 /\ cleared' = {} /\ remarks' = NoRemarks
         /\ InitiateCreate(p) => /\ exit.status = "NONE" /\ exit'.status = "INITIATED"
                                 /\ ~exit'.settled /\ ~exit'.blocked /\ exit'.blocked \in BOOLEAN
                                 /\ UNCHANGED <<cleared, remarks>>
         /\ InterviewWrite(p) => /\ exit.status \in Open /\ exit'.status = "INTERVIEW_DONE"
                                 /\ exit'.settled = exit.settled /\ exit'.blocked = exit.blocked
                                 /\ UNCHANGED <<cleared, remarks>>
         /\ BlockWrite(p) => /\ exit.status \in Open /\ exit'.status = exit.status
                             /\ exit'.settled = exit.settled /\ exit.blocked = FALSE
                             /\ exit'.blocked = TRUE /\ Keys \ {"finance"} \subseteq cleared
                             /\ UNCHANGED <<cleared, remarks>>
<1>1. UpToDate(p)
  BY DEF SerialInv
<1>2. ASSUME InitiateDelete(p)
      PROVE  /\ exit.status = "COMPLETED" /\ exit'.status = "NONE"
             /\ exit'.settled = FALSE /\ exit'.blocked = FALSE
             /\ cleared' = {} /\ remarks' = NoRemarks
  <2>1. /\ exit.status = "COMPLETED" /\ exit' = NoExit(exit.round)
        /\ cleared' = {} /\ remarks' = NoRemarks
    BY <1>1, <1>2 DEF InitiateDelete, UpToDate
  <2>. QED  BY <2>1, Fields
<1>3. ASSUME InitiateCreate(p)
      PROVE  /\ exit.status = "NONE" /\ exit'.status = "INITIATED"
             /\ ~exit'.settled /\ ~exit'.blocked /\ exit'.blocked \in BOOLEAN
             /\ UNCHANGED <<cleared, remarks>>
  BY <1>1, <1>3 DEF InitiateCreate, UpToDate, NoExit
<1>4. ASSUME InterviewWrite(p)
      PROVE  /\ exit.status \in Open /\ exit'.status = "INTERVIEW_DONE"
             /\ exit'.settled = exit.settled /\ exit'.blocked = exit.blocked
             /\ UNCHANGED <<cleared, remarks>>
  <2>1. exit.status \in Open /\ Current(p)
    BY <1>1, <1>4 DEF InterviewWrite, UpToDate, AsRead, Current, Open
  <2>. QED  BY <1>4, <2>1 DEF InterviewWrite, TypeOK, Exit
<1>5. ASSUME BlockWrite(p)
      PROVE  /\ exit.status \in Open /\ exit'.status = exit.status
             /\ exit'.settled = exit.settled /\ exit.blocked = FALSE
             /\ exit'.blocked = TRUE /\ Keys \ {"finance"} \subseteq cleared
             /\ UNCHANGED <<cleared, remarks>>
  <2>1. exit.status \in Open /\ Current(p) /\ ~exit.blocked /\ Keys \ {"finance"} \subseteq cleared
    BY <1>1, <1>5 DEF BlockWrite, UpToDate, AsRead, Current, Open
  <2>. QED  BY <1>5, <2>1 DEF BlockWrite, TypeOK, Exit
<1>. QED  BY <1>2, <1>3, <1>4, <1>5

LEMMA CoreKept ==
  ASSUME TypeOK, SerialInv, NEW p \in Procs, Step(p)
  PROVE  Core'
<1>0. Core
  BY DEF SerialInv, Core
<1>1. CASE Aside(p)
  BY <1>0, <1>1, AsideKeeps
     DEF Core, AllClearedIsAll, ManagerAgrees, SettlementFollowsFinance, Blank, NotOverridden
<1>2. CASE InitiateDelete(p)
  <2>1. /\ exit'.status = "NONE" /\ ~exit'.settled /\ ~exit'.blocked
        /\ cleared' = {} /\ remarks' = NoRemarks
    BY <1>2, OtherWrites
  <2>2. NoRemarks.stored = FALSE /\ NoRemarks.override = FALSE
    BY Fields
  <2>3. ManagerAgrees'
    <3>1. SubStepsDone(remarks, "manager" \in cleared)' = {}
      BY <2>1, <2>2 DEF SubStepsDone
    <3>. QED  BY <2>1, <3>1 DEF ManagerAgrees, SubSteps
  <2>. QED  BY <2>1, <2>2, <2>3 DEF Core, AllClearedIsAll, SettlementFollowsFinance, Blank, NotOverridden
<1>3. CASE InitiateCreate(p)
  BY <1>0, <1>3, OtherWrites DEF Core, AllClearedIsAll, ManagerAgrees, SettlementFollowsFinance,
     Blank, NotOverridden, NoRemarks
<1>4. CASE InterviewWrite(p)
  BY <1>0, <1>4, OtherWrites DEF Core, AllClearedIsAll, ManagerAgrees, SettlementFollowsFinance,
     Blank, NotOverridden, Open
<1>5. CASE ClearWrite(p)
  BY <1>5, ClearWriteCore
<1>6. CASE CompleteWrite(p)
  BY <1>0, <1>6, CompleteWriteEffect DEF Core, AllClearedIsAll, ManagerAgrees, SubStepsDone,
     SettlementFollowsFinance, Blank, NotOverridden
<1>7. CASE BlockWrite(p)
  BY <1>0, <1>7, OtherWrites DEF Core, AllClearedIsAll, ManagerAgrees, SettlementFollowsFinance,
     Blank, NotOverridden, Open
<1>. QED  BY <1>1, <1>2, <1>3, <1>4, <1>5, <1>6, <1>7, StepKinds

-----------------------------------------------------------------------------
(* One handler at a time: what a handler has read is still so.             *)

LEMMA BeginUpToDate ==
  ASSUME TypeOK, NEW p \in Procs, NEW stage, NEW a, Begin(p, stage, a)
  PROVE  AsRead(p)' /\ pc'[p] = stage /\ UNCHANGED <<exit, cleared, remarks, account, records>>
BY DEF Begin, AsRead, ExitRead, TypeOK, rows

LEMMA ProceedUpToDate ==
  ASSUME TypeOK, NEW p \in Procs, NEW stage, Proceed(p, stage), UNCHANGED rows, AsRead(p)
  PROVE  /\ AsRead(p)' /\ pc'[p] = stage /\ seen'[p].rows = cleared' /\ seen'[p] = Looked(p)
         /\ UNCHANGED <<exit, cleared, remarks, account, records, arg>>
<1>1. /\ Looked(p).round = seen[p].round /\ Looked(p).status = seen[p].status
      /\ Looked(p).remarks = seen[p].remarks /\ Looked(p).manager = seen[p].manager
      /\ Looked(p).rows = cleared
  BY DEF Looked, TypeOK, Seen
<1>. QED  BY <1>1 DEF Proceed, AsRead, TypeOK, rows

LEMMA FinishUpToDate ==
  ASSUME TypeOK, NEW p \in Procs, Finish(p)
  PROVE  UpToDate(p)'
BY DEF Finish, TypeOK, UpToDate

LEMMA UpToDateKept ==
  ASSUME TypeOK, SerialInv, NEW p \in Procs, Step(p)
  PROVE  UpToDate(p)'
<1>0. UpToDate(p)
  BY DEF SerialInv
<1>1. CASE Initiate(p)
  BY <1>1, BeginUpToDate DEF Initiate, UpToDate
<1>2. CASE InitiateRead(p)
  <2>1. CASE Finish(p)
    BY <2>1, FinishUpToDate
  <2>2. CASE ~Finish(p)
    <3>1. pc'[p] = (IF exit.status = "NONE" THEN "initiateCreate" ELSE "initiateDelete")
          /\ exit.status \notin Open /\ exit' = exit
      BY <1>2, <2>2 DEF InitiateRead, Refused, rows, TypeOK
    <3>2. exit.status \in {"NONE", "COMPLETED"}
      BY <3>1 DEF TypeOK, Exit, Status
    <3>. QED  BY <3>1, <3>2 DEF UpToDate
  <2>. QED  BY <2>1, <2>2
<1>3. CASE InitiateDelete(p)
  <2>1. CASE Finish(p)
    BY <2>1, FinishUpToDate
  <2>2. CASE ~Finish(p)
    <3>1. pc'[p] = "initiateCreate" /\ exit'.status = "NONE"
      BY <1>3, <2>2 DEF InitiateDelete, TypeOK, NoExit
    <3>. QED  BY <3>1 DEF UpToDate
  <2>. QED  BY <2>1, <2>2
<1>4. CASE Interview(p)
  BY <1>4, BeginUpToDate DEF Interview, UpToDate
<1>5. CASE \E d \in Keys, subs \in SUBSET SubSteps, approve \in BOOLEAN : Clear(p, d, subs, approve)
  BY <1>5, BeginUpToDate DEF Clear, UpToDate
<1>6. CASE \E override \in BOOLEAN : Complete(p, override)
  BY <1>6, BeginUpToDate DEF Complete, UpToDate, StillThere
<1>7. CASE Block(p)
  BY <1>7, BeginUpToDate DEF Block, UpToDate, StillThere
<1>8. CASE Document(p)
  BY <1>8, BeginUpToDate DEF Document, UpToDate
<1>9. CASE Leave(p)
  BY <1>9, BeginUpToDate DEF Leave, UpToDate, StillThere
<1>10. CASE ClearRows(p) /\ ~Finish(p)
  <2>1. /\ Proceed(p, "clearWrite") /\ UNCHANGED rows /\ InOrder(arg[p], Looked(p))
        /\ AsRead(p) /\ exit.status \in Open
    BY <1>0, <1>10 DEF ClearRows, UpToDate
  <2>. QED  BY <2>1, ProceedUpToDate DEF UpToDate, InOrder, Done, SubStepsSeen
<1>11. CASE CompleteRows(p) /\ ~Finish(p)
  <2>1. /\ Proceed(p, "completeWrite") /\ UNCHANGED rows /\ MayComplete(arg[p], Looked(p))
        /\ AsRead(p) /\ exit.status \in Open /\ StillThere
    BY <1>0, <1>11 DEF CompleteRows, UpToDate
  <2>. QED  BY <2>1, ProceedUpToDate DEF UpToDate, MayComplete, StillThere
<1>12. CASE BlockRows(p) /\ ~Finish(p)
  <2>1. /\ Proceed(p, "blockWrite") /\ UNCHANGED rows /\ Keys \ {"finance"} \subseteq Done(Looked(p))
        /\ AsRead(p) /\ exit.status \in Open /\ StillThere /\ ~exit.blocked
    BY <1>0, <1>12 DEF BlockRows, UpToDate
  <2>2. Done(Looked(p)) = cleared
    <3>1. /\ Looked(p).remarks = remarks /\ Looked(p).rows = cleared
          /\ Looked(p).manager = ("manager" \in cleared)
      BY <2>1 DEF Looked, AsRead, TypeOK, Seen
    <3>. QED  BY <3>1, DoneIsCleared DEF SerialInv
  <2>. QED  BY <2>1, <2>2, ProceedUpToDate DEF UpToDate, StillThere
<1>13. CASE DocumentRows(p) /\ ~Finish(p)
  <2>1. /\ pc'[p] = "documentWrite" /\ UNCHANGED rows /\ UNCHANGED <<arg, seen>> /\ AsRead(p)
    BY <1>0, <1>13 DEF DocumentRows, UpToDate, TypeOK
  <2>. QED  BY <2>1 DEF UpToDate, AsRead, rows
<1>14. CASE Delete(p) \/ Deactivate(p) \/ Return(p)
  <2>1. pc'[p] = "idle"
    BY <1>14 DEF Delete, Deactivate, Return, SetAccount
  <2>. QED  BY <2>1 DEF UpToDate
<1>15. CASE \/ InitiateCreate(p) \/ InterviewWrite(p) \/ ClearWrite(p) \/ CompleteWrite(p)
            \/ BlockWrite(p) \/ DocumentWrite(p) \/ LeaveWrite(p) \/ Fail(p) \/ Finish(p)
  BY <1>15, FinishUpToDate DEF InitiateCreate, InterviewWrite, ClearWrite, CompleteWrite,
     BlockWrite, DocumentWrite, LeaveWrite, Fail
<1>. QED  BY <1>1, <1>2, <1>3, <1>4, <1>5, <1>6, <1>7, <1>8, <1>9, <1>10, <1>11, <1>12, <1>13,
          <1>14, <1>15 DEF Step

LEMMA SerialStep ==
  ASSUME OneAtATime
  PROVE  TypeOK /\ SerialInv /\ [Next]_vars => SerialInv'
<1>. SUFFICES ASSUME TypeOK, SerialInv, [Next]_vars PROVE SerialInv'
  OBVIOUS
<1>1. ASSUME NEW p \in Procs, Step(p) PROVE SerialInv'
  <2>1. \A q \in Procs : q = p
    BY DEF OneAtATime
  <2>. QED  BY <1>1, <2>1, CoreKept, UpToDateKept DEF Core, SerialInv
<1>2. CASE UNCHANGED vars
  BY <1>2 DEF vars, SerialInv, AllClearedIsAll, ManagerAgrees, SettlementFollowsFinance, Blank,
     NotOverridden, UpToDate, AsRead, InOrder, MayComplete, StillThere, Done, SubStepsSeen
<1>. QED  BY <1>1, <1>2 DEF Next

LEMMA SerialInit == Init => SerialInv
BY DEF Init, NoExit, NoRemarks, SerialInv, AllClearedIsAll, ManagerAgrees, SubStepsDone, SubSteps,
       SettlementFollowsFinance, Blank, NotOverridden, UpToDate

-----------------------------------------------------------------------------
(* The theorems.                                                           *)

\* Handlers that run one at a time report an exit ready to be completed only
\* when every clearance is given.
THEOREM ReadyOnlyWhenCleared ==
  ASSUME OneAtATime
  PROVE  Spec => []AllClearedIsAll
<1>1. TypeOK /\ SerialInv /\ [Next]_vars => SerialInv'
  BY SerialStep
<1>2. SerialInv => AllClearedIsAll
  BY DEF SerialInv
<1>. QED  BY <1>1, <1>2, SerialInit, TypeInit, TypeStep, PTL DEF Spec

\* Handlers that run one at a time keep the manager's row and the sub-steps in
\* the remarks in agreement.
THEOREM ManagerAlwaysAgrees ==
  ASSUME OneAtATime
  PROVE  Spec => []ManagerAgrees
<1>1. TypeOK /\ SerialInv /\ [Next]_vars => SerialInv'
  BY SerialStep
<1>2. SerialInv => ManagerAgrees
  BY DEF SerialInv
<1>. QED  BY <1>1, <1>2, SerialInit, TypeInit, TypeStep, PTL DEF Spec

\* Handlers that run one at a time have the settlement follow Finance, through
\* revocations and completions over a pending Finance clearance.
THEOREM SettlementAlwaysFollows ==
  ASSUME OneAtATime
  PROVE  Spec => []SettlementFollowsFinance
<1>1. TypeOK /\ SerialInv /\ [Next]_vars => SerialInv'
  BY SerialStep
<1>2. SerialInv => SettlementFollowsFinance
  BY DEF SerialInv
<1>. QED  BY <1>1, <1>2, SerialInit, TypeInit, TypeStep, PTL DEF Spec

\* Records grow only by the two handlers that have found the employee there.
LEMMA FiledByWrites ==
  ASSUME TypeOK, SerialInv, NEW p \in Procs, Step(p), records' > records
  PROVE  account # "DELETED"
<1>1. CASE CompleteWrite(p) \/ LeaveWrite(p)
  BY <1>1 DEF CompleteWrite, LeaveWrite, SerialInv, UpToDate, StillThere
<1>2. CASE ~(CompleteWrite(p) \/ LeaveWrite(p))
  <2>1. records' = records
    BY <1>2 DEF Step, Initiate, InitiateRead, InitiateDelete, InitiateCreate, Interview,
       InterviewWrite, Clear, ClearRows, ClearWrite, Complete, CompleteRows, Block, BlockRows,
       BlockWrite, Document, DocumentRows, DocumentWrite, Leave, Delete, Deactivate, Return,
       SetAccount, Fail, Begin, rows
  <2>. QED  BY <2>1 DEF TypeOK
<1>. QED  BY <1>1, <1>2

\* Handlers that run one at a time never file somebody as having left who is
\* gone already.
THEOREM AlwaysFiledOnce ==
  ASSUME OneAtATime
  PROVE  Spec => FiledOnce
<1>1. TypeOK /\ SerialInv /\ [Next]_vars => SerialInv'
  BY SerialStep
<1>2. TypeOK /\ SerialInv /\ [Next]_vars => [records' > records => account # "DELETED"]_vars
  BY FiledByWrites DEF Next
<1>. QED  BY <1>1, <1>2, SerialInit, TypeInit, TypeStep, PTL DEF Spec, FiledOnce

\* Each step of a handler is a step of the promised process, or none.
LEMMA StepsAreSteps ==
  ASSUME TypeOK, SerialInv, NEW p \in Procs, Step(p)
  PROVE  Process!Next \/ UNCHANGED <<Phase, cleared, exit.blocked, remarks.override>>
<1>1. CASE Aside(p)
  BY <1>1, AsideKeeps DEF Phase
<1>2. CASE InitiateDelete(p)
  <2>1. Phase = "completed" /\ Phase' = "none" /\ cleared' = {}
        /\ exit'.blocked = FALSE /\ remarks'.override = FALSE
    BY <1>2, OtherWrites, Fields DEF Phase
  <2>. QED  BY <2>1 DEF Process!Next, Process!Remove, Process!Blank
<1>3. CASE InitiateCreate(p)
  <2>1. Phase = "none" /\ Phase' = "open" /\ cleared' = {}
        /\ exit'.blocked = FALSE /\ remarks'.override = FALSE
    BY <1>3, OtherWrites, Fields DEF Phase, SerialInv, Blank
  <2>. QED  BY <2>1 DEF Process!Next, Process!Start, Process!Blank
<1>4. CASE InterviewWrite(p)
  BY <1>4, OtherWrites DEF Phase, Open
<1>5. CASE ClearWrite(p)
  <2>. DEFINE d == arg[p].key
  <2>1. Phase = "open" /\ Phase' = "open" /\ d \in Keys /\ exit'.blocked = exit.blocked
    BY <1>5, ClearWriteEffect DEF Phase, Open
  <2>2. remarks'.override = remarks.override
    BY <1>5, ClearWriteEffect DEF RemarksAfter, TypeOK, Remarks
  <2>3. CASE RowCleared(p)
    <3>1. Process!Approve(d)
      BY <1>5, <2>1, <2>2, <2>3, ClearWriteEffect DEF Process!Approve
    <3>. QED  BY <2>1, <3>1 DEF Process!Next
  <2>4. CASE ~RowCleared(p)
    <3>1. Process!Revoke(d)
      BY <1>5, <2>1, <2>2, <2>4, ClearWriteEffect DEF Process!Revoke
    <3>. QED  BY <2>1, <3>1 DEF Process!Next
  <2>. QED  BY <2>3, <2>4
<1>6. CASE CompleteWrite(p)
  <2>1. Phase = "open" /\ Phase' = "completed"
    BY <1>6, CompleteWriteEffect DEF Phase, Open
  <2>. QED  BY <1>6, <2>1, CompleteWriteEffect DEF Process!Next, Process!Complete
<1>7. CASE BlockWrite(p)
  <2>1. Phase = "open" /\ Phase' = Phase
    BY <1>7, OtherWrites DEF Phase, Open
  <2>. QED  BY <1>7, <2>1, OtherWrites DEF Process!Next, Process!BlockAccess
<1>. QED  BY <1>1, <1>2, <1>3, <1>4, <1>5, <1>6, <1>7, StepKinds

\* Handlers that run one at a time clear in order, block access only when
\* Finance alone is left, note every override and leave completed exits alone.
THEOREM ImplementsExitProcess ==
  ASSUME OneAtATime
  PROVE  Spec => ExitProcessSpec
<1>1. TypeOK /\ SerialInv /\ [Next]_vars => SerialInv'
  BY SerialStep
<1>2. Init => Process!Init
  BY DEF Init, NoExit, NoRemarks, Phase, Process!Init
<1>3. TypeOK /\ SerialInv /\ [Next]_vars => [Process!Next]_<<Phase, cleared, exit.blocked, remarks.override>>
  <2>. SUFFICES ASSUME TypeOK, SerialInv, [Next]_vars
                PROVE  [Process!Next]_<<Phase, cleared, exit.blocked, remarks.override>>
    OBVIOUS
  <2>1. CASE \E p \in Procs : Step(p)
    BY <2>1, StepsAreSteps
  <2>2. CASE UNCHANGED vars
    BY <2>2 DEF vars, Phase
  <2>. QED  BY <2>1, <2>2 DEF Next
<1>. QED  BY <1>1, <1>2, <1>3, SerialInit, TypeInit, TypeStep, PTL
          DEF Spec, ExitProcessSpec, Process!Spec, Process!process
=============================================================================
