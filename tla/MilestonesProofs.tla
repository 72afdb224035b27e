-------------------------- MODULE MilestonesProofs --------------------------
(***************************************************************************)
(* Theorems about GoalWorkflow and Milestones, for every set of employees, *)
(* tasks, milestones and requests: the types, and that work on a milestone *)
(* waits for its approval, under every interleaving; and, for requests     *)
(* that come one at a time, that a goal is completed with its assignments, *)
(* that the approval of the last task completes it, and that a task is     *)
(* done only with its milestones.                                          *)
(***************************************************************************)
EXTENDS Milestones, TLAPS

-----------------------------------------------------------------------------
(* Types of the workflow.                                                  *)

\* The first assignee of a goal stays its assignee.
TypeInv == TypeOK /\ Primary \in Assigned

LEMMA Statuses ==
  /\ Status = {"CHANGES_REQUESTED", "PENDING_APPROVAL", "ACTIVE", "PENDING_MANAGER_REVIEW",
               "COMPLETED"}
  /\ Rank["CHANGES_REQUESTED"] = 0 /\ Rank["PENDING_APPROVAL"] = 2 /\ Rank["ACTIVE"] = 3
  /\ Rank["PENDING_MANAGER_REVIEW"] = 5 /\ Rank["COMPLETED"] = 7
BY DEF Status, Rank

LEMMA BlankTypes ==
  /\ NoTask \in Task /\ NoArg \in Arg /\ NothingSeen \in Seen
  /\ NoArg.then = "idle" /\ NoArg.keeps = FALSE
<1>1. (CHOOSE t \in Tasks : TRUE) \in Tasks
  BY GoalConstants
<1>2. NoTask \in Task
  BY DEF NoTask, Task, Work, Review
<1>3. NoArg \in Arg /\ NoArg.then = "idle" /\ NoArg.keeps = FALSE
  BY <1>1, <1>2, Statuses DEF NoArg, Arg
<1>4. NothingSeen \in Seen
  BY Statuses DEF NothingSeen, Seen
<1>. QED  BY <1>2, <1>3, <1>4

\* What a request holds.
LEMMA Held ==
  ASSUME TypeOK, NEW p \in Procs
  PROVE  /\ arg[p] \in Arg /\ arg[p].who \subseteq Emps /\ arg[p].to \in Status
         /\ arg[p].t \in Tasks /\ arg[p].row \in Task /\ arg[p].then \in {"idle", "completeRead"}
         /\ arg[p].keeps \in BOOLEAN /\ Of[arg[p].t] \in Emps
         /\ seen[p] \in Seen /\ seen[p].status \in Status /\ seen[p].progress \in BOOLEAN
         /\ seen[p].moving \in BOOLEAN /\ seen[p].all \in BOOLEAN
<1>1. arg[p] \in Arg /\ seen[p] \in Seen
  BY DEF TypeOK
<1>2. arg[p].t \in Tasks
  BY <1>1 DEF Arg
<1>. QED  BY <1>1, <1>2, GoalConstants DEF Arg, Seen

\* The roll-up is the status of an assignee, and none is less advanced.
LEMMA LeastAdvanced ==
  ASSUME Primary \in Assigned, NEW table, \A e \in Assigned : table[e] \in Status
  PROVE  /\ RollUp(table) \in Status
         /\ \E e \in Assigned : RollUp(table) = table[e]
         /\ \A e \in Assigned : Rank[RollUp(table)] <= Rank[table[e]]
<1>. DEFINE S == {table[e] : e \in Assigned}
            Least(s) == s \in S /\ \A e \in Assigned : Rank[s] <= Rank[table[e]]
<1>1. S # {} /\ S \subseteq Status
  OBVIOUS
<1>2. \E s : Least(s)
  <2>1. CASE "CHANGES_REQUESTED" \in S
    BY <2>1, Statuses
  <2>2. CASE "CHANGES_REQUESTED" \notin S /\ "PENDING_APPROVAL" \in S
    BY <2>2, Statuses
  <2>3. CASE S \subseteq {"ACTIVE", "PENDING_MANAGER_REVIEW", "COMPLETED"} /\ "ACTIVE" \in S
    BY <2>3, Statuses
  <2>4. CASE S \subseteq {"PENDING_MANAGER_REVIEW", "COMPLETED"} /\ "PENDING_MANAGER_REVIEW" \in S
    BY <2>4, Statuses
  <2>5. CASE S \subseteq {"COMPLETED"} /\ "COMPLETED" \in S
    BY <2>5, Statuses
  <2>. QED  BY <1>1, <2>1, <2>2, <2>3, <2>4, <2>5, Statuses
<1>3. Least(RollUp(table))
  BY <1>2 DEF RollUp
<1>. QED  BY <1>1, <1>3

-----------------------------------------------------------------------------
(* The shapes that the steps of the workflow share.                        *)

LEMMA BeginType ==
  ASSUME TypeInv, NEW p \in Procs, NEW stage \in Stage, NEW a \in Arg, Begin(p, stage, a)
  PROVE  TypeInv'
BY DEF Begin, rows, TypeInv, TypeOK, Assigned

FlightOK == pc \in [Procs -> Stage] /\ arg \in [Procs -> Arg] /\ seen \in [Procs -> Seen]
RowsOK ==
  /\ started \in BOOLEAN /\ goal \in Status /\ asg \in [Emps -> Status \cup {"NONE"}]
  /\ progress \in BOOLEAN /\ ahead \subseteq Emps /\ task \in [Tasks -> Task]
  /\ Primary \in Assigned

LEMMA TypeParts == TypeInv <=> RowsOK /\ FlightOK
BY DEF TypeInv, TypeOK, RowsOK, FlightOK

LEMMA GotoType ==
  ASSUME TypeInv, NEW p \in Procs, NEW stage \in Stage, NEW what \in Seen, Goto(p, stage, what)
  PROVE  FlightOK'
BY DEF Goto, TypeInv, TypeOK, FlightOK

LEMMA FinishType ==
  ASSUME TypeInv, NEW p \in Procs, Finish(p)
  PROVE  FlightOK'
BY BlankTypes DEF Finish, TypeInv, TypeOK, FlightOK, Stage

\* Nobody is assigned or unassigned.
LEMMA AssignmentsType ==
  ASSUME TypeInv, NEW S, NEW status \in Status, NEW forward, WriteAssignments(S, status, forward)
  PROVE  RowsOK' /\ Assigned' = Assigned
<1>1. asg \in [Emps -> Status \cup {"NONE"}] /\ Primary \in Assigned /\ ahead \subseteq Emps
  BY DEF TypeInv, TypeOK
<1>2. asg' \in [Emps -> Status \cup {"NONE"}]
  BY <1>1 DEF WriteAssignments
<1>3. "NONE" \notin Status
  BY Statuses
<1>4. Assigned' = Assigned
  BY <1>1, <1>3 DEF WriteAssignments, Assigned
<1>5. ahead' \subseteq Emps
  BY <1>1 DEF WriteAssignments, Assigned
<1>. QED  BY <1>1, <1>2, <1>4, <1>5 DEF WriteAssignments, RowsOK, TypeInv, TypeOK

LEMMA TaskType ==
  ASSUME TypeInv, NEW t \in Tasks, NEW row \in Task, WriteTask(t, row)
  PROVE  RowsOK'
BY DEF WriteTask, RowsOK, TypeInv, TypeOK, Assigned

\* The fields of a task.
LEMMA TaskFields ==
  ASSUME NEW row \in Task
  PROVE  row.work \in Work /\ row.review \in Review /\ row.private \in BOOLEAN
BY DEF Task

LEMMA ReviewAfterType ==
  ASSUME NEW old \in Task, NEW work, NEW byOwner \in BOOLEAN
  PROVE  ReviewAfter(old, work, byOwner) \in Review
<1>1. old.review \in Review /\ old.private \in BOOLEAN
  BY TaskFields
<1>. QED  BY <1>1 DEF ReviewAfter, Review

LEMMA ChangeType ==
  ASSUME TypeInv, NEW p \in Procs, NEW t \in Tasks, NEW row \in Task, NEW approves \in BOOLEAN,
         TaskChange(p, t, row, approves)
  PROVE  TypeInv'
<1>1. [NoArg EXCEPT !.t = t, !.row = row,
         !.then = IF approves THEN "completeRead" ELSE "idle"] \in Arg
  BY BlankTypes DEF Arg
<1>. QED  BY <1>1, BeginType DEF TaskChange, Stage

-----------------------------------------------------------------------------
(* Types, action by action.                                                *)

LEMMA TargetsType ==
  ASSUME NEW stages, NEW S \in Targets(stages)
  PROVE  S \subseteq Emps
BY DEF Targets

\* The requests of the workflow.
LEMMA AskType ==
  ASSUME TypeInv, NEW p \in Procs,
         \/ Activate(p) \/ SubmitForFirst(p)
         \/ \E e \in Emps : Submit(p, e) \/ Resubmit(p, e) \/ Add(p, e)
         \/ \E approve \in BOOLEAN : ManagerReview(p, approve) \/ HrReview(p, approve)
  PROVE  TypeInv'
<1>0. NoArg \in Arg /\ goal \in Status /\ Primary \in Emps
  BY BlankTypes, GoalConstants DEF TypeInv, TypeOK
<1>1. CASE Activate(p)
  <2>1. [NoArg EXCEPT !.who = Emps, !.to = "ACTIVE", !.keeps = TRUE] \in Arg
    BY <1>0, Statuses DEF Arg
  <2>. QED  BY <1>1, <2>1, BeginType DEF Activate, Stage
<1>2. ASSUME NEW e \in Emps, NEW s, SubmitFor(p, e, s) PROVE TypeInv'
  <2>1. [NoArg EXCEPT !.who = {e}, !.to = "PENDING_MANAGER_REVIEW"] \in Arg
    BY <1>0, Statuses DEF Arg
  <2>. QED  BY <1>2, <2>1, BeginType DEF SubmitFor, Stage
<1>3. CASE SubmitForFirst(p)
  BY <1>0, <1>2, <1>3 DEF SubmitForFirst
<1>4. ASSUME NEW e \in Emps, Submit(p, e) PROVE TypeInv'
  BY <1>2, <1>4 DEF Submit
<1>5. ASSUME NEW e \in Emps, Resubmit(p, e) PROVE TypeInv'
  <2>1. [NoArg EXCEPT !.who = {e}, !.keeps = TRUE,
           !.to = IF Unbegun THEN "PENDING_APPROVAL" ELSE "PENDING_MANAGER_REVIEW"] \in Arg
    BY <1>0, Statuses DEF Arg
  <2>. QED  BY <1>5, <2>1, BeginType DEF Resubmit, Stage
<1>6. ASSUME NEW e \in Emps, Add(p, e) PROVE TypeInv'
  <2>1. [NoArg EXCEPT !.who = {e}, !.to = goal] \in Arg
    BY <1>0 DEF Arg
  <2>. QED  BY <1>6, <2>1, BeginType DEF Add, Stage
<1>7. ASSUME NEW approve \in BOOLEAN, NEW stages, NEW S \in Targets(stages), Decide(p, approve, S)
      PROVE  TypeInv'
  <2>1. S \subseteq Emps
    BY TargetsType
  <2>2. [NoArg EXCEPT !.who = S, !.to = IF approve THEN "COMPLETED" ELSE "CHANGES_REQUESTED"] \in Arg
    BY <1>0, <2>1, Statuses DEF Arg
  <2>. QED  BY <1>7, <2>2, BeginType DEF Decide, Stage
<1>8. ASSUME NEW approve \in BOOLEAN, ManagerReview(p, approve) \/ HrReview(p, approve)
      PROVE  TypeInv'
  BY <1>7, <1>8 DEF ManagerReview, HrReview
<1>. QED  BY <1>1, <1>3, <1>4, <1>5, <1>6, <1>8

\* The statements of the workflow.
LEMMA WorkType ==
  ASSUME TypeInv, NEW p \in Procs,
         ActivateWrite(p) \/ WorkflowWrite(p) \/ GoalWrite(p) \/ AddWrite(p)
  PROVE  TypeInv'
<1>0. /\ arg[p].to \in Status /\ seen[p].status \in Status /\ seen[p].progress \in BOOLEAN
      /\ arg[p].then \in {"idle", "completeRead"} /\ NothingSeen \in Seen
      /\ asg \in [Emps -> Status \cup {"NONE"}] /\ "NONE" \notin Status
  BY Held, BlankTypes, Statuses DEF TypeInv, TypeOK
<1>1. CASE ActivateWrite(p)
  <2>1. [NothingSeen EXCEPT !.status = "ACTIVE"] \in Seen
    BY <1>0, Statuses DEF Seen
  <2>2. FlightOK'
    BY <1>1, <2>1, GotoType DEF ActivateWrite, Stage
  <2>3. RowsOK'
    BY <1>1, AssignmentsType, Statuses DEF ActivateWrite
  <2>. QED  BY <2>2, <2>3, TypeParts, PTL
<1>2. CASE WorkflowWrite(p)
  <2>1. RowsOK' /\ Assigned' = Assigned
    BY <1>0, <1>2, AssignmentsType DEF WorkflowWrite
  <2>2. \A e \in Assigned : asg'[e] \in Status
    BY <2>1 DEF RowsOK, Assigned
  <2>3. PICK table : table = asg'
    OBVIOUS
  <2>4. RollUp(table) \in Status
    BY <2>2, <2>3, LeastAdvanced DEF TypeInv
  <2>5. [NothingSeen EXCEPT !.status = RollUp(table), !.progress = ahead' # {}] \in Seen
    BY <1>0, <2>4 DEF Seen
  <2>6. FlightOK'
    BY <1>2, <2>3, <2>5, GotoType DEF WorkflowWrite, Stage
  <2>. QED  BY <2>1, <2>6, TypeParts, PTL
<1>3. CASE GoalWrite(p)
  <2>1. FlightOK'
    BY <1>0, <1>3, GotoType, FinishType DEF GoalWrite, Stage
  <2>2. RowsOK'
    BY <1>0, <1>3 DEF GoalWrite, RowsOK, TypeInv, TypeOK, Assigned
  <2>. QED  BY <2>1, <2>2, TypeParts, PTL
<1>4. CASE AddWrite(p)
  <2>1. FlightOK'
    BY <1>4, FinishType DEF AddWrite
  <2>2. asg' \in [Emps -> Status \cup {"NONE"}] /\ Assigned \subseteq Assigned'
    BY <1>0, <1>4 DEF AddWrite, Assigned
  <2>3. RowsOK'
    BY <1>4, <2>2 DEF AddWrite, RowsOK, TypeInv, TypeOK
  <2>. QED  BY <2>1, <2>3, TypeParts, PTL
<1>. QED  BY <1>1, <1>2, <1>3, <1>4

\* The requests about tasks.
LEMMA CreateType ==
  ASSUME TypeInv, NEW p \in Procs, NEW t \in Tasks, NEW asked, NEW work \in Work,
         NEW private \in BOOLEAN, NEW byOwner \in BOOLEAN,
         Create(p, t, asked, work, private, byOwner)
  PROVE  TypeInv'
<1>1. PICK new : new = [NoTask EXCEPT !.work = work, !.private = private]
  OBVIOUS
<1>2. new \in Task /\ [new EXCEPT !.work = "todo"] \in Task
  BY <1>1, BlankTypes DEF Task, Work
<1>3. PICK review : review = ReviewAfter([new EXCEPT !.work = "todo"], work, byOwner)
  OBVIOUS
<1>4. review \in Review
  BY <1>2, <1>3, ReviewAfterType
<1>5. [new EXCEPT !.review = review] \in Task
  BY <1>2, <1>4 DEF Task
<1>6. TaskChange(p, t, [new EXCEPT !.review = review], FALSE)
  BY <1>1, <1>3 DEF Create
<1>. QED  BY <1>5, <1>6, ChangeType

LEMMA UpdateType ==
  ASSUME TypeInv, NEW p \in Procs, NEW t \in Tasks, NEW work \in Work,
         NEW private \in BOOLEAN, NEW byOwner \in BOOLEAN, NEW dated,
         Update(p, t, work, private, byOwner, dated)
  PROVE  TypeInv'
<1>1. task[t] \in Task
  BY DEF TypeInv, TypeOK
<1>2. PICK review : review = ReviewAfter(task[t], work, byOwner)
  OBVIOUS
<1>3. review \in Review
  BY <1>1, <1>2, ReviewAfterType
<1>4. [work |-> work, review |-> review, private |-> private] \in Task
  BY <1>3 DEF Task
<1>5. TaskChange(p, t, [work |-> work, review |-> review, private |-> private],
                 review = "APPROVED" /\ ~Complete(task[t]))
  BY <1>2 DEF Update
<1>. QED  BY <1>4, <1>5, ChangeType DEF Complete

\* The write of a task, and the review of one.
LEMMA WrittenType ==
  ASSUME TypeInv, NEW p \in Procs, NEW row \in Task, Written(p, row)
  PROVE  TypeInv'
<1>1. arg[p].t \in Tasks /\ Of[arg[p].t] \in Emps /\ NothingSeen \in Seen
  BY Held, BlankTypes DEF TypeInv
<1>2. RowsOK'
  BY <1>1, TaskType DEF Written
<1>3. PICK what : what = [NothingSeen EXCEPT
         !.status = IF Of[arg[p].t] \in Assigned THEN asg[Of[arg[p].t]] ELSE @,
         !.progress = Moving(task', {t \in Tasks : Of[t] = Of[arg[p].t]}),
         !.moving = Moving(task', Tasks)]
  OBVIOUS
<1>4. Of[arg[p].t] \in Assigned => asg[Of[arg[p].t]] \in Status
  BY <1>1 DEF TypeInv, TypeOK, Assigned
<1>5. \A table, S : Moving(table, S) \in BOOLEAN
  BY DEF Moving
<1>6. what \in Seen
  BY <1>1, <1>3, <1>4, <1>5 DEF Seen
<1>7. FlightOK'
  BY <1>3, <1>6, GotoType DEF Written, Stage
<1>. QED  BY <1>2, <1>7, TypeParts, PTL

LEMMA ReviewTaskType ==
  ASSUME TypeInv, NEW p \in Procs, NEW t \in Tasks, NEW review \in Review, ReviewTask(p, t, review)
  PROVE  TypeInv'
<1>1. [task[t] EXCEPT !.review = review] \in Task
  BY DEF TypeInv, TypeOK, Task
<1>2. RowsOK'
  BY <1>1, TaskType DEF ReviewTask
<1>3. FlightOK'
  BY BlankTypes, GotoType, FinishType DEF ReviewTask, Stage
<1>. QED  BY <1>2, <1>3, TypeParts, PTL

\* The other statements and requests of task work.
LEMMA TaskWorkType ==
  ASSUME TypeInv, NEW p \in Procs,
         \/ \E t \in Tasks : Delete(p, t) \/ SubmitTask(p, t) \/ ApproveTask(p, t) \/ RejectTask(p, t)
         \/ TaskWrite(p) \/ DeleteWrite(p) \/ AsgWrite(p) \/ CompleteRead(p) \/ CompleteWrite(p)
  PROVE  TypeInv'
<1>0. /\ arg[p].row \in Task /\ arg[p].to \in Status /\ seen[p] \in Seen
      /\ seen[p].status \in Status /\ seen[p].moving \in BOOLEAN
      /\ NothingSeen \in Seen /\ NoArg \in Arg /\ NoTask \in Task
      /\ asg \in [Emps -> Status \cup {"NONE"}] /\ goal \in Status /\ "NONE" \notin Status
  BY Held, BlankTypes, Statuses DEF TypeInv, TypeOK
<1>1. ASSUME NEW t \in Tasks, Delete(p, t) PROVE TypeInv'
  <2>1. [NoArg EXCEPT !.t = t] \in Arg
    BY <1>0 DEF Arg
  <2>. QED  BY <1>1, <2>1, BeginType DEF Delete, Stage
<1>2. ASSUME NEW t \in Tasks, SubmitTask(p, t) \/ ApproveTask(p, t) \/ RejectTask(p, t) PROVE TypeInv'
  BY <1>2, ReviewTaskType DEF SubmitTask, ApproveTask, RejectTask, Review
<1>3. CASE TaskWrite(p) \/ DeleteWrite(p)
  BY <1>0, <1>3, WrittenType DEF TaskWrite, DeleteWrite
<1>4. CASE AsgWrite(p)
  <2>1. [NothingSeen EXCEPT !.status = goal, !.progress = seen[p].moving] \in Seen
    BY <1>0 DEF Seen
  <2>2. FlightOK'
    BY <1>4, <2>1, GotoType DEF AsgWrite, Stage
  <2>3. asg' \in [Emps -> Status \cup {"NONE"}] /\ Assigned' = Assigned
    BY <1>0, <1>4 DEF AsgWrite, Assigned
  <2>4. ahead' \subseteq Emps
    BY <1>4 DEF AsgWrite, Assigned, TypeInv, TypeOK
  <2>5. RowsOK'
    BY <1>4, <2>3, <2>4 DEF AsgWrite, RowsOK, TypeInv, TypeOK
  <2>. QED  BY <2>2, <2>5, TypeParts, PTL
<1>5. CASE CompleteRead(p)
  <2>1. RowsOK'
    BY <1>5 DEF CompleteRead, rows, RowsOK, TypeInv, TypeOK, Assigned
  <2>2. CASE Finish(p)
    BY <2>1, <2>2, FinishType, TypeParts, PTL
  <2>3. CASE ~Finish(p)
    <3>1. Finished \subseteq Emps
      BY DEF Finished, Assigned
    <3>2. [NoArg EXCEPT !.who = Finished, !.to = "COMPLETED"] \in Arg
      BY <1>0, <3>1, Statuses DEF Arg
    <3>3. [seen[p] EXCEPT !.all = ApprovedAll(Reviewed)] \in Seen
      BY <1>0 DEF Seen, ApprovedAll
    <3>4. FlightOK'
      BY <1>5, <2>3, <3>2, <3>3 DEF CompleteRead, FlightOK, TypeInv, TypeOK, Stage
    <3>. QED  BY <2>1, <3>4, TypeParts, PTL
  <2>. QED  BY <2>2, <2>3
<1>6. CASE CompleteWrite(p)
  <2>1. RowsOK'
    BY <1>6, AssignmentsType, Statuses DEF CompleteWrite
  <2>2. [NothingSeen EXCEPT !.status = "COMPLETED", !.progress = TRUE] \in Seen
    BY <1>0, Statuses DEF Seen
  <2>3. FlightOK'
    BY <1>6, <2>2, GotoType, FinishType DEF CompleteWrite, Stage
  <2>. QED  BY <2>1, <2>3, TypeParts, PTL
<1>. QED  BY <1>1, <1>2, <1>3, <1>4, <1>5, <1>6

LEMMA TypeInit == Init => TypeInv
<1>. SUFFICES ASSUME Init PROVE RowsOK /\ FlightOK
  BY TypeParts
<1>1. PICK S \in SUBSET Emps : Primary \in S /\ asg = [e \in Emps |-> IF e \in S THEN goal ELSE "NONE"]
  BY DEF Init
<1>2. goal \in Status /\ "NONE" \notin Status
  BY Statuses DEF Init
<1>3. asg \in [Emps -> Status \cup {"NONE"}] /\ Primary \in Assigned
  BY <1>1, <1>2 DEF Assigned
<1>4. RowsOK
  BY <1>2, <1>3, BlankTypes, GoalConstants DEF Init, RowsOK
<1>5. FlightOK
  BY BlankTypes DEF Init, FlightOK, Stage
<1>. QED  BY <1>4, <1>5

LEMMA WorkflowType == ASSUME TypeInv, NEW p \in Procs, Workflow(p) PROVE TypeInv'
BY AskType, WorkType DEF Workflow

LEMMA TypeStep == TypeInv /\ [Next]_vars => TypeInv'
<1>. SUFFICES ASSUME TypeInv, [Next]_vars PROVE TypeInv'
  OBVIOUS
<1>1. ASSUME NEW p \in Procs, TaskWork(p) PROVE TypeInv'
  <2>1. ASSUME NEW t \in Tasks, NEW work \in Asked, NEW private \in Private, NEW byOwner \in BOOLEAN,
               \/ Create(p, t, work, work, private, byOwner)
               \/ \E dated \in BOOLEAN : Update(p, t, work, private, byOwner, dated)
        PROVE  TypeInv'
    <3>1. work \in Work /\ private \in BOOLEAN
      BY GoalConstants DEF Asked, Work
    <3>. QED  BY <2>1, <3>1, CreateType, UpdateType
  <2>. QED  BY <1>1, <2>1, TaskWorkType DEF TaskWork
<1>2. CASE UNCHANGED vars
  BY <1>2 DEF vars, rows, TypeInv, TypeOK, Assigned
<1>. QED  BY <1>1, <1>2, WorkflowType DEF Next

-----------------------------------------------------------------------------
(* Types of milestones, and their approval.                                *)

\* The rows of milestones, and the requests about them: a request that is to
\* write the task of a milestone has one in its hands.
MRowsOK ==
  /\ ms \in [Milestones -> Milestone]
  /\ turn \in [Procs -> Turn] /\ form \in [Procs -> Form]
  /\ \A p \in Procs : turn[p] # "own" => form[p].for # {}
MTypeInv == TypeInv /\ MRowsOK

\* Worked on, approved or done is approved by a manager, where that is required.
Earned(row) ==
  RequireApproval /\ (row.progress > 0 \/ row.status \in {"APPROVED", "DONE"}) => row.approved
ApprovedInv ==
  /\ \A m \in Milestones : Earned(ms[m])
  /\ \A p \in Procs : RequireApproval => form[p].pct = 0

LEMMA MilestoneFields ==
  ASSUME NEW row \in Milestone
  PROVE  /\ row.status \in {"NONE", "PENDING_APPROVAL", "APPROVED", "RESCHEDULE_REQUESTED", "DONE"}
         /\ row.isDone \in BOOLEAN /\ row.progress \in 0..2
         /\ row.proposed \in BOOLEAN /\ row.approved \in BOOLEAN
BY DEF Milestone

LEMMA BlankMilestones ==
  /\ NoMilestone \in Milestone /\ NewMilestone \in Milestone /\ NoForm \in Form
  /\ NoForm.for = {} /\ NoForm.pct = 0
  /\ NoMilestone.progress = 0 /\ NoMilestone.status = "NONE"
  /\ NewMilestone.progress = 0 /\ NewMilestone.status = "PENDING_APPROVAL" /\ ~NewMilestone.approved
<1>1. NoMilestone \in Milestone /\ NoMilestone.progress = 0 /\ NoMilestone.status = "NONE"
        /\ ~NoMilestone.approved
  BY DEF NoMilestone, Milestone
<1>2. /\ NewMilestone \in Milestone /\ NewMilestone.progress = 0
      /\ NewMilestone.status = "PENDING_APPROVAL" /\ ~NewMilestone.approved
  BY <1>1 DEF NewMilestone, Milestone
<1>3. NoForm \in Form /\ NoForm.for = {} /\ NoForm.pct = 0
  BY DEF NoForm, Form
<1>. QED  BY <1>1, <1>2, <1>3

\* Each part of an update, on its own.
LEMMA WithProgressFacts ==
  ASSUME NEW r \in Request, NEW row \in Milestone
  PROVE  /\ WithProgress(r, row, row) \in Milestone
         /\ WithProgress(r, row, row).approved = row.approved
         /\ r.progress \in {Absent, 0} /\ ~row.approved /\ row.status \notin {"APPROVED", "DONE"}
              => WithProgress(r, row, row).status \notin {"APPROVED", "DONE"}
         /\ r.progress \in {Absent, 0} /\ row.progress = 0 => WithProgress(r, row, row).progress = 0
<1>1. r.progress \in 0..3 /\ row.isDone \in BOOLEAN
  BY MilestoneFields DEF Request
<1>2. CASE r.progress = Absent
  BY <1>2 DEF WithProgress, Absent
<1>3. CASE r.progress = 2 /\ ~row.isDone
  <2>1. PICK x : x = [row EXCEPT !.progress = 2, !.isDone = TRUE, !.status = "DONE"]
    OBVIOUS
  <2>2. x \in Milestone /\ x.approved = row.approved
    <3>1. 2 \in 0..2
      OBVIOUS
    <3>. QED  BY <2>1, <3>1 DEF Milestone
  <2>3. WithProgress(r, row, row) = x
    BY <1>3, <2>1 DEF WithProgress, Absent
  <2>. QED  BY <1>3, <2>2, <2>3 DEF Absent
<1>4. CASE r.progress < 2 /\ row.isDone
  <2>1. PICK s : s = CASE row.approved -> "APPROVED"
                       [] row.proposed /\ ~row.approved -> "RESCHEDULE_REQUESTED"
                       [] OTHER -> "PENDING_APPROVAL"
    OBVIOUS
  <2>2. /\ s \in {"APPROVED", "RESCHEDULE_REQUESTED", "PENDING_APPROVAL"}
        /\ s = "APPROVED" => row.approved
    BY <2>1
  <2>3. PICK x : x = [row EXCEPT !.progress = r.progress, !.isDone = FALSE, !.status = s]
    OBVIOUS
  <2>4. WithProgress(r, row, row) = x
    BY <1>1, <1>4, <2>1, <2>3 DEF WithProgress, Absent
  <2>5. r.progress \in 0..2
    BY <1>1, <1>4
  <2>6. x \in Milestone /\ x.approved = row.approved /\ x.status = s /\ x.progress = r.progress
    BY <2>2, <2>3, <2>5 DEF Milestone
  <2>. QED  BY <1>4, <2>2, <2>4, <2>6 DEF Absent
<1>5. CASE ~(r.progress = Absent \/ (r.progress = 2 /\ ~row.isDone) \/ (r.progress < 2 /\ row.isDone))
  <2>1. WithProgress(r, row, row) = [row EXCEPT !.progress = r.progress]
    BY <1>5 DEF WithProgress
  <2>2. r.progress \in 0..2
    BY <1>1, <1>5 DEF Absent
  <2>. QED  BY <2>1, <2>2 DEF Milestone, Absent
<1>. QED  BY <1>2, <1>3, <1>4, <1>5

LEMMA WithDatesFacts ==
  ASSUME NEW r \in Request, NEW new \in Milestone
  PROVE  /\ WithDates(r, new) \in Milestone
         /\ WithDates(r, new).approved = new.approved /\ WithDates(r, new).progress = new.progress
         /\ WithDates(r, new).status \in {new.status, "RESCHEDULE_REQUESTED"}
<1>1. PICK ext : ext = IF r.extend THEN [new EXCEPT !.proposed = TRUE, !.status = "RESCHEDULE_REQUESTED"]
                       ELSE new
  OBVIOUS
<1>2. /\ ext \in Milestone /\ ext.approved = new.approved /\ ext.progress = new.progress
      /\ ext.status \in {new.status, "RESCHEDULE_REQUESTED"}
  BY <1>1 DEF Milestone
<1>3. WithDates(r, new) = IF r.propose = "absent" THEN ext ELSE [ext EXCEPT !.proposed = r.propose = "yes"]
  BY <1>1 DEF WithDates
<1>. QED  BY <1>2, <1>3 DEF Milestone

LEMMA WithDecisionFacts ==
  ASSUME NEW r \in Request, NEW row \in Milestone, NEW new \in Milestone
  PROVE  /\ WithDecision(r, row, new) \in Milestone
         /\ WithDecision(r, row, new).progress = new.progress
         /\ WithDecision(r, row, new).approved = (new.approved \/ r.approve = "yes")
         /\ r.approve # "yes" /\ ~row.approved
              => WithDecision(r, row, new).status \in {new.status, "PENDING_APPROVAL"}
<1>1. CASE r.approve = "yes"
  BY <1>1 DEF WithDecision, Milestone
<1>2. CASE r.approve = "no"
  BY <1>2 DEF WithDecision, Milestone
<1>3. CASE r.approve \notin {"yes", "no"}
  BY <1>3, MilestoneFields DEF WithDecision
<1>. QED  BY <1>1, <1>2, <1>3

LEMMA WithTickFacts ==
  ASSUME NEW r \in Request, NEW new \in Milestone
  PROVE  /\ WithTick(r, new) \in Milestone /\ WithTick(r, new).approved = new.approved
         /\ r.done \notin {"yes", "no"} => WithTick(r, new) = new
<1>1. CASE r.done = "yes"
  <2>1. PICK x : x = [new EXCEPT !.isDone = TRUE, !.status = "DONE", !.progress = 2]
    OBVIOUS
  <2>2. x \in Milestone /\ x.approved = new.approved
    <3>1. 2 \in 0..2
      OBVIOUS
    <3>. QED  BY <2>1, <3>1 DEF Milestone
  <2>. QED  BY <1>1, <2>1, <2>2 DEF WithTick
<1>2. CASE r.done = "no"
  <2>1. PICK x : x = [new EXCEPT !.isDone = FALSE, !.status = "APPROVED", !.progress = 0]
    OBVIOUS
  <2>2. x \in Milestone /\ x.approved = new.approved
    <3>1. 0 \in 0..2
      OBVIOUS
    <3>. QED  BY <2>1, <3>1 DEF Milestone
  <2>. QED  BY <1>2, <2>1, <2>2 DEF WithTick
<1>3. CASE r.done \notin {"yes", "no"}
  BY <1>3 DEF WithTick
<1>. QED  BY <1>1, <1>2, <1>3

\* An update that is accepted leaves a milestone, worked on only if approved.
LEMMA UpdateFacts ==
  ASSUME NEW r \in Requests, NEW row \in Milestone
  PROVE  /\ Updated(r, row) \in Milestone
         /\ Accepts(r, row) /\ Earned(row) => Earned(Updated(r, row))
<1>1. r \in Request
  BY DEF Requests
<1>2. PICK a : a = WithProgress(r, row, row)
  OBVIOUS
<1>3. PICK b : b = WithDates(r, a)
  OBVIOUS
<1>4. PICK c : c = WithDecision(r, row, b)
  OBVIOUS
<1>5. PICK d : d = WithTick(r, c)
  OBVIOUS
<1>6. d = Updated(r, row)
  BY <1>2, <1>3, <1>4, <1>5 DEF Updated
<1>7. a \in Milestone /\ a.approved = row.approved
  BY <1>1, <1>2, WithProgressFacts
<1>8. /\ b \in Milestone /\ b.approved = a.approved /\ b.progress = a.progress
      /\ b.status \in {a.status, "RESCHEDULE_REQUESTED"}
  BY <1>1, <1>3, <1>7, WithDatesFacts
<1>9. /\ c \in Milestone /\ c.approved = (b.approved \/ r.approve = "yes") /\ c.progress = b.progress
      /\ r.approve # "yes" /\ ~row.approved => c.status \in {b.status, "PENDING_APPROVAL"}
  BY <1>1, <1>4, <1>8, WithDecisionFacts
<1>10. /\ d \in Milestone /\ d.approved = c.approved
       /\ r.done \notin {"yes", "no"} => d = c
  BY <1>1, <1>5, <1>9, WithTickFacts
<1>11. ASSUME Accepts(r, row), Earned(row) PROVE Earned(d)
  <2>1. CASE row.approved \/ r.approve = "yes"
    BY <1>7, <1>8, <1>9, <1>10, <2>1 DEF Earned
  <2>2. CASE RequireApproval /\ ~row.approved /\ r.approve # "yes"
    <3>1. row.progress = 0 /\ row.status \notin {"APPROVED", "DONE"}
      BY <1>11, <2>2, MilestoneFields DEF Earned
    <3>2. ~RecordsWork(r, row)
      BY <1>11, <2>2, <3>1 DEF Accepts, WorkBlock, MilestoneApproved
    <3>3. r.progress \in {Absent, 0}
      BY <3>1, <3>2 DEF RecordsWork
    <3>4. r.done \notin {"yes", "no"}
      BY <1>11, <2>2, <3>1 DEF Accepts
    <3>5. a.progress = 0 /\ a.status \notin {"APPROVED", "DONE"}
      BY <1>1, <1>2, <2>2, <3>1, <3>3, WithProgressFacts
    <3>6. c.status \notin {"APPROVED", "DONE"} /\ c.progress = 0
      BY <1>8, <1>9, <2>2, <3>5
    <3>. QED  BY <1>10, <3>4, <3>6 DEF Earned
  <2>. QED  BY <2>1, <2>2 DEF Earned
<1>. QED  BY <1>6, <1>10, <1>11

\* A request turns to its next statement.
LEMMA TurnedFacts ==
  ASSUME MRowsOK, NEW p \in Procs, NEW stage \in Turn, NEW f \in Form,
         stage # "own" => f.for # {}, Turned(p, stage, f)
  PROVE  /\ turn' \in [Procs -> Turn] /\ form' \in [Procs -> Form]
         /\ \A q \in Procs : turn'[q] # "own" => form'[q].for # {}
         /\ (RequireApproval => f.pct = 0) /\ (\A q \in Procs : RequireApproval => form[q].pct = 0)
              => \A q \in Procs : RequireApproval => form'[q].pct = 0
BY DEF MRowsOK, Turned

LEMMA TaskOfType ==
  ASSUME MRowsOK, NEW p \in Procs, turn[p] # "own"
  PROVE  TaskOf(p) \in Tasks
<1>1. (CHOOSE m \in form[p].for : TRUE) \in form[p].for /\ form[p].for \subseteq Milestones
  BY DEF MRowsOK, Form
<1>. QED  BY <1>1, MilestoneConstants DEF TaskOf

LEMMA StillType == ASSUME TypeInv, UNCHANGED vars PROVE TypeInv'
BY DEF vars, rows, TypeInv, TypeOK, Assigned

LEMMA StillMilestones ==
  ASSUME UNCHANGED <<ms, turn, form>>
  PROVE  (MRowsOK => MRowsOK') /\ (ApprovedInv => ApprovedInv')
BY DEF MRowsOK, ApprovedInv, Earned

\* The task of a milestone is written, by a request about the milestone.
LEMMA FollowType ==
  ASSUME MTypeInv, NEW p \in Procs, turn[p] # "own", NEW row \in Task,
         WriteTask(TaskOf(p), row), UNCHANGED <<pc, arg, seen>>
  PROVE  TypeInv'
<1>1. RowsOK'
  BY TaskOfType, TaskType DEF MTypeInv
<1>2. FlightOK'
  BY DEF MTypeInv, TypeInv, TypeOK, FlightOK
<1>. QED  BY <1>1, <1>2, TypeParts, PTL

LEMMA ElsewhereSafe ==
  ASSUME MTypeInv, NEW p \in Procs, Elsewhere(p)
  PROVE  MTypeInv' /\ (ApprovedInv => ApprovedInv')
<1>1. TypeInv'
  BY WorkflowType, TaskWorkType DEF Elsewhere, MTypeInv
<1>. QED  BY <1>1, StillMilestones DEF Elsewhere, MTypeInv

LEMMA TasksSafe ==
  ASSUME MTypeInv, NEW p \in Procs, TasksWithMilestones(p)
  PROVE  MTypeInv' /\ (ApprovedInv => ApprovedInv')
<1>1. ASSUME NEW t \in Tasks, NEW asked \in Asked, NEW private \in Private, NEW byOwner \in BOOLEAN,
             NEW drafts \in SUBSET Milestones, NEW pct \in 0..2,
             CreateTracked(p, t, asked, private, byOwner, drafts, pct)
      PROVE  MTypeInv' /\ (ApprovedInv => ApprovedInv')
  <2>1. /\ (IF drafts # {} /\ asked = "todo" THEN "pending_approval" ELSE asked) \in Work
        /\ private \in BOOLEAN
    BY GoalConstants DEF Asked, Work
  <2>2. TypeInv'
    BY <1>1, <2>1, CreateType DEF CreateTracked, MTypeInv
  <2>3. PICK f : f = [NoForm EXCEPT !.for = drafts, !.pct = pct]
    OBVIOUS
  <2>4. f \in Form /\ f.pct = pct
    BY <2>3, BlankMilestones DEF Form
  <2>5. /\ form' = [form EXCEPT ![p] = f] /\ ms' = ms /\ turn' = turn
        /\ turn[p] = "own"
        /\ pct > 0 => ~WorkBlock(NewMilestone)
    BY <1>1, <2>3 DEF CreateTracked, Free
  <2>6. MRowsOK'
    BY <2>4, <2>5 DEF MTypeInv, MRowsOK
  <2>7. RequireApproval => pct = 0
    BY <2>5, BlankMilestones DEF WorkBlock, MilestoneApproved
  <2>8. ApprovedInv => ApprovedInv'
    BY <2>4, <2>5, <2>7 DEF ApprovedInv, Earned, MTypeInv, MRowsOK
  <2>. QED  BY <2>2, <2>6, <2>8 DEF MTypeInv
<1>2. ASSUME NEW t \in Tasks, NEW asked \in Asked, NEW private \in Private, NEW byOwner \in BOOLEAN,
             UNCHANGED <<ms, turn, form>>,
             \/ Create(p, t, asked, asked, private, byOwner)
             \/ \E dated \in BOOLEAN : Update(p, t, asked, private, byOwner, dated)
      PROVE  MTypeInv' /\ (ApprovedInv => ApprovedInv')
  <2>1. asked \in Work /\ private \in BOOLEAN
    BY GoalConstants DEF Asked, Work
  <2>2. TypeInv'
    BY <1>2, <2>1, CreateType, UpdateType DEF MTypeInv
  <2>. QED  BY <1>2, <2>2, StillMilestones DEF MTypeInv
<1>3. CASE TaskAndMilestones(p)
  <2>1. TypeInv'
    BY <1>3, TaskWorkType DEF TaskAndMilestones, MTypeInv
  <2>2. form[p].pct \in 0..2
    BY DEF MTypeInv, MRowsOK, Form
  <2>3. PICK new : new = [NewMilestone EXCEPT !.progress = form[p].pct]
    OBVIOUS
  <2>4. /\ new \in Milestone /\ new.progress = form[p].pct /\ new.status = "PENDING_APPROVAL"
        /\ \A m \in Milestones : ms'[m] = IF m \in form[p].for THEN new ELSE ms[m]
        /\ ms' = [m \in Milestones |-> ms'[m]]
    BY <1>3, <2>2, <2>3, BlankMilestones DEF TaskAndMilestones, Milestone
  <2>5. ms' \in [Milestones -> Milestone]
    BY <2>4 DEF MTypeInv, MRowsOK
  <2>6. MRowsOK' /\ (ApprovedInv => \A q \in Procs : RequireApproval => form'[q].pct = 0)
    BY <1>3, <2>5, TurnedFacts, BlankMilestones DEF TaskAndMilestones, MTypeInv, MRowsOK, Turn, ApprovedInv
  <2>7. ASSUME ApprovedInv, NEW m \in Milestones PROVE Earned(ms'[m])
    <3>1. RequireApproval => new.progress = 0
      BY <2>4, <2>7 DEF ApprovedInv
    <3>2. Earned(new)
      BY <2>4, <3>1 DEF Earned
    <3>. QED  BY <2>4, <2>7, <3>2 DEF ApprovedInv
  <2>8. ApprovedInv => ApprovedInv'
    BY <2>6, <2>7 DEF ApprovedInv, Earned
  <2>. QED  BY <2>1, <2>6, <2>8 DEF MTypeInv
<1>4. CASE DeleteCascades(p)
  <2>1. TypeInv'
    BY <1>4, TaskWorkType DEF DeleteCascades, MTypeInv
  <2>2. MRowsOK'
    BY <1>4, BlankMilestones DEF DeleteCascades, MTypeInv, MRowsOK
  <2>3. ApprovedInv => ApprovedInv'
    BY <1>4, BlankMilestones DEF DeleteCascades, ApprovedInv, Earned
  <2>. QED  BY <2>1, <2>2, <2>3 DEF MTypeInv
<1>. QED  BY <1>1, <1>2, <1>3, <1>4 DEF TasksWithMilestones

\* One milestone is written, and the request turns to what follows.
LEMMA MilestoneWritten ==
  ASSUME MTypeInv, NEW p \in Procs, NEW m \in Milestones, NEW row \in Milestone,
         ms' = [ms EXCEPT ![m] = row], UNCHANGED vars,
         \/ UNCHANGED <<turn, form>>
         \/ \E stage \in Turn, f \in Form : f.for # {} /\ f.pct = 0 /\ Turned(p, stage, f)
  PROVE  MTypeInv' /\ (ApprovedInv /\ Earned(row) => ApprovedInv')
<1>1. TypeInv'
  BY StillType DEF MTypeInv
<1>2. /\ turn' \in [Procs -> Turn] /\ form' \in [Procs -> Form]
      /\ \A q \in Procs : turn'[q] # "own" => form'[q].for # {}
      /\ (\A q \in Procs : RequireApproval => form[q].pct = 0)
           => \A q \in Procs : RequireApproval => form'[q].pct = 0
  <2>1. CASE UNCHANGED <<turn, form>>
    BY <2>1 DEF MTypeInv, MRowsOK
  <2>2. CASE \E stage \in Turn, f \in Form : f.for # {} /\ f.pct = 0 /\ Turned(p, stage, f)
    BY <2>2, TurnedFacts DEF MTypeInv
  <2>. QED  BY <2>1, <2>2
<1>3. ms' \in [Milestones -> Milestone]
  BY DEF MTypeInv, MRowsOK
<1>4. ASSUME ApprovedInv, Earned(row), NEW n \in Milestones PROVE Earned(ms'[n])
  BY <1>4 DEF ApprovedInv, MTypeInv, MRowsOK
<1>. QED  BY <1>1, <1>2, <1>3, <1>4 DEF MTypeInv, MRowsOK, ApprovedInv, Earned

LEMMA MilestonesSafe ==
  ASSUME MTypeInv, NEW p \in Procs, MilestoneWork(p)
  PROVE  MTypeInv' /\ (ApprovedInv => ApprovedInv')
<1>1. ASSUME NEW m \in Milestones, DeleteMilestone(p, m)
      PROVE  MTypeInv' /\ (ApprovedInv => ApprovedInv')
  <2>1. Earned(NoMilestone)
    BY BlankMilestones DEF Earned
  <2>. QED  BY <1>1, <2>1, BlankMilestones, MilestoneWritten DEF DeleteMilestone
<1>2. ASSUME NEW m \in Milestones, NEW pct \in 0..2, CreateMilestone(p, m, pct)
      PROVE  MTypeInv' /\ (ApprovedInv => ApprovedInv')
  <2>1. PICK row : row = [NewMilestone EXCEPT !.progress = pct]
    OBVIOUS
  <2>2. row \in Milestone /\ row.progress = pct /\ row.status = "PENDING_APPROVAL"
    BY <2>1, BlankMilestones DEF Milestone
  <2>3. pct > 0 => ~WorkBlock(NewMilestone)
    BY <1>2, <2>1 DEF CreateMilestone
  <2>4. Earned(row)
    BY <2>2, <2>3, BlankMilestones DEF Earned, WorkBlock, MilestoneApproved
  <2>5. PICK f : f = [NoForm EXCEPT !.for = {m}]
    OBVIOUS
  <2>6. f \in Form /\ f.for # {} /\ f.pct = 0
    BY <2>5, BlankMilestones DEF Form
  <2>7. Turned(p, "wait", f) \/ UNCHANGED <<turn, form>>
    BY <1>2, <2>5 DEF CreateMilestone
  <2>. QED  BY <1>2, <2>1, <2>2, <2>4, <2>6, <2>7, MilestoneWritten DEF CreateMilestone, Turn
<1>3. ASSUME NEW m \in Milestones, NEW r \in Requests, NEW byOwner \in BOOLEAN,
             UpdateMilestone(p, m, r, byOwner)
      PROVE  MTypeInv' /\ (ApprovedInv => ApprovedInv')
  <2>1. ms[m] \in Milestone /\ Accepts(r, ms[m])
    BY <1>3 DEF UpdateMilestone, MTypeInv, MRowsOK
  <2>2. PICK row : row = Updated(r, ms[m])
    OBVIOUS
  <2>3. row \in Milestone /\ (ApprovedInv => Earned(row))
    BY <2>1, <2>2, UpdateFacts DEF ApprovedInv
  <2>4. ms' = [ms EXCEPT ![m] = row] /\ UNCHANGED vars
    BY <1>3, <2>2 DEF UpdateMilestone
  <2>5. PICK settles, worked : worked \in BOOLEAN /\ After(p, m, settles, worked, byOwner)
    BY <1>3 DEF UpdateMilestone
  <2>6. PICK f : f = [for |-> {m}, pct |-> 0, byOwner |-> byOwner, work |-> worked]
    OBVIOUS
  <2>7. f \in Form /\ f.for # {} /\ f.pct = 0
    BY <2>5, <2>6 DEF Form
  <2>8. Turned(p, "unlock", f) \/ Turned(p, "sync", f) \/ UNCHANGED <<turn, form>>
    BY <2>5, <2>6 DEF After
  <2>. QED  BY <2>3, <2>4, <2>7, <2>8, MilestoneWritten DEF Turn
<1>4. ASSUME Unlock(p) \/ Wait(p) \/ Sync(p), TypeInv',
             ms' = ms, \E stage \in Turn : \/ Turned(p, stage, form[p]) /\ turn[p] # "own"
                                           \/ Turned(p, "own", NoForm)
      PROVE  MTypeInv' /\ (ApprovedInv => ApprovedInv')
  <2>1. /\ MRowsOK /\ form[p] \in Form /\ NoForm \in Form /\ NoForm.pct = 0
        /\ turn[p] # "own" => form[p].for # {}
    BY BlankMilestones DEF MTypeInv, MRowsOK
  <2>2. PICK stage \in Turn, f \in {form[p], NoForm} :
          Turned(p, stage, f) /\ (stage # "own" => f.for # {})
    BY <1>4, <2>1 DEF Turn
  <2>3. MRowsOK'
    BY <1>4, <2>1, <2>2, TurnedFacts DEF MRowsOK
  <2>4. ApprovedInv => ApprovedInv'
    BY <1>4, <2>1, <2>2, TurnedFacts DEF ApprovedInv, Earned
  <2>. QED  BY <1>4, <2>3, <2>4 DEF MTypeInv
<1>5. CASE Unlock(p) \/ Wait(p)
  <2>1. PICK w \in Work : WriteTask(TaskOf(p), [task[TaskOf(p)] EXCEPT !.work = w])
          \/ WriteTask(TaskOf(p), task[TaskOf(p)])
    BY <1>5 DEF Unlock, Wait, Work
  <2>2. turn[p] # "own" /\ TaskOf(p) \in Tasks
    BY <1>5, TaskOfType DEF Unlock, Wait, MTypeInv
  <2>3. task[TaskOf(p)] \in Task /\ [task[TaskOf(p)] EXCEPT !.work = w] \in Task
    BY <2>2 DEF MTypeInv, TypeInv, TypeOK, Task
  <2>4. TypeInv'
    BY <1>5, <2>1, <2>2, <2>3, FollowType DEF Unlock, Wait
  <2>. QED  BY <1>4, <1>5, <2>2, <2>4 DEF Unlock, Wait, Turn
<1>6. CASE Sync(p)
  <2>1. TaskOf(p) \in Tasks /\ task[TaskOf(p)] \in Task /\ form[p].byOwner \in BOOLEAN
    BY <1>6, TaskOfType DEF Sync, MTypeInv, MRowsOK, TypeInv, TypeOK, Form
  <2>2. TypeInv'
    <3>1. CASE UNCHANGED vars
      BY <3>1, StillType DEF MTypeInv
    <3>2. CASE ~UNCHANGED vars
      <4>1. PICK t, w, review : /\ t = TaskOf(p) /\ w = Following(t)
                                /\ review = ReviewAfter(task[t], w, form[p].byOwner)
        OBVIOUS
      <4>2. TaskChange(p, t, [task[t] EXCEPT !.work = w, !.review = review],
                       review = "APPROVED" /\ ~Complete(task[t]))
        BY <1>6, <3>2, <4>1 DEF Sync
      <4>3. w \in Work /\ review \in Review
        BY <2>1, <4>1, TaskFields, ReviewAfterType DEF Following, Work
      <4>4. [task[t] EXCEPT !.work = w, !.review = review] \in Task
        BY <2>1, <4>1, <4>3 DEF Task
      <4>. QED  BY <2>1, <4>1, <4>2, <4>4, ChangeType DEF MTypeInv, Complete
    <3>. QED  BY <3>1, <3>2
  <2>. QED  BY <1>4, <1>6, <2>2 DEF Sync, Turn
<1>. QED  BY <1>1, <1>2, <1>3, <1>5, <1>6 DEF MilestoneWork

LEMMA MilestonesStep ==
  MTypeInv /\ [MNext]_mvars => MTypeInv' /\ (ApprovedInv => ApprovedInv')
<1>. SUFFICES ASSUME MTypeInv, [MNext]_mvars PROVE MTypeInv' /\ (ApprovedInv => ApprovedInv')
  OBVIOUS
<1>1. CASE MNext
  BY <1>1, ElsewhereSafe, TasksSafe, MilestonesSafe DEF MNext
<1>2. CASE UNCHANGED mvars
  BY <1>2, StillType, StillMilestones DEF mvars, MTypeInv
<1>. QED  BY <1>1, <1>2

LEMMA MilestonesInit == MInit => MTypeInv /\ ApprovedInv
<1>. SUFFICES ASSUME MInit PROVE MTypeInv /\ ApprovedInv
  OBVIOUS
<1>1. MRowsOK
  BY BlankMilestones DEF MInit, MRowsOK, Turn
<1>2. ApprovedInv
  BY BlankMilestones DEF MInit, ApprovedInv, Earned
<1>. QED  BY <1>1, <1>2, TypeInit DEF MInit, MTypeInv

\* The goal, its assignments and tasks, the milestones and the requests in flight
\* always have their types: no interleaving gives a milestone a status that the
\* column has not, or has a request follow a milestone that it does not hold
\* (Milestones.MTypeOK).
THEOREM MilestonesTypeCorrect == MSpec => []MTypeOK
<1>1. MTypeInv => MTypeOK
  BY DEF MTypeInv, TypeInv, MRowsOK, MTypeOK
<1>. QED  BY <1>1, MilestonesInit, MilestonesStep, PTL DEF MSpec

\* Where the company requires approval, work is recorded on no milestone that a
\* manager has not approved, whatever requests and tasks are in flight, and
\* whatever fields one update combines (Milestones.ProgressNeedsApproval).
THEOREM ProgressAlwaysApproved == MSpec => []ProgressNeedsApproval
<1>1. ApprovedInv => ProgressNeedsApproval
  BY DEF ApprovedInv, Earned, ProgressNeedsApproval
<1>. QED  BY <1>1, MilestonesInit, MilestonesStep, PTL DEF MSpec

-----------------------------------------------------------------------------
(* Requests that come one at a time: the goal and its assignments.         *)

OneAtATime == \A p, q \in Procs : p = q

\* What a request has read is still so when it writes.
UpToDate(p) ==
  /\ pc[p] = "goalWrite" /\ seen[p].status = "COMPLETED" => \A e \in Assigned : asg[e] = "COMPLETED"
  /\ pc[p] = "asgWrite" /\ Of[arg[p].t] \in Assigned => seen[p].status = asg[Of[arg[p].t]]
  /\ pc[p] = "addWrite" => arg[p].to = goal
  /\ pc[p] = "completeWrite" => arg[p].who = Finished /\ seen[p].all = ApprovedAll(Reviewed)

\* The goal agrees with its assignments, but before the last write of a request.
Agree ==
  (\A p \in Procs : pc[p] # "goalWrite") /\ goal = "COMPLETED"
    => \A e \in Assigned : asg[e] = "COMPLETED"

GoalInv == Agree /\ \A p \in Procs : UpToDate(p)

\* The roll-up is COMPLETED only when every assignment is.
LEMMA RollUpComplete ==
  ASSUME Primary \in Assigned, NEW table, \A e \in Assigned : table[e] \in Status
  PROVE  RollUp(table) = "COMPLETED" <=> \A e \in Assigned : table[e] = "COMPLETED"
<1>1. /\ \E e \in Assigned : RollUp(table) = table[e]
      /\ \A e \in Assigned : Rank[RollUp(table)] <= Rank[table[e]]
  BY LeastAdvanced
<1>2. ASSUME RollUp(table) = "COMPLETED", NEW e \in Assigned PROVE table[e] = "COMPLETED"
  <2>1. 7 <= Rank[table[e]]
    BY <1>1, <1>2, Statuses
  <2>2. table[e] \in Status
    OBVIOUS
  <2>. QED  BY <2>1, <2>2, Statuses
<1>. QED  BY <1>1, <1>2

\* What a step of a request leaves in its hands.
LEMMA TurnFacts ==
  ASSUME TypeInv, NEW p \in Procs
  PROVE  /\ \A stage, a : Begin(p, stage, a) =>
              pc'[p] = stage /\ arg'[p] = a /\ pc[p] = "idle" /\ UNCHANGED rows
         /\ \A stage, what : Goto(p, stage, what) =>
              pc'[p] = stage /\ arg'[p] = arg[p] /\ seen'[p] = what
         /\ Finish(p) => pc'[p] = "idle"
BY DEF TypeInv, TypeOK, Begin, Goto, Finish

\* The requests: each begins with a statement that has read nothing to be stale,
\* or that has just read it.
Asks(p) ==
  \/ Activate(p) \/ SubmitForFirst(p)
  \/ \E e \in Emps : Submit(p, e) \/ Resubmit(p, e) \/ Add(p, e)
  \/ \E approve \in BOOLEAN : ManagerReview(p, approve) \/ HrReview(p, approve)
  \/ \E t \in Tasks, work \in Asked, private \in Private, byOwner \in BOOLEAN :
       \/ Create(p, t, work, work, private, byOwner)
       \/ \E dated \in BOOLEAN : Update(p, t, work, private, byOwner, dated)
  \/ \E t \in Tasks : Delete(p, t)

LEMMA AsksBegin ==
  ASSUME NEW p \in Procs, Asks(p)
  PROVE  \E stage \in {"activateWrite", "workflowWrite", "addWrite", "taskWrite", "deleteWrite"} :
           \E a : Begin(p, stage, a) /\ (stage = "addWrite" => a.to = goal)
<1>1. ASSUME NEW e \in Emps, Add(p, e)
      PROVE  \E a : Begin(p, "addWrite", a) /\ a.to = goal
  <2>1. PICK a : a = [NoArg EXCEPT !.who = {e}, !.to = goal]
    OBVIOUS
  <2>2. a.to = goal
    BY <2>1, BlankTypes DEF Arg
  <2>3. Begin(p, "addWrite", a)
    BY <1>1, <2>1 DEF Add
  <2>. QED  BY <2>2, <2>3
<1>2. Activate(p) => \E a : Begin(p, "activateWrite", a)
  BY DEF Activate
<1>3. \A e, s : SubmitFor(p, e, s) => \E a : Begin(p, "workflowWrite", a)
  BY DEF SubmitFor
<1>4. \A e : Resubmit(p, e) => \E a : Begin(p, "workflowWrite", a)
  BY DEF Resubmit
<1>5. \A approve, S : Decide(p, approve, S) => \E a : Begin(p, "workflowWrite", a)
  BY DEF Decide
<1>6. \A t, row, approves : TaskChange(p, t, row, approves) => \E a : Begin(p, "taskWrite", a)
  BY DEF TaskChange
<1>7. \A t : Delete(p, t) => \E a : Begin(p, "deleteWrite", a)
  BY DEF Delete
<1>8. \A t, work, private, byOwner :
        Create(p, t, work, work, private, byOwner) => \E a : Begin(p, "taskWrite", a)
  BY <1>6 DEF Create
<1>9. \A t, work, private, byOwner, dated :
        Update(p, t, work, private, byOwner, dated) => \E a : Begin(p, "taskWrite", a)
  BY <1>6 DEF Update
<1>. QED  BY <1>1, <1>2, <1>3, <1>4, <1>5, <1>7, <1>8, <1>9
          DEF Asks, SubmitForFirst, Submit, ManagerReview, HrReview

LEMMA AsksSafe ==
  ASSUME TypeInv, GoalInv, OneAtATime, NEW p \in Procs, Asks(p)
  PROVE  Agree' /\ UpToDate(p)'
<1>0. PICK stage \in {"activateWrite", "workflowWrite", "addWrite", "taskWrite", "deleteWrite"} :
        \E a : Begin(p, stage, a) /\ (stage = "addWrite" => a.to = goal)
  BY AsksBegin
<1>1. PICK a : Begin(p, stage, a) /\ (stage = "addWrite" => a.to = goal)
  BY <1>0
<1>2. /\ pc'[p] = stage /\ arg'[p] = a /\ pc[p] = "idle"
      /\ goal' = goal /\ asg' = asg /\ task' = task
  BY <1>1, TurnFacts DEF rows
<1>3. \A q \in Procs : pc[q] # "goalWrite"
  BY <1>2 DEF OneAtATime
<1>. QED  BY <1>1, <1>2, <1>3 DEF GoalInv, Agree, UpToDate, Assigned

\* The statements of the workflow.
LEMMA WorkSafe ==
  ASSUME TypeInv, GoalInv, OneAtATime, NEW p \in Procs,
         ActivateWrite(p) \/ WorkflowWrite(p) \/ GoalWrite(p) \/ AddWrite(p)
  PROVE  Agree' /\ UpToDate(p)'
<1>0. /\ asg \in [Emps -> Status \cup {"NONE"}] /\ arg[p].to \in Status /\ "NONE" \notin Status
      /\ UpToDate(p) /\ arg[p].then \in {"idle", "completeRead"} /\ NothingSeen \in Seen
  BY Held, Statuses, BlankTypes DEF TypeInv, TypeOK, GoalInv
<1>1. CASE ActivateWrite(p)
  <2>1. [NothingSeen EXCEPT !.status = "ACTIVE"].status = "ACTIVE"
    BY <1>0 DEF Seen
  <2>2. pc'[p] = "goalWrite" /\ seen'[p].status = "ACTIVE"
    BY <1>1, <2>1, TurnFacts DEF ActivateWrite
  <2>. QED  BY <2>2 DEF Agree, UpToDate
<1>2. CASE WorkflowWrite(p)
  <2>1. Assigned' = Assigned /\ asg' \in [Emps -> Status \cup {"NONE"}]
    BY <1>0, <1>2, AssignmentsType DEF WorkflowWrite, RowsOK
  <2>2. \A e \in Assigned : asg'[e] \in Status
    BY <2>1 DEF Assigned
  <2>3. PICK table : table = asg'
    OBVIOUS
  <2>4. PICK what : what = [NothingSeen EXCEPT !.status = RollUp(table), !.progress = ahead' # {}]
    OBVIOUS
  <2>5. what.status = RollUp(table)
    BY <1>0, <2>4 DEF Seen
  <2>6. pc'[p] = "goalWrite" /\ seen'[p].status = RollUp(table)
    <3>1. Goto(p, "goalWrite", what)
      BY <1>2, <2>3, <2>4 DEF WorkflowWrite
    <3>. QED  BY <2>5, <3>1, TurnFacts
  <2>7. RollUp(table) = "COMPLETED" => \A e \in Assigned : asg'[e] = "COMPLETED"
    BY <2>2, <2>3, RollUpComplete DEF TypeInv
  <2>. QED  BY <2>1, <2>6, <2>7 DEF Agree, UpToDate
<1>3. CASE GoalWrite(p)
  <2>1. pc'[p] \in {"idle", "completeRead"} /\ goal' = seen[p].status /\ asg' = asg
    BY <1>0, <1>3, TurnFacts DEF GoalWrite
  <2>2. goal' = "COMPLETED" => \A e \in Assigned : asg[e] = "COMPLETED"
    BY <1>0, <1>3, <2>1 DEF GoalWrite, UpToDate
  <2>. QED  BY <2>1, <2>2 DEF Agree, UpToDate, Assigned
<1>4. CASE AddWrite(p)
  <2>1. pc'[p] = "idle" /\ goal' = goal /\ arg[p].to = goal
    BY <1>0, <1>4, TurnFacts DEF AddWrite, UpToDate
  <2>2. \A q \in Procs : pc[q] # "goalWrite"
    BY <1>4 DEF AddWrite, OneAtATime
  <2>3. ASSUME goal = "COMPLETED", NEW e \in Assigned' PROVE asg'[e] = "COMPLETED"
    BY <1>4, <2>1, <2>2, <2>3 DEF AddWrite, GoalInv, Agree, Assigned
  <2>. QED  BY <2>1, <2>3 DEF Agree, UpToDate
<1>. QED  BY <1>1, <1>2, <1>3, <1>4

\* The statements of task work, and the reviews.
LEMMA WrittenSafe ==
  ASSUME TypeInv, GoalInv, OneAtATime, NEW p \in Procs, NEW row, Written(p, row),
         pc[p] \in {"taskWrite", "deleteWrite"}
  PROVE  Agree' /\ UpToDate(p)'
<1>1. PICK what : what = [NothingSeen EXCEPT
         !.status = IF Of[arg[p].t] \in Assigned THEN asg[Of[arg[p].t]] ELSE @,
         !.progress = Moving(task', {t \in Tasks : Of[t] = Of[arg[p].t]}),
         !.moving = Moving(task', Tasks)]
  OBVIOUS
<1>2. Of[arg[p].t] \in Assigned => what.status = asg[Of[arg[p].t]]
  BY <1>1, BlankTypes DEF Seen
<1>3. /\ pc'[p] = "asgWrite" /\ seen'[p] = what /\ arg'[p] = arg[p]
      /\ asg' = asg /\ goal' = goal
  BY <1>1, TurnFacts DEF Written, WriteTask
<1>4. \A q \in Procs : pc[q] # "goalWrite"
  BY DEF OneAtATime
<1>. QED  BY <1>2, <1>3, <1>4 DEF GoalInv, Agree, UpToDate, Assigned

LEMMA CompletionSafe ==
  ASSUME TypeInv, GoalInv, OneAtATime, NEW p \in Procs, CompleteRead(p) \/ CompleteWrite(p)
  PROVE  Agree' /\ UpToDate(p)'
<1>0. /\ asg \in [Emps -> Status \cup {"NONE"}] /\ UpToDate(p) /\ NothingSeen \in Seen
      /\ arg \in [Procs -> Arg] /\ seen \in [Procs -> Seen] /\ pc \in [Procs -> Stage]
      /\ \A q \in Procs : pc[q] # "goalWrite"
  BY BlankTypes DEF TypeInv, TypeOK, GoalInv, OneAtATime, CompleteRead, CompleteWrite
<1>1. CASE CompleteRead(p)
  <2>1. asg' = asg /\ goal' = goal /\ task' = task
    BY <1>1 DEF CompleteRead, rows
  <2>2. Agree'
    BY <1>0, <2>1 DEF Agree, GoalInv, Assigned
  <2>3. CASE Finish(p)
    BY <2>2, <2>3, TurnFacts DEF UpToDate
  <2>4. CASE ~Finish(p)
    <3>1. PICK a : a = [NoArg EXCEPT !.who = Finished, !.to = "COMPLETED"]
      OBVIOUS
    <3>2. a.who = Finished
      BY <3>1, BlankTypes DEF Arg
    <3>3. /\ pc'[p] = "completeWrite" /\ arg'[p] = a
          /\ seen'[p] = [seen[p] EXCEPT !.all = ApprovedAll(Reviewed)]
      BY <1>0, <1>1, <2>4, <3>1 DEF CompleteRead
    <3>4. seen'[p].all = ApprovedAll(Reviewed)
      BY <1>0, <3>3 DEF Seen
    <3>. QED  BY <2>1, <2>2, <3>2, <3>3, <3>4
              DEF UpToDate, Finished, ApprovedAll, Reviewed, TasksOf, Assigned
  <2>. QED  BY <2>3, <2>4
<1>2. CASE CompleteWrite(p)
  <2>1. Assigned' = Assigned /\ asg' \in [Emps -> Status \cup {"NONE"}] /\ goal' = goal
    BY <1>2, AssignmentsType, Statuses DEF CompleteWrite, RowsOK, WriteAssignments
  <2>2. \A e \in Assigned : asg'[e] \in Status /\ asg'[e] \in {asg[e], "COMPLETED"}
    BY <1>2, <2>1 DEF CompleteWrite, WriteAssignments, Assigned
  <2>3. PICK table : table = asg'
    OBVIOUS
  <2>4. Agree'
    BY <1>0, <2>1, <2>2 DEF Agree, GoalInv
  <2>5. CASE Finish(p)
    BY <2>4, <2>5, TurnFacts DEF UpToDate
  <2>6. CASE ~Finish(p)
    <3>1. pc'[p] = "goalWrite" /\ RollUp(table) = "COMPLETED"
      BY <1>2, <2>3, <2>6, TurnFacts DEF CompleteWrite, Completes
    <3>2. \A e \in Assigned : asg'[e] = "COMPLETED"
      BY <2>2, <2>3, <3>1, RollUpComplete DEF TypeInv
    <3>. QED  BY <2>1, <2>4, <3>1, <3>2 DEF UpToDate
  <2>. QED  BY <2>5, <2>6
<1>. QED  BY <1>1, <1>2

LEMMA TaskWorkSafe ==
  ASSUME TypeInv, GoalInv, OneAtATime, NEW p \in Procs,
         \/ \E t \in Tasks : SubmitTask(p, t) \/ ApproveTask(p, t) \/ RejectTask(p, t)
         \/ TaskWrite(p) \/ DeleteWrite(p) \/ AsgWrite(p)
  PROVE  Agree' /\ UpToDate(p)'
<1>0. /\ asg \in [Emps -> Status \cup {"NONE"}] /\ UpToDate(p) /\ NothingSeen \in Seen
      /\ Of[arg[p].t] \in Emps
  BY BlankTypes, Held DEF TypeInv, TypeOK, GoalInv
<1>1. CASE TaskWrite(p) \/ DeleteWrite(p)
  BY <1>1, WrittenSafe DEF TaskWrite, DeleteWrite
<1>2. CASE \E t \in Tasks : SubmitTask(p, t) \/ ApproveTask(p, t) \/ RejectTask(p, t)
  <2>1. PICK t \in Tasks, review \in Review : ReviewTask(p, t, review)
    BY <1>2 DEF SubmitTask, ApproveTask, RejectTask, Review
  <2>2. pc'[p] \in {"idle", "completeRead"} /\ asg' = asg /\ goal' = goal /\ pc[p] = "idle"
    BY <2>1, TurnFacts DEF ReviewTask, WriteTask
  <2>3. \A q \in Procs : pc[q] # "goalWrite"
    BY <2>2 DEF OneAtATime
  <2>. QED  BY <2>2, <2>3 DEF GoalInv, Agree, UpToDate, Assigned
<1>3. CASE AsgWrite(p)
  <2>1. asg' = asg /\ goal' = goal
    BY <1>0, <1>3 DEF AsgWrite, UpToDate
  <2>2. PICK what : what = [NothingSeen EXCEPT !.status = goal, !.progress = seen[p].moving]
    OBVIOUS
  <2>3. what.status = goal
    BY <1>0, <2>2 DEF Seen
  <2>4. pc'[p] = "goalWrite" /\ seen'[p].status = goal
    <3>1. Goto(p, "goalWrite", what)
      BY <1>3, <2>2 DEF AsgWrite
    <3>. QED  BY <2>3, <3>1, TurnFacts
  <2>5. \A q \in Procs : pc[q] # "goalWrite"
    BY <1>3 DEF AsgWrite, OneAtATime
  <2>. QED  BY <2>1, <2>4, <2>5 DEF GoalInv, Agree, UpToDate, Assigned
<1>. QED  BY <1>1, <1>2, <1>3

LEMMA GoalStep ==
  ASSUME OneAtATime
  PROVE  TypeInv /\ GoalInv /\ [Next]_vars => GoalInv'
<1>. SUFFICES ASSUME TypeInv, GoalInv, [Next]_vars PROVE GoalInv'
  OBVIOUS
<1>1. ASSUME NEW p \in Procs, Workflow(p) \/ TaskWork(p) PROVE GoalInv'
  <2>1. Agree' /\ UpToDate(p)'
    BY <1>1, AsksSafe, WorkSafe, TaskWorkSafe, CompletionSafe DEF Workflow, TaskWork, Asks
  <2>2. \A q \in Procs : UpToDate(q)'
    BY <2>1 DEF OneAtATime
  <2>. QED  BY <2>1, <2>2 DEF GoalInv
<1>2. CASE UNCHANGED vars
  BY <1>2 DEF vars, rows, GoalInv, Agree, UpToDate, Assigned, Finished, ApprovedAll, Reviewed, TasksOf
<1>. QED  BY <1>1, <1>2 DEF Next

LEMMA GoalInit == Init => GoalInv
BY Statuses DEF Init, GoalInv, Agree, UpToDate

\* Requests that come one at a time leave a COMPLETED goal only with every one of
\* its assignments COMPLETED (GoalWorkflow.CompletedTogether).
THEOREM AlwaysCompletedTogether ==
  ASSUME OneAtATime
  PROVE  Spec => []CompletedTogether
<1>1. TypeInv /\ GoalInv /\ [Next]_vars => GoalInv'
  BY GoalStep
<1>2. GoalInv => CompletedTogether
  BY DEF GoalInv, Agree, CompletedTogether, Quiet
<1>. QED  BY <1>1, <1>2, GoalInit, TypeInit, TypeStep, PTL DEF Spec

\* With every reviewed task approved, the completion writes every assignment.
LEMMA ApprovalCompletesGoal ==
  ASSUME TypeInv, NEW p \in Procs, UpToDate(p), CompleteWrite(p), ApprovedAll(Reviewed)
  PROVE  pc'[p] # "idle"
<1>1. Finished = Assigned
  BY DEF Finished, ApprovedAll
<1>2. \A e \in Assigned : asg'[e] = "COMPLETED"
  BY <1>1 DEF CompleteWrite, UpToDate, WriteAssignments, Assigned
<1>3. PICK table : table = asg'
  OBVIOUS
<1>4. RollUp(table) = "COMPLETED"
  BY <1>2, <1>3, RollUpComplete, Statuses DEF TypeInv
<1>5. Completes(p, table)
  BY <1>4 DEF Completes, UpToDate, CompleteWrite
<1>. QED  BY <1>3, <1>5, TurnFacts DEF CompleteWrite

\* Requests that come one at a time do not end an approval that leaves every
\* reviewed task APPROVED before the goal is COMPLETED, unless it still waits
\* for its own approval (GoalWorkflow.ApprovalCompletes).
THEOREM ApprovalAlwaysCompletes ==
  ASSUME OneAtATime
  PROVE  Spec => ApprovalCompletes
<1>1. TypeInv /\ GoalInv /\ [Next]_vars => GoalInv'
  BY GoalStep
<1>2. TypeInv /\ GoalInv /\ [Next]_vars
        => [\A p \in Procs :
              /\ pc[p] \in {"completeRead", "completeWrite"} /\ pc'[p] = "idle"
              /\ Reviewed # {} /\ ApprovedAll(Reviewed)
              => goal \in {"COMPLETED", "PENDING_APPROVAL"}]_vars
  <2>1. ASSUME TypeInv, GoalInv, NEW p \in Procs, Workflow(p) \/ TaskWork(p),
               pc[p] \in {"completeRead", "completeWrite"}, pc'[p] = "idle",
               Reviewed # {}, ApprovedAll(Reviewed)
        PROVE  goal \in {"COMPLETED", "PENDING_APPROVAL"}
    <3>1. ~Asks(p)
      BY <2>1, AsksBegin DEF Begin
    <3>2. CompleteRead(p) \/ CompleteWrite(p)
      BY <2>1, <3>1 DEF Workflow, TaskWork, Asks, ActivateWrite, WorkflowWrite, GoalWrite, AddWrite,
         SubmitTask, ApproveTask, RejectTask, ReviewTask, TaskWrite, DeleteWrite, AsgWrite
    <3>3. ~CompleteWrite(p)
      BY <2>1, ApprovalCompletesGoal DEF GoalInv
    <3>4. CompleteRead(p) => goal \in {"COMPLETED", "PENDING_APPROVAL"}
      BY <2>1 DEF CompleteRead, TypeInv, TypeOK
    <3>. QED  BY <3>2, <3>3, <3>4
  <2>. QED  BY <2>1 DEF Next, OneAtATime
<1>. QED  BY <1>1, <1>2, GoalInit, TypeInit, TypeStep, PTL DEF Spec, ApprovalCompletes

-----------------------------------------------------------------------------
(* Requests that come one at a time: a task and its milestones.            *)

AllDone(t) == \A m \in MilestonesOf(t) : ms[m].status = "DONE"

\* A request that is to write a task holds the milestones it creates with it,
\* and has found the others done if the task is to be; a request about a
\* milestone is at no statement of the workflow.
Ready(p) ==
  /\ turn[p] = "own" /\ pc[p] # "taskWrite" => form[p].for = {}
  /\ turn[p] # "own" => pc[p] = "idle"
  /\ pc[p] = "taskWrite" =>
       /\ \A m \in form[p].for : On[m] = arg[p].t
       /\ arg[p].row.work # "NONE"
       /\ arg[p].row.work = "done" /\ ~Complete(task[arg[p].t]) => AllDone(arg[p].t)

\* There are no milestones of a task that is not there.
NoOrphans == \A t \in Tasks : task[t].work = "NONE" => MilestonesOf(t) = {}
FollowInv == NoOrphans /\ \A p \in Procs : Ready(p)

\* A step that makes no task done but over its milestones.
DoneRightly ==
  \A t \in Tasks : Complete(task[t])' /\ ~Complete(task[t])
    => \A m \in MilestonesOf(t) : ms[m].status = "DONE"
\* A step that writes the work of no task, and one that may but not to done.
SameWork == \A t \in Tasks : task'[t].work = task[t].work
NotDone ==
  \A t \in Tasks : task'[t].work = task[t].work \/ task'[t].work \notin {"NONE", "done"}

LEMMA NotDoneRightly == NotDone => DoneRightly
BY DEF NotDone, DoneRightly, Complete

\* Fewer milestones, of the same tasks.
LEMMA NoOrphansStill ==
  ASSUME NoOrphans, NotDone,
         \A m \in Milestones : ms'[m].status # "NONE" =>
           ms[m].status # "NONE" \/ task'[On[m]].work # "NONE"
  PROVE  NoOrphans'
<1>. SUFFICES ASSUME NEW t \in Tasks, task'[t].work = "NONE", NEW m \in Milestones,
                     On[m] = t, ms'[m].status # "NONE"
              PROVE  FALSE
  BY DEF NoOrphans, MilestonesOf
<1>1. task[t].work = "NONE"
  BY DEF NotDone
<1>. QED  BY <1>1 DEF NoOrphans, MilestonesOf

LEMMA ReviewKeepsWork ==
  ASSUME TypeInv, NEW p \in Procs, NEW t \in Tasks, NEW review, ReviewTask(p, t, review)
  PROVE  SameWork /\ pc[p] = "idle" /\ pc'[p] # "taskWrite"
<1>1. SameWork
  BY DEF ReviewTask, WriteTask, SameWork, TypeInv, TypeOK, Task
<1>. QED  BY <1>1, TurnFacts DEF ReviewTask

LEMMA WorkflowKeepsWork ==
  ASSUME TypeInv, NEW p \in Procs, Workflow(p)
  PROVE  task' = task /\ pc[p] # "taskWrite" /\ pc'[p] # "taskWrite"
<1>1. \A stage, a : stage # "taskWrite" /\ Begin(p, stage, a) =>
        task' = task /\ pc[p] # "taskWrite" /\ pc'[p] # "taskWrite"
  BY TurnFacts DEF rows
<1>2. CASE Activate(p) \/ SubmitForFirst(p)
  BY <1>1, <1>2 DEF Activate, SubmitForFirst, SubmitFor
<1>3. ASSUME NEW e \in Emps, Submit(p, e) \/ Resubmit(p, e) \/ Add(p, e)
      PROVE  task' = task /\ pc[p] # "taskWrite" /\ pc'[p] # "taskWrite"
  BY <1>1, <1>3 DEF Submit, SubmitFor, Resubmit, Add
<1>4. ASSUME NEW approve \in BOOLEAN, ManagerReview(p, approve) \/ HrReview(p, approve)
      PROVE  task' = task /\ pc[p] # "taskWrite" /\ pc'[p] # "taskWrite"
  BY <1>1, <1>4 DEF ManagerReview, HrReview, Decide
<1>5. CASE ActivateWrite(p) \/ WorkflowWrite(p)
  BY <1>5, TurnFacts DEF ActivateWrite, WorkflowWrite, WriteAssignments
<1>6. CASE GoalWrite(p) \/ AddWrite(p)
  <2>1. arg[p].then \in {"idle", "completeRead"}
    BY Held DEF TypeInv
  <2>. QED  BY <1>6, <2>1, TurnFacts DEF GoalWrite, AddWrite
<1>. QED  BY <1>2, <1>3, <1>4, <1>5, <1>6 DEF Workflow

LEMMA ElsewhereKeepsWork ==
  ASSUME MTypeInv, NEW p \in Procs, Elsewhere(p)
  PROVE  SameWork /\ pc[p] # "taskWrite" /\ pc'[p] # "taskWrite"
<1>0. TypeInv
  BY DEF MTypeInv
<1>1. CASE Workflow(p)
  BY <1>0, <1>1, WorkflowKeepsWork DEF SameWork
<1>2. CASE AsgWrite(p) \/ CompleteWrite(p)
  BY <1>0, <1>2, TurnFacts DEF AsgWrite, CompleteWrite, WriteAssignments, SameWork
<1>3. CASE CompleteRead(p)
  BY <1>0, <1>3, TurnFacts DEF CompleteRead, rows, SameWork, TypeInv, TypeOK
<1>4. ASSUME NEW t \in Tasks, Delete(p, t)
      PROVE  SameWork /\ pc[p] # "taskWrite" /\ pc'[p] # "taskWrite"
  BY <1>0, <1>4, TurnFacts DEF Delete, rows, SameWork
<1>5. ASSUME NEW t \in Tasks, SubmitTask(p, t) \/ ApproveTask(p, t) \/ RejectTask(p, t)
      PROVE  SameWork /\ pc[p] # "taskWrite" /\ pc'[p] # "taskWrite"
  BY <1>0, <1>5, ReviewKeepsWork DEF SubmitTask, ApproveTask, RejectTask
<1>. QED  BY <1>1, <1>2, <1>3, <1>4, <1>5 DEF Elsewhere

\* A step of the goal and of reviews.
LEMMA ElsewhereFollows ==
  ASSUME MTypeInv, FollowInv, NEW p \in Procs, Elsewhere(p)
  PROVE  NoOrphans' /\ Ready(p)' /\ DoneRightly
<1>1. SameWork /\ pc[p] # "taskWrite" /\ pc'[p] # "taskWrite"
  BY ElsewhereKeepsWork
<1>2. ms' = ms /\ turn' = turn /\ form' = form /\ turn[p] = "own"
  BY DEF Elsewhere
<1>3. Ready(p)'
  BY <1>1, <1>2 DEF FollowInv, Ready
<1>4. NotDone
  BY <1>1 DEF SameWork, NotDone
<1>. QED  BY <1>2, <1>3, <1>4, NoOrphansStill, NotDoneRightly DEF FollowInv

\* What a request that changes a task holds.
LEMMA ChangeFacts ==
  ASSUME TypeInv, NEW p \in Procs, NEW t, NEW row, NEW approves, TaskChange(p, t, row, approves)
  PROVE  /\ pc[p] = "idle" /\ pc'[p] = "taskWrite" /\ arg'[p].t = t /\ arg'[p].row = row
         /\ task' = task
<1>1. PICK a : a = [NoArg EXCEPT !.t = t, !.row = row,
                     !.then = IF approves THEN "completeRead" ELSE "idle"]
  OBVIOUS
<1>2. a.t = t /\ a.row = row
  BY <1>1, BlankTypes DEF Arg
<1>3. Begin(p, "taskWrite", a)
  BY <1>1 DEF TaskChange
<1>. QED  BY <1>2, <1>3, TurnFacts DEF rows

LEMMA CreateFacts ==
  ASSUME TypeInv, NEW p \in Procs, NEW t \in Tasks, NEW asked, NEW work,
         NEW private, NEW byOwner, Create(p, t, asked, work, private, byOwner)
  PROVE  /\ pc[p] = "idle" /\ pc'[p] = "taskWrite" /\ arg'[p].t = t /\ arg'[p].row.work = work
         /\ task' = task /\ task[t].work = "NONE"
<1>1. PICK new : new = [NoTask EXCEPT !.work = work, !.private = private]
  OBVIOUS
<1>2. PICK review : review = ReviewAfter([new EXCEPT !.work = "todo"], work, byOwner)
  OBVIOUS
<1>3. PICK row : row = [new EXCEPT !.review = review]
  OBVIOUS
<1>4. row.work = work
  BY <1>1, <1>3 DEF NoTask
<1>5. TaskChange(p, t, row, FALSE) /\ task[t].work = "NONE"
  BY <1>1, <1>2, <1>3 DEF Create
<1>6. /\ pc[p] = "idle" /\ pc'[p] = "taskWrite" /\ arg'[p].t = t /\ arg'[p].row = row
      /\ task' = task
  BY <1>5, ChangeFacts, Zenon
<1>. QED  BY <1>4, <1>5, <1>6

\* A request about a task, and the write of it with its milestones.
LEMMA TasksFollow ==
  ASSUME MTypeInv, FollowInv, OneAtATime, NEW p \in Procs, TasksWithMilestones(p)
  PROVE  NoOrphans' /\ Ready(p)' /\ DoneRightly
<1>0. TypeInv /\ NoOrphans /\ Ready(p) /\ form \in [Procs -> Form] /\ ms \in [Milestones -> Milestone]
  BY DEF MTypeInv, MRowsOK, FollowInv
<1>1. ASSUME NEW t \in Tasks, NEW asked \in Asked, NEW private \in Private, NEW byOwner \in BOOLEAN,
             NEW drafts \in SUBSET Milestones, NEW pct \in 0..2,
             CreateTracked(p, t, asked, private, byOwner, drafts, pct)
      PROVE  NoOrphans' /\ Ready(p)' /\ DoneRightly
  <2>1. PICK work : work = IF drafts # {} /\ asked = "todo" THEN "pending_approval" ELSE asked
    OBVIOUS
  <2>2. work \notin {"NONE", "done"}
    BY <1>1, <2>1 DEF CreateTracked, Asked
  <2>3. /\ pc'[p] = "taskWrite" /\ arg'[p].t = t /\ arg'[p].row.work = work /\ task' = task
    BY <1>0, <1>1, <2>1, CreateFacts DEF CreateTracked
  <2>4. PICK f : f = [NoForm EXCEPT !.for = drafts, !.pct = pct]
    OBVIOUS
  <2>5. f.for = drafts
    BY <2>4, BlankMilestones DEF Form
  <2>6. /\ form'[p] = f /\ ms' = ms /\ turn'[p] = "own" /\ \A m \in drafts : On[m] = t
    BY <1>0, <1>1, <2>4 DEF CreateTracked, Free
  <2>7. Ready(p)'
    BY <2>2, <2>3, <2>5, <2>6 DEF Ready
  <2>8. NotDone
    BY <2>3 DEF NotDone
  <2>. QED  BY <1>0, <2>6, <2>7, <2>8, NoOrphansStill, NotDoneRightly
<1>2. ASSUME NEW t \in Tasks, NEW asked \in Asked, NEW private \in Private, NEW byOwner \in BOOLEAN,
             Create(p, t, asked, asked, private, byOwner), Free(p), UNCHANGED <<ms, turn, form>>
      PROVE  NoOrphans' /\ Ready(p)' /\ DoneRightly
  <2>1. /\ pc[p] = "idle" /\ pc'[p] = "taskWrite" /\ arg'[p].t = t /\ arg'[p].row.work = asked
        /\ task' = task /\ task[t].work = "NONE"
    BY <1>0, <1>2, CreateFacts
  <2>2. MilestonesOf(t) = {}
    BY <1>0, <2>1 DEF NoOrphans
  <2>3. AllDone(t)'
    BY <1>2, <2>2 DEF AllDone, MilestonesOf
  <2>4. turn'[p] = "own" /\ form'[p].for = {} /\ asked # "NONE"
    BY <1>0, <1>2, <2>1 DEF Free, Ready, Asked
  <2>5. Ready(p)'
    BY <2>1, <2>3, <2>4 DEF Ready
  <2>6. NotDone
    BY <2>1 DEF NotDone
  <2>. QED  BY <1>0, <1>2, <2>5, <2>6, NoOrphansStill, NotDoneRightly
<1>3. ASSUME NEW t \in Tasks, NEW asked \in Asked, NEW private \in Private, NEW byOwner \in BOOLEAN,
             NEW dated \in BOOLEAN, Guarded(t, asked), Update(p, t, asked, private, byOwner, dated),
             Free(p), UNCHANGED <<ms, turn, form>>
      PROVE  NoOrphans' /\ Ready(p)' /\ DoneRightly
  <2>1. PICK row : row = [work |-> asked, review |-> ReviewAfter(task[t], asked, byOwner),
                          private |-> private]
    OBVIOUS
  <2>2. PICK approves \in BOOLEAN : TaskChange(p, t, row, approves)
    BY <1>3, <2>1 DEF Update, Complete
  <2>3. /\ pc[p] = "idle" /\ pc'[p] = "taskWrite" /\ arg'[p].t = t /\ arg'[p].row = row
        /\ task' = task
    BY <1>0, <2>2, ChangeFacts
  <2>4. row.work = asked /\ asked # "NONE"
    BY <2>1 DEF Asked
  <2>5. asked = "done" => AllDone(t)'
    BY <1>3 DEF Guarded, MilestonesComplete, AllDone, MilestonesOf
  <2>6. turn'[p] = "own" /\ form'[p].for = {}
    BY <1>0, <1>3, <2>3 DEF Free, Ready
  <2>7. Ready(p)'
    BY <2>3, <2>4, <2>5, <2>6 DEF Ready
  <2>8. NotDone
    BY <2>3 DEF NotDone
  <2>. QED  BY <1>0, <1>3, <2>7, <2>8, NoOrphansStill, NotDoneRightly
<1>4. CASE TaskAndMilestones(p)
  <2>1. PICK t \in Tasks, row \in Task : t = arg[p].t /\ row = arg[p].row
    BY <1>0, Held DEF TypeInv
  <2>2. /\ task' = [task EXCEPT ![t] = row] /\ pc[p] = "taskWrite" /\ pc'[p] = "asgWrite"
        /\ turn'[p] = "own" /\ form'[p] = NoForm /\ task \in [Tasks -> Task]
    BY <1>0, <1>4, <2>1, TurnFacts
       DEF TaskAndMilestones, TaskWrite, Written, WriteTask, Turned, MTypeInv, MRowsOK, TypeInv, TypeOK
  <2>3. /\ row.work # "NONE" /\ \A m \in form[p].for : On[m] = t
        /\ row.work = "done" /\ ~Complete(task[t]) => AllDone(t)
    BY <1>0, <2>1, <2>2 DEF Ready
  <2>4. Ready(p)'
    BY <2>2, BlankMilestones DEF Ready
  <2>5. DoneRightly
    BY <2>2, <2>3 DEF DoneRightly, AllDone, Complete
  <2>6. ASSUME NEW u \in Tasks, task'[u].work = "NONE", NEW m \in Milestones, On[m] = u,
               ms'[m].status # "NONE"
        PROVE  FALSE
    <3>1. u # t /\ task[u].work = "NONE"
      BY <2>2, <2>3, <2>6
    <3>2. ms'[m] = ms[m]
      BY <1>4, <2>3, <2>6, <3>1 DEF TaskAndMilestones
    <3>. QED  BY <1>0, <2>6, <3>1, <3>2 DEF NoOrphans, MilestonesOf
  <2>7. NoOrphans'
    BY <2>6 DEF NoOrphans, MilestonesOf
  <2>. QED  BY <2>4, <2>5, <2>7
<1>5. CASE DeleteCascades(p)
  <2>1. PICK t \in Tasks : t = arg[p].t
    BY <1>0, Held DEF TypeInv
  <2>2. /\ task' = [task EXCEPT ![t] = NoTask] /\ pc[p] = "deleteWrite" /\ pc'[p] = "asgWrite"
        /\ turn' = turn /\ form' = form /\ task \in [Tasks -> Task]
    BY <1>0, <1>5, <2>1, TurnFacts DEF DeleteCascades, DeleteWrite, Written, WriteTask, TypeInv, TypeOK
  <2>3. Ready(p)'
    BY <1>0, <2>2 DEF Ready
  <2>4. DoneRightly
    BY <2>2 DEF DoneRightly, Complete, NoTask
  <2>5. ASSUME NEW u \in Tasks, task'[u].work = "NONE", NEW m \in Milestones, On[m] = u,
               ms'[m].status # "NONE"
        PROVE  FALSE
    <3>1. u # t /\ ms'[m] = ms[m]
      BY <1>5, <2>1, <2>5, BlankMilestones DEF DeleteCascades
    <3>2. task[u].work = "NONE"
      BY <2>2, <2>5, <3>1
    <3>. QED  BY <1>0, <2>5, <3>1, <3>2 DEF NoOrphans, MilestonesOf
  <2>6. NoOrphans'
    BY <2>5 DEF NoOrphans, MilestonesOf
  <2>. QED  BY <2>3, <2>4, <2>6
<1>. QED  BY <1>1, <1>2, <1>3, <1>4, <1>5 DEF TasksWithMilestones

\* A request about a milestone, and what follows it.
LEMMA MilestonesFollow ==
  ASSUME MTypeInv, FollowInv, OneAtATime, NEW p \in Procs, MilestoneWork(p)
  PROVE  NoOrphans' /\ Ready(p)' /\ DoneRightly
<1>0. /\ TypeInv /\ NoOrphans /\ Ready(p) /\ ms \in [Milestones -> Milestone]
      /\ form \in [Procs -> Form] /\ turn \in [Procs -> Turn] /\ task \in [Tasks -> Task]
  BY DEF MTypeInv, MRowsOK, FollowInv, TypeInv, TypeOK
<1>1. ASSUME NEW m \in Milestones, NEW row, ms' = [ms EXCEPT ![m] = row], Free(p), UNCHANGED vars,
             ms[m].status # "NONE" \/ row.status = "NONE" \/ task[On[m]].work # "NONE",
             UNCHANGED <<turn, form>> \/ \E stage \in Turn \ {"own"}, f \in Form : Turned(p, stage, f)
      PROVE  NoOrphans' /\ Ready(p)' /\ DoneRightly
  <2>1. task' = task /\ pc' = pc /\ arg' = arg /\ pc[p] = "idle"
    BY <1>1 DEF vars, rows, Free
  <2>2. \A n \in Milestones : ms'[n] = IF n = m THEN row ELSE ms[n]
    BY <1>0, <1>1
  <2>3. NotDone
    BY <2>1 DEF NotDone
  <2>4. \A n \in Milestones : ms'[n].status # "NONE" =>
          ms[n].status # "NONE" \/ task'[On[n]].work # "NONE"
    BY <1>1, <2>1, <2>2
  <2>5. NoOrphans'
    BY <1>0, <2>3, <2>4, NoOrphansStill
  <2>6. \/ turn'[p] = "own" /\ form'[p].for = {}
        \/ turn'[p] # "own"
    BY <1>0, <1>1, <2>1 DEF Ready, Turned
  <2>7. Ready(p)'
    BY <2>1, <2>6 DEF Ready
  <2>. QED  BY <2>3, <2>5, <2>7, NotDoneRightly
<1>2. ASSUME NEW m \in Milestones, DeleteMilestone(p, m)
      PROVE  NoOrphans' /\ Ready(p)' /\ DoneRightly
  BY <1>1, <1>2 DEF DeleteMilestone
<1>3. ASSUME NEW m \in Milestones, NEW pct \in 0..2, CreateMilestone(p, m, pct)
      PROVE  NoOrphans' /\ Ready(p)' /\ DoneRightly
  <2>1. PICK row : row = [NewMilestone EXCEPT !.progress = pct]
    OBVIOUS
  <2>2. PICK f : f = [NoForm EXCEPT !.for = {m}]
    OBVIOUS
  <2>3. f \in Form
    BY <2>2, BlankMilestones DEF Form
  <2>4. /\ ms' = [ms EXCEPT ![m] = row] /\ Free(p) /\ UNCHANGED vars /\ task[On[m]].work # "NONE"
        /\ Turned(p, "wait", f) \/ UNCHANGED <<turn, form>>
    BY <1>3, <2>1, <2>2 DEF CreateMilestone
  <2>. QED  BY <1>1, <2>3, <2>4 DEF Turn
<1>4. ASSUME NEW m \in Milestones, NEW r \in Requests, NEW byOwner \in BOOLEAN,
             UpdateMilestone(p, m, r, byOwner)
      PROVE  NoOrphans' /\ Ready(p)' /\ DoneRightly
  <2>1. PICK row : row = Updated(r, ms[m])
    OBVIOUS
  <2>2. /\ ms' = [ms EXCEPT ![m] = row] /\ Free(p) /\ UNCHANGED vars /\ ms[m].status # "NONE"
    BY <1>4, <2>1 DEF UpdateMilestone
  <2>3. PICK settles, worked : worked \in BOOLEAN /\ After(p, m, settles, worked, byOwner)
    BY <1>4 DEF UpdateMilestone
  <2>4. PICK f : f = [for |-> {m}, pct |-> 0, byOwner |-> byOwner, work |-> worked]
    OBVIOUS
  <2>5. f \in Form
    BY <2>3, <2>4 DEF Form
  <2>6. Turned(p, "unlock", f) \/ Turned(p, "sync", f) \/ UNCHANGED <<turn, form>>
    BY <2>3, <2>4 DEF After
  <2>. QED  BY <1>1, <2>2, <2>5, <2>6 DEF Turn
<1>5. CASE Unlock(p) \/ Wait(p)
  <2>1. PICK t \in Tasks : t = TaskOf(p)
    BY <1>5, TaskOfType DEF Unlock, Wait, MTypeInv
  <2>2. PICK w \in {"todo", "pending_approval"} :
          \/ task' = [task EXCEPT ![t] = [task[t] EXCEPT !.work = w]]
          \/ task' = [task EXCEPT ![t] = task[t]]
    BY <1>5, <2>1 DEF Unlock, Wait, WriteTask
  <2>3. [task[t] EXCEPT !.work = w].work = w
    BY <1>0 DEF Task
  <2>4. NotDone
    BY <1>0, <2>2, <2>3 DEF NotDone
  <2>5. ms' = ms /\ pc' = pc /\ pc[p] = "idle"
    BY <1>0, <1>5 DEF Unlock, Wait, Ready
  <2>6. \/ turn'[p] = "sync"
        \/ turn'[p] = "own" /\ form'[p].for = {}
    BY <1>0, <1>5, BlankMilestones DEF Unlock, Wait, Turned
  <2>7. Ready(p)'
    BY <2>5, <2>6 DEF Ready
  <2>. QED  BY <1>0, <2>4, <2>5, <2>7, NoOrphansStill, NotDoneRightly
<1>6. CASE Sync(p)
  <2>1. PICK t \in Tasks : t = TaskOf(p)
    BY <1>6, TaskOfType DEF Sync, MTypeInv
  <2>2. turn'[p] = "own" /\ form'[p].for = {} /\ ms' = ms /\ pc[p] = "idle"
    BY <1>0, <1>6, BlankMilestones DEF Sync, Turned, Ready
  <2>3. CASE UNCHANGED vars
    <3>1. task' = task /\ pc' = pc
      BY <2>3 DEF vars, rows
    <3>2. Ready(p)' /\ NotDone
      BY <2>2, <3>1 DEF Ready, NotDone
    <3>. QED  BY <1>0, <2>2, <3>2, NoOrphansStill, NotDoneRightly
  <2>4. CASE ~UNCHANGED vars
    <3>1. PICK row : row = [task[t] EXCEPT !.work = Following(t),
                              !.review = ReviewAfter(task[t], Following(t), form[p].byOwner)]
      OBVIOUS
    <3>2. row.work = Following(t)
      BY <1>0, <3>1 DEF Task
    <3>3. /\ task[t].work # "NONE" /\ Following(t) # task[t].work
          /\ \E approves \in BOOLEAN : TaskChange(p, t, row, approves)
      BY <1>6, <2>1, <2>4, <3>1 DEF Sync, Complete
    <3>4. Following(t) # "NONE" /\ (Following(t) = "done" => AllDone(t))
      BY <3>3 DEF Following, AllDone
    <3>5. pc'[p] = "taskWrite" /\ arg'[p].t = t /\ arg'[p].row = row /\ task' = task
      BY <1>0, <3>3, ChangeFacts
    <3>6. AllDone(t) => AllDone(t)'
      BY <2>2 DEF AllDone, MilestonesOf
    <3>7. Ready(p)'
      BY <2>2, <3>2, <3>4, <3>5, <3>6 DEF Ready
    <3>8. NotDone
      BY <3>5 DEF NotDone
    <3>. QED  BY <1>0, <2>2, <3>7, <3>8, NoOrphansStill, NotDoneRightly
  <2>. QED  BY <2>3, <2>4
<1>. QED  BY <1>2, <1>3, <1>4, <1>5, <1>6 DEF MilestoneWork

LEMMA FollowStep ==
  ASSUME OneAtATime, MTypeInv, FollowInv
  PROVE  /\ MNext => FollowInv' /\ DoneRightly
         /\ UNCHANGED mvars => FollowInv'
<1>1. ASSUME MNext PROVE FollowInv' /\ DoneRightly
  <2>1. PICK p \in Procs : Elsewhere(p) \/ TasksWithMilestones(p) \/ MilestoneWork(p)
    BY <1>1 DEF MNext
  <2>2. NoOrphans' /\ Ready(p)' /\ DoneRightly
    BY <2>1, ElsewhereFollows, TasksFollow, MilestonesFollow
  <2>3. \A q \in Procs : Ready(q)'
    BY <2>2 DEF OneAtATime
  <2>. QED  BY <2>2, <2>3 DEF FollowInv
<1>2. ASSUME UNCHANGED mvars PROVE FollowInv'
  <2>1. /\ task' = task /\ ms' = ms /\ pc' = pc /\ arg' = arg /\ turn' = turn /\ form' = form
    BY <1>2 DEF mvars, vars, rows
  <2>2. \A t : AllDone(t)' = AllDone(t) /\ MilestonesOf(t)' = MilestonesOf(t)
    BY <2>1 DEF AllDone, MilestonesOf
  <2>3. ASSUME NEW p \in Procs PROVE Ready(p)'
    BY <2>1 DEF FollowInv, Ready, AllDone, MilestonesOf
  <2>. QED  BY <2>1, <2>3 DEF FollowInv, NoOrphans, MilestonesOf
<1>. QED  BY <1>1, <1>2

LEMMA FollowInit == MInit => FollowInv
<1>. SUFFICES ASSUME MInit PROVE FollowInv
  OBVIOUS
<1>1. NoOrphans
  BY BlankMilestones DEF MInit, NoOrphans, MilestonesOf
<1>2. ASSUME NEW p \in Procs PROVE Ready(p)
  BY BlankMilestones DEF MInit, Init, Ready
<1>. QED  BY <1>1, <1>2 DEF FollowInv

\* Requests that come one at a time make a task done only over milestones that
\* are all DONE: by an update of its status, by a completion date, or by
\* following the last of them (Milestones.DoneWithMilestones).
THEOREM DoneOnlyWithMilestones ==
  ASSUME OneAtATime
  PROVE  MSpec => DoneWithMilestones
<1>1. MTypeInv /\ FollowInv /\ [MNext]_mvars => FollowInv'
  BY FollowStep
<1>2. MTypeInv /\ FollowInv /\ [MNext]_mvars
        => [\A t \in Tasks : Complete(task[t])' /\ ~Complete(task[t])
              => \A m \in MilestonesOf(t) : ms[m].status = "DONE"]_mvars
  BY FollowStep DEF DoneRightly
<1>. QED  BY <1>1, <1>2, FollowInit, MilestonesInit, MilestonesStep, PTL DEF MSpec, DoneWithMilestones
=============================================================================
