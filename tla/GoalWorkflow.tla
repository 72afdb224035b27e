---------------------------- MODULE GoalWorkflow ---------------------------
(***************************************************************************)
(* One goal, the employees it is assigned to, their tasks on it and the    *)
(* reviews of both (goal.service.js, goal.controller.js,                   *)
(* task.controller.js, taskReview.service.js, taskReview.controller.js).   *)
(*                                                                         *)
(* The status of the goal is derived from those of its assignments, which  *)
(* the workflow writes for the assignees and the approval of the last task *)
(* writes for all.  No two statements are one transaction; a read is one   *)
(* step with the write of the same request that it follows.                *)
(***************************************************************************)
EXTENDS Integers, FiniteSets

CONSTANTS
  Procs,     \* HTTP requests in flight
  Emps,      \* the employees the goal is or may be assigned to
  Tasks,     \* the tasks there are or may be
  Of,        \* whose task each is
  Primary,   \* goals.employeeId, the first assignee
  Approval,  \* approvalMode: the goal is created for a manager's approval
  Private    \* bound: what requests ask isPrivate or isStandalone of a task to be

ASSUME GoalConstants ==
  /\ Tasks # {} /\ Of \in [Tasks -> Emps] /\ Primary \in Emps
  /\ Approval \in BOOLEAN /\ Private \subseteq BOOLEAN

VARIABLES
  started,   \* history: the goal has been ACTIVE
  goal,      \* goals.status
  asg,       \* goal_assignments.status of each employee, or "NONE"
  progress,  \* goals.progress is above 0
  ahead,     \* the employees whose assignment's progress is above 0
  task,      \* the tasks
  pc, arg, seen  \* requests: stage, parameters, what they have read

rows == <<started, goal, asg, progress, ahead, task>>
vars == <<rows, pc, arg, seen>>

\* STATUS_RANK, of the statuses that the code gives to goals it creates.
Rank == [CHANGES_REQUESTED |-> 0, PENDING_APPROVAL |-> 2, ACTIVE |-> 3,
         PENDING_MANAGER_REVIEW |-> 5, COMPLETED |-> 7]
Status == DOMAIN Rank
Work == {"NONE", "pending_approval", "todo", "in_progress", "done"}
\* What requests ask for; in_progress stands for every status of work under way.
Asked == {"todo", "in_progress", "done"}
Review == {"NONE", "SUBMITTED", "APPROVED"}  \* REJECTED is as NONE to the code
\* private: or standalone, which also counts for nothing on the goal.
Task == [work : Work, review : Review, private : BOOLEAN]
NoTask == [work |-> "NONE", review |-> "NONE", private |-> FALSE]

Stage == {"idle", "taskWrite", "deleteWrite", "asgWrite", "goalWrite", "activateWrite",
          "workflowWrite", "addWrite", "completeRead", "completeWrite"}
\* who: the assignees written; to: their new status; t, row: the task written;
\* then: what follows the write of the goal; keeps: which is of its status only.
Arg == [who : SUBSET Emps, to : Status, t : Tasks, row : Task, then : {"idle", "completeRead"},
        keeps : BOOLEAN]
\* What is to be written to the next row; whether any task of the goal is under
\* way, and whether every one is APPROVED.
Seen == [status : Status, progress : BOOLEAN, moving : BOOLEAN, all : BOOLEAN]
NoArg == [who |-> {}, to |-> "ACTIVE", t |-> CHOOSE t \in Tasks : TRUE, row |-> NoTask,
          then |-> "idle", keeps |-> FALSE]
NothingSeen == [status |-> "ACTIVE", progress |-> FALSE, moving |-> FALSE, all |-> FALSE]

\* The state is of these types.
TypeOK ==
  /\ started \in BOOLEAN
  /\ goal \in Status /\ asg \in [Emps -> Status \cup {"NONE"}]
  /\ progress \in BOOLEAN /\ ahead \subseteq Emps /\ task \in [Tasks -> Task]
  /\ pc \in [Procs -> Stage] /\ arg \in [Procs -> Arg] /\ seen \in [Procs -> Seen]

\* createGoal, whose owner approves it unless he created it.
Init ==
  /\ started = ~Approval
  /\ goal = IF Approval THEN "PENDING_APPROVAL" ELSE "ACTIVE"
  /\ \E S \in SUBSET Emps : Primary \in S /\ asg = [e \in Emps |-> IF e \in S THEN goal ELSE "NONE"]
  /\ progress = FALSE /\ ahead = {} /\ task = [t \in Tasks |-> NoTask]
  /\ pc = [p \in Procs |-> "idle"]
  /\ arg = [p \in Procs |-> NoArg]
  /\ seen = [p \in Procs |-> NothingSeen]

-----------------------------------------------------------------------------
(* What the handlers ask of the rows.                                      *)

Assigned == {e \in Emps : asg[e] # "NONE"}
TasksOf(e) == {t \in Tasks : task[t].work # "NONE" /\ Of[t] = e}
\* With progress above 0.
Begun(row) == row.work \in {"in_progress", "done"}
\* isWorkStarted
Started(row) == row.work \notin {"NONE", "todo"}
Complete(row) == row.work = "done"
\* isReviewedTask
Reviewed == {t \in Tasks : task[t].work # "NONE" /\ ~task[t].private}
ApprovedAll(S) == \A t \in S : task[t].review = "APPROVED"

\* (mutant) The furthest of the assignments.
Furthest(table) == CHOOSE s \in {table[e] : e \in Assigned} : \A e \in Assigned : Rank[table[e]] <= Rank[s]
\* rollUpGoalStatus: the least advanced of the assignments.
RollUp(table) == CHOOSE s \in {table[e] : e \in Assigned} : \A e \in Assigned : Rank[s] <= Rank[table[e]]

\* weightedCompletion is above 0.
Moving(table, S) == \E t \in S : Begun(table[t]) /\ ~table[t].private

-----------------------------------------------------------------------------
(* Requests in flight.                                                     *)

Begin(p, stage, a) ==
  /\ pc[p] = "idle"
  /\ pc' = [pc EXCEPT ![p] = stage]
  /\ arg' = [arg EXCEPT ![p] = a]
  /\ UNCHANGED <<rows, seen>>

\* To the next statement, with what was read for it.
Goto(p, stage, what) ==
  pc' = [pc EXCEPT ![p] = stage] /\ seen' = [seen EXCEPT ![p] = what] /\ UNCHANGED arg

Finish(p) ==
  /\ pc' = [pc EXCEPT ![p] = "idle"]
  /\ arg' = [arg EXCEPT ![p] = NoArg]
  /\ seen' = [seen EXCEPT ![p] = NothingSeen]

WriteAssignments(S, status, forward) ==
  /\ asg' = [e \in Emps |-> IF e \in S \cap Assigned THEN status ELSE asg[e]]
  /\ ahead' = ahead \cup (IF forward THEN S \cap Assigned ELSE {})
  /\ UNCHANGED <<started, goal, progress, task>>

WriteTask(t, row) ==
  /\ task' = [task EXCEPT ![t] = row]
  /\ UNCHANGED <<started, goal, asg, progress, ahead>>

-----------------------------------------------------------------------------
(* The workflow of the goal.                                               *)

\* activateGoal
Activate(p) ==
  /\ goal = "PENDING_APPROVAL"
  /\ Begin(p, "activateWrite", [NoArg EXCEPT !.who = Emps, !.to = "ACTIVE", !.keeps = TRUE])
ActivateWrite(p) ==
  /\ pc[p] = "activateWrite" /\ WriteAssignments(Emps, "ACTIVE", FALSE)
  /\ Goto(p, "goalWrite", [NothingSeen EXCEPT !.status = "ACTIVE"])

Submittable == {"ACTIVE", "CHANGES_REQUESTED"}
SubmitFor(p, e, status) ==
  /\ goal # "PENDING_APPROVAL" /\ status \in Submittable
  /\ TasksOf(e) # {} /\ \A t \in TasksOf(e) : Complete(task[t])
  /\ Begin(p, "workflowWrite", [NoArg EXCEPT !.who = {e}, !.to = "PENDING_MANAGER_REVIEW"])

\* submitGoal, by an assignee; by another, for the first assignee.
Submit(p, e) == e \in Assigned /\ SubmitFor(p, e, asg[e])
SubmitForFirst(p) == SubmitFor(p, Primary, goal)

\* resolveReviewTargets: an assignee, or all of those at this stage (but the caller).
Targets(stages) ==
  LET pending == {e \in Emps : asg[e] \in stages}
  IN ({{e} : e \in pending} \cup {pending} \cup {pending \ {e} : e \in pending}) \ {{}}

\* managerReview, which may also decline a proposed goal.
ManagerReviews(approve) ==
  {"PENDING_MANAGER_REVIEW"} \cup (IF approve THEN {} ELSE {"PENDING_APPROVAL"})
\* hrReview, which may also complete a goal under way, or reopen a completed one.
HrReviews(approve) == {"PENDING_MANAGER_REVIEW", IF approve THEN "ACTIVE" ELSE "COMPLETED"}

Decide(p, approve, S) ==
  Begin(p, "workflowWrite",
        [NoArg EXCEPT !.who = S, !.to = IF approve THEN "COMPLETED" ELSE "CHANGES_REQUESTED"])

ManagerReview(p, approve) == \E S \in Targets(ManagerReviews(approve)) : Decide(p, approve, S)
HrReview(p, approve) == \E S \in Targets(HrReviews(approve)) : Decide(p, approve, S)

\* resubmitGoal: a goal declined before any work is proposed again.
Unbegun == Approval /\ ~progress /\ \A t \in Tasks : ~Started(task[t])
Resubmit(p, e) ==
  /\ (IF e \in Assigned THEN asg[e] ELSE goal) = "CHANGES_REQUESTED"
  /\ Begin(p, "workflowWrite", [NoArg EXCEPT !.who = {e}, !.keeps = TRUE,
       !.to = IF Unbegun THEN "PENDING_APPROVAL" ELSE "PENDING_MANAGER_REVIEW"])

\* The write to the assignments, and rolledUpParentData.
WorkflowWrite(p) ==
  /\ pc[p] = "workflowWrite"
  /\ WriteAssignments(arg[p].who, arg[p].to,
                      ~arg[p].keeps /\ arg[p].to \in {"PENDING_MANAGER_REVIEW", "COMPLETED"})
  /\ Goto(p, "goalWrite", [NothingSeen EXCEPT !.status = RollUp(asg'), !.progress = ahead' # {}])

\* The write to the goal that ends the workflow, the progress and the completion.
GoalWrite(p) ==
  /\ pc[p] = "goalWrite" /\ goal' = seen[p].status
  /\ started' = (started \/ goal' = "ACTIVE")
  /\ progress' = IF arg[p].keeps THEN progress ELSE seen[p].progress
  /\ UNCHANGED <<asg, ahead, task>>
  /\ IF arg[p].then = "idle" THEN Finish(p) ELSE Goto(p, arg[p].then, NothingSeen)

\* updateGoal: addEmployeeIds, with the status that the goal had when read.
Add(p, e) ==
  e \in Emps \ Assigned /\ Begin(p, "addWrite", [NoArg EXCEPT !.who = {e}, !.to = goal])

AddWrite(p) ==
  /\ pc[p] = "addWrite"
  /\ asg' = [e \in Emps |-> IF e \in arg[p].who \ Assigned THEN arg[p].to ELSE asg[e]]
  /\ UNCHANGED <<started, goal, progress, ahead, task>> /\ Finish(p)

-----------------------------------------------------------------------------
(* Tasks.                                                                  *)

\* reviewFieldsForTransition; byOwner: by the owner of the goal.
ReviewAfter(old, work, byOwner) ==
  CASE old.private -> old.review
    [] ~old.private /\ work = "done" /\ ~Complete(old) -> IF byOwner THEN "APPROVED" ELSE "NONE"
    [] ~old.private /\ work # "done" -> "NONE"
    [] OTHER -> old.review

\* The weight gate, of which only the approval of the goal is looked at here.
MayBegin == goal # "PENDING_APPROVAL"

\* After the write of a task: the progress of the goal, then the completion
\* of the goal if the write approved the task.
TaskChange(p, t, row, approves) ==
  Begin(p, "taskWrite", [NoArg EXCEPT !.t = t, !.row = row,
                         !.then = IF approves THEN "completeRead" ELSE "idle"])

\* createTask, for an assignee, with this status asked for and this one given.
Create(p, t, asked, work, private, byOwner) ==
  /\ task[t].work = "NONE" /\ Of[t] \in Assigned
  /\ asked # "todo" => MayBegin
  /\ LET new == [NoTask EXCEPT !.work = work, !.private = private]
         review == ReviewAfter([new EXCEPT !.work = "todo"], work, byOwner)
     IN TaskChange(p, t, [new EXCEPT !.review = review], FALSE)

\* updateTask, updateTaskStatus; dated: with an actual completion date, which
\* completes the task after the gate; the gate does not ask of a standalone one.
Update(p, t, work, private, byOwner, dated) ==
  /\ task[t].work # "NONE" /\ (dated => work = "done")
  /\ work \in {"todo", task[t].work} \/ dated \/ private \/ MayBegin
  /\ LET review == ReviewAfter(task[t], work, byOwner)
     IN TaskChange(p, t, [work |-> work, review |-> review, private |-> private],
                   review = "APPROVED" /\ ~Complete(task[t]))

\* The write, and the read of the assignment whose progress follows it.
Written(p, row) ==
  /\ WriteTask(arg[p].t, row)
  /\ Goto(p, "asgWrite", [NothingSeen EXCEPT
       !.status = IF Of[arg[p].t] \in Assigned THEN asg[Of[arg[p].t]] ELSE @,
       !.progress = Moving(task', {t \in Tasks : Of[t] = Of[arg[p].t]}),
       !.moving = Moving(task', Tasks)])
TaskWrite(p) == pc[p] = "taskWrite" /\ Written(p, arg[p].row)

\* deleteTask
Delete(p, t) == task[t].work # "NONE" /\ Begin(p, "deleteWrite", [NoArg EXCEPT !.t = t])
DeleteWrite(p) == pc[p] = "deleteWrite" /\ Written(p, NoTask)

\* recalculateProgress: these statuses it writes again as it read them.
AsgWrite(p) ==
  LET e == Of[arg[p].t]
  IN /\ pc[p] = "asgWrite"
     /\ asg' = IF e \in Assigned THEN [asg EXCEPT ![e] = seen[p].status] ELSE asg
     /\ ahead' = IF seen[p].progress THEN ahead \cup ({e} \cap Assigned) ELSE ahead \ {e}
     /\ UNCHANGED <<started, goal, progress, task>>
     /\ Goto(p, "goalWrite", [NothingSeen EXCEPT !.status = goal, !.progress = seen[p].moving])

-----------------------------------------------------------------------------
(* The review of a task.                                                   *)

Reviewable(t) == t \in Reviewed /\ goal # "PENDING_APPROVAL" /\ Complete(task[t])

ReviewTask(p, t, review) ==
  /\ pc[p] = "idle" /\ WriteTask(t, [task[t] EXCEPT !.review = review])
  /\ IF review = "APPROVED" THEN Goto(p, "completeRead", NothingSeen) ELSE Finish(p)

\* submitTaskForReview; approveTaskReview; rejectTaskReview
SubmitTask(p, t) ==
  Reviewable(t) /\ task[t].review = "NONE" /\ ReviewTask(p, t, "SUBMITTED")
ApproveTask(p, t) == Reviewable(t) /\ task[t].review # "APPROVED" /\ ReviewTask(p, t, "APPROVED")
RejectTask(p, t) == Reviewable(t) /\ task[t].review = "SUBMITTED" /\ ReviewTask(p, t, "NONE")

\* (mutant) An assignee without a task is never finished.
FinishedWithWork == {e \in Assigned : TasksOf(e) \cap Reviewed # {} /\ ApprovedAll(TasksOf(e) \cap Reviewed)}
\* Those whose tasks are all approved; without a task, when all tasks are.
Finished ==
  {e \in Assigned : LET own == TasksOf(e) \cap Reviewed
                    IN ApprovedAll(IF own # {} THEN own ELSE Reviewed)}

\* completeGoalIfAllApproved
CompleteRead(p) ==
  /\ pc[p] = "completeRead"
  /\ IF goal \in {"PENDING_APPROVAL", "COMPLETED"} \/ Reviewed = {} THEN Finish(p)
     ELSE /\ pc' = [pc EXCEPT ![p] = "completeWrite"]
          /\ arg' = [arg EXCEPT ![p] = [NoArg EXCEPT !.who = Finished, !.to = "COMPLETED"]]
          /\ seen' = [seen EXCEPT ![p].all = ApprovedAll(Reviewed)]
  /\ UNCHANGED rows

Completes(p, table) == seen[p].all /\ RollUp(table) = "COMPLETED"
CompleteWrite(p) ==
  /\ pc[p] = "completeWrite" /\ WriteAssignments(arg[p].who, "COMPLETED", TRUE)
  /\ IF Completes(p, asg')
     THEN Goto(p, "goalWrite", [NothingSeen EXCEPT !.status = "COMPLETED", !.progress = TRUE])
     ELSE Finish(p)

-----------------------------------------------------------------------------
Workflow(p) ==
  \/ Activate(p) \/ SubmitForFirst(p)
  \/ \E e \in Emps : Submit(p, e) \/ Resubmit(p, e) \/ Add(p, e)
  \/ \E approve \in BOOLEAN : ManagerReview(p, approve) \/ HrReview(p, approve)
  \/ ActivateWrite(p) \/ WorkflowWrite(p) \/ GoalWrite(p) \/ AddWrite(p)

TaskWork(p) ==
  \/ \E t \in Tasks, work \in Asked, private \in Private, byOwner \in BOOLEAN :
       \/ Create(p, t, work, work, private, byOwner)
       \/ \E dated \in BOOLEAN : Update(p, t, work, private, byOwner, dated)
  \/ \E t \in Tasks : Delete(p, t) \/ SubmitTask(p, t) \/ ApproveTask(p, t) \/ RejectTask(p, t)
  \/ TaskWrite(p) \/ DeleteWrite(p) \/ AsgWrite(p) \/ CompleteRead(p) \/ CompleteWrite(p)

Next == \E p \in Procs : Workflow(p) \/ TaskWork(p)
Spec == Init /\ [][Next]_vars

-----------------------------------------------------------------------------
(* What the workflow and the reviews owe each other.                       *)

Quiet == \A p \in Procs : pc[p] = "idle"

\* One request at a time, a goal is COMPLETED only when the assignment of each
\* of its employees is: the roll-up of the workflow and the completion by the
\* last approved task agree on it, whatever else changes the goal's row
\* (rollUpGoalStatus, completeGoalIfAllApproved, recalculateProgress).
CompletedTogether ==
  Quiet /\ goal = "COMPLETED" => \A e \in Assigned : asg[e] = "COMPLETED"

\* One request at a time, an approval that leaves every reviewed task of an
\* activated goal APPROVED does not end before the goal is COMPLETED, with
\* assignees who have no task of their own among the assigned
\* (completeGoalIfAllApproved).  "Once every task on a goal is APPROVED, the
\* goal ... moves to COMPLETED by itself" promises more: a task created done by
\* the owner, and the deletion of the last task not approved, call nothing that
\* would complete the goal.
ApprovalCompletes ==
  [][\A p \in Procs :
       /\ pc[p] \in {"completeRead", "completeWrite"} /\ pc'[p] = "idle"
       /\ Reviewed # {} /\ ApprovedAll(Reviewed)
       => goal \in {"COMPLETED", "PENDING_APPROVAL"}]_vars

\* A goal is submitted for sign-off, or signed off, only after it was approved:
\* resubmitGoal sends a goal declined before any work back to the proposal
\* "rather than skipping past it" (goal.service.js).
SignedOffWasApproved ==
  (\E e \in Emps : asg[e] \in {"PENDING_MANAGER_REVIEW", "COMPLETED"}) => started
=============================================================================
