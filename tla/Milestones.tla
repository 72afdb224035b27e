----------------------------- MODULE Milestones -----------------------------
(***************************************************************************)
(* The milestones of critical tasks (taskMilestone.controller.js,          *)
(* milestoneGate.js), composed with the workflow of their goal: the task   *)
(* waits for the approval of its milestones and then follows them, and     *)
(* with the last of them is done, reviewed and may complete the goal.  A   *)
(* milestone is read and written in one step; the task that follows it is  *)
(* written by statements of its own.                                       *)
(***************************************************************************)
EXTENDS GoalWorkflow

CONSTANTS
  Milestones,       \* the milestones there are or may be
  On,               \* the task of each
  Tracked,          \* the tasks created with isMilestoneTracked
  RequireApproval,  \* TenantSettings.milestoneRequireApproval
  Fields            \* bound: fields that one update of a milestone carries

ASSUME MilestoneConstants ==
  /\ On \in [Milestones -> Tasks] /\ Tracked \subseteq Tasks
  /\ RequireApproval \in BOOLEAN /\ Fields \in Nat

VARIABLES
  ms,    \* the milestones
  turn,  \* requests: their stage, while it is not one of the task's own
  form   \* requests: what they write to milestones

mvars == <<vars, ms, turn, form>>

\* Of the progress, whether it is 0, below 100, or 100.
Milestone == [status : {"NONE", "PENDING_APPROVAL", "APPROVED", "RESCHEDULE_REQUESTED", "DONE"},
              isDone : BOOLEAN, progress : 0..2, proposed : BOOLEAN, approved : BOOLEAN]
NoMilestone == [status |-> "NONE", isDone |-> FALSE, progress |-> 0,
                proposed |-> FALSE, approved |-> FALSE]
NewMilestone == [NoMilestone EXCEPT !.status = "PENDING_APPROVAL"]

\* for: the milestones concerned; pct: the progress they are created with;
\* work: there is work for the task to follow; byOwner: by the owner of the goal.
Form == [for : SUBSET Milestones, pct : 0..2, byOwner : BOOLEAN, work : BOOLEAN]
NoForm == [for |-> {}, pct |-> 0, byOwner |-> FALSE, work |-> FALSE]
Turn == {"own", "unlock", "sync", "wait"}

\* The state is of these types.
MTypeOK ==
  /\ TypeOK /\ ms \in [Milestones -> Milestone]
  /\ turn \in [Procs -> Turn] /\ form \in [Procs -> Form]

MInit ==
  /\ Init /\ ms = [m \in Milestones |-> NoMilestone]
  /\ turn = [p \in Procs |-> "own"] /\ form = [p \in Procs |-> NoForm]

-----------------------------------------------------------------------------
(* What the handlers ask of a milestone.                                   *)

MilestonesOf(t) == {m \in Milestones : On[m] = t /\ ms[m].status # "NONE"}
Settled(m) == ms[m].status \in {"APPROVED", "DONE"}

\* (mutant) A milestone to be rescheduled counts as approved.
ApprovedOnce(row) == row.status # "PENDING_APPROVAL" \/ row.approved
\* isMilestoneApproved
MilestoneApproved(row) == row.status \in {"APPROVED", "DONE"} \/ row.approved

\* (mutant) Progress is enough.
AllWorked(t) == \A m \in MilestonesOf(t) : ms[m].progress = 2
\* assertTaskMilestonesComplete
MilestonesComplete(t) ==
  /\ t \in Tracked => MilestonesOf(t) # {}
  /\ \A m \in MilestonesOf(t) : ms[m].isDone /\ ms[m].status = "DONE" /\ ms[m].progress = 2

\* milestoneBlock, without the weights
ApproveBlock == goal = "PENDING_APPROVAL"
WorkBlock(row) == goal = "PENDING_APPROVAL" \/ (RequireApproval /\ ~MilestoneApproved(row))

-----------------------------------------------------------------------------
(* updateMilestone: what the fields of the request make of the row.        *)

Option == {"absent", "yes", "no"}
Request == [progress : 0..3, extend : BOOLEAN, propose : Option, approve : Option, done : Option]
Absent == 3  \* no progress in the request
Carried(r) == Cardinality({f \in {"propose", "approve", "done"} : r[f] # "absent"})
              + (IF r.progress # Absent THEN 1 ELSE 0) + (IF r.extend THEN 1 ELSE 0)
Requests == {r \in Request : Carried(r) \in 1..Fields}

RecordsWork(r, row) ==
  r.progress \notin {Absent, row.progress} \/ r.done = (IF row.isDone THEN "no" ELSE "yes")
Undecided(row) == row.status \in {"PENDING_APPROVAL", "RESCHEDULE_REQUESTED"}

Accepts(r, row) ==
  /\ r.approve = "yes" => ~ApproveBlock
  /\ RecordsWork(r, row) =>
       ~WorkBlock(IF r.approve = "yes" THEN [row EXCEPT !.status = "APPROVED"] ELSE row)
  /\ r.propose # "absent" \/ r.approve # "absent" => Undecided(row)
  /\ r.done = "yes" => IF RequireApproval THEN row.status = "APPROVED" ELSE row.status # "DONE"
  /\ r.done = "no" => row.status = "DONE"

\* Each field writes over what the ones before it wrote; all look at the row as read.
WithProgress(r, row, new) ==
  CASE r.progress = Absent -> new
    [] r.progress = 2 /\ ~row.isDone -> [new EXCEPT !.progress = 2, !.isDone = TRUE, !.status = "DONE"]
    [] r.progress < 2 /\ row.isDone ->
         [new EXCEPT !.progress = r.progress, !.isDone = FALSE,
                     !.status = CASE row.approved -> "APPROVED"
                                  [] row.proposed /\ ~row.approved -> "RESCHEDULE_REQUESTED"
                                  [] OTHER -> "PENDING_APPROVAL"]
    [] OTHER -> [new EXCEPT !.progress = r.progress]
WithDates(r, new) ==
  LET extended == IF r.extend THEN [new EXCEPT !.proposed = TRUE, !.status = "RESCHEDULE_REQUESTED"]
                  ELSE new
  IN IF r.propose = "absent" THEN extended ELSE [extended EXCEPT !.proposed = r.propose = "yes"]
WithDecision(r, row, new) ==
  CASE r.approve = "yes" -> [new EXCEPT !.status = "APPROVED", !.approved = TRUE, !.proposed = FALSE]
    [] r.approve = "no" -> [new EXCEPT !.status = IF row.approved THEN "APPROVED" ELSE "PENDING_APPROVAL",
                                       !.proposed = FALSE]
    [] OTHER -> new
\* (mutant) A milestone is completed, as goals are.
TickCompletes(r, new) == [new EXCEPT !.status = IF r.done = "yes" THEN "COMPLETED" ELSE @]
WithTick(r, new) ==
  CASE r.done = "yes" -> [new EXCEPT !.isDone = TRUE, !.status = "DONE", !.progress = 2]
    [] r.done = "no" -> [new EXCEPT !.isDone = FALSE, !.status = "APPROVED", !.progress = 0]
    [] OTHER -> new
Updated(r, row) == WithTick(r, WithDecision(r, row, WithDates(r, WithProgress(r, row, row))))

-----------------------------------------------------------------------------
(* The requests about milestones, and what follows them.                   *)

Turned(p, stage, f) ==
  /\ turn' = [turn EXCEPT ![p] = stage]
  /\ form' = [form EXCEPT ![p] = f]

Free(p) == pc[p] = "idle" /\ turn[p] = "own"

\* What follows the write of a milestone: unlocking the task, following the work on it
After(p, m, settles, worked, byOwner) ==
  IF settles \/ worked
  THEN Turned(p, IF settles THEN "unlock" ELSE "sync", [for |-> {m}, pct |-> 0, byOwner |-> byOwner, work |-> worked])
  ELSE UNCHANGED <<turn, form>>

\* updateMilestone
UpdateMilestone(p, m, r, byOwner) ==
  /\ Free(p) /\ ms[m].status # "NONE" /\ Accepts(r, ms[m])
  /\ ms' = [ms EXCEPT ![m] = Updated(r, @)]
  /\ After(p, m, Settled(m)', r.progress # Absent \/ r.done # "absent", byOwner)
  /\ UNCHANGED vars

TaskOf(p) == On[CHOOSE m \in form[p].for : TRUE]
\* maybeUnlockTask
Unlock(p) ==
  LET t == TaskOf(p)
      unlocks == /\ task[t].work = "pending_approval"
                 /\ MilestonesOf(t) # {} /\ \A m \in MilestonesOf(t) : Settled(m)
  IN /\ turn[p] = "unlock"
     /\ WriteTask(t, IF unlocks THEN [task[t] EXCEPT !.work = "todo"] ELSE task[t])
     /\ IF form[p].work THEN Turned(p, "sync", form[p]) ELSE Turned(p, "own", NoForm)
     /\ UNCHANGED <<pc, arg, seen, ms>>

Worked(m) == ms[m].progress > 0 \/ ms[m].status = "DONE"
\* syncTaskFromMilestones: the status of the task that its milestones ask for
Following(t) ==
  CASE \A m \in MilestonesOf(t) : ms[m].status = "DONE" -> "done"
    [] /\ \E m \in MilestonesOf(t) : ms[m].status # "DONE"
       /\ \E m \in MilestonesOf(t) : Worked(m)
       /\ task[t].work \in {"todo", "pending_approval", "done"} -> "in_progress"
    [] OTHER -> task[t].work

\* syncTaskFromMilestones: the write to the task, its progress and the
\* completion of the goal are those of any other change of a task.
Sync(p) ==
  LET t == TaskOf(p)
      follows == task[t].work # "NONE" /\ MilestonesOf(t) # {} /\ Following(t) # task[t].work
      review == ReviewAfter(task[t], Following(t), form[p].byOwner)
  IN /\ turn[p] = "sync" /\ Turned(p, "own", NoForm)
     /\ IF follows
        THEN TaskChange(p, t, [task[t] EXCEPT !.work = Following(t), !.review = review],
                        review = "APPROVED" /\ ~Complete(task[t]))
        ELSE UNCHANGED vars
     /\ UNCHANGED ms

\* createMilestone; row: with progress, if the gate lets it.
CreateMilestone(p, m, pct) ==
  /\ Free(p) /\ ms[m].status = "NONE" /\ task[On[m]].work # "NONE"
  /\ pct > 0 => ~WorkBlock(NewMilestone)
  /\ ms' = [ms EXCEPT ![m] = [NewMilestone EXCEPT !.progress = pct]]
  /\ IF On[m] \in Tracked /\ task[On[m]].work = "todo"
     THEN Turned(p, "wait", [NoForm EXCEPT !.for = {m}]) ELSE UNCHANGED <<turn, form>>
  /\ UNCHANGED vars
Wait(p) ==
  /\ turn[p] = "wait" /\ WriteTask(TaskOf(p), [task[TaskOf(p)] EXCEPT !.work = "pending_approval"])
  /\ Turned(p, "own", NoForm) /\ UNCHANGED <<pc, arg, seen, ms>>

\* deleteMilestone
DeleteMilestone(p, m) ==
  /\ Free(p) /\ ms[m].status # "NONE" /\ ms' = [ms EXCEPT ![m] = NoMilestone]
  /\ UNCHANGED <<vars, turn, form>>

-----------------------------------------------------------------------------
(* The requests about tasks.                                               *)

\* createTask with its milestones, that wait for approval unless the task is under way
CreateTracked(p, t, asked, private, byOwner, drafts, pct) ==
  /\ Free(p) /\ t \in Tracked /\ asked # "done" /\ \A m \in drafts : On[m] = t
  /\ pct > 0 => drafts # {} /\ ~WorkBlock(NewMilestone)
  /\ Create(p, t, asked, IF drafts # {} /\ asked = "todo" THEN "pending_approval" ELSE asked,
            private, byOwner)
  /\ form' = [form EXCEPT ![p] = [NoForm EXCEPT !.for = drafts, !.pct = pct]]
  /\ UNCHANGED <<ms, turn>>

\* The transaction that creates a task with its milestones, and every other write to a task
TaskAndMilestones(p) ==
  /\ TaskWrite(p)
  /\ ms' = [m \in Milestones |->
              IF m \in form[p].for THEN [NewMilestone EXCEPT !.progress = form[p].pct] ELSE ms[m]]
  /\ Turned(p, "own", NoForm)

\* A deleted task takes its milestones with it.
DeleteCascades(p) ==
  /\ DeleteWrite(p) /\ ms' = [m \in Milestones |-> IF On[m] = arg[p].t THEN NoMilestone ELSE ms[m]]
  /\ UNCHANGED <<turn, form>>

\* The guard of updateTask and updateTaskStatus
Guarded(t, work) == work = "done" => MilestonesComplete(t)

TasksWithMilestones(p) ==
  \/ \E t \in Tasks, asked \in Asked, private \in Private, byOwner \in BOOLEAN :
       \/ \E drafts \in SUBSET Milestones, pct \in 0..2 :
            CreateTracked(p, t, asked, private, byOwner, drafts, pct)
       \/ /\ Free(p) /\ UNCHANGED <<ms, turn, form>>
          /\ \/ t \notin Tracked /\ Create(p, t, asked, asked, private, byOwner)
             \/ \E dated \in BOOLEAN :
                  Guarded(t, asked) /\ Update(p, t, asked, private, byOwner, dated)
  \/ TaskAndMilestones(p) \/ DeleteCascades(p)

\* The requests and statements of the goal and of reviews, as they are.
Elsewhere(p) ==
  /\ turn[p] = "own" /\ UNCHANGED <<ms, turn, form>>
  /\ \/ Workflow(p) \/ AsgWrite(p) \/ CompleteRead(p) \/ CompleteWrite(p)
     \/ \E t \in Tasks : Delete(p, t) \/ SubmitTask(p, t) \/ ApproveTask(p, t) \/ RejectTask(p, t)

MilestoneWork(p) ==
  \/ \E m \in Milestones :
       \/ DeleteMilestone(p, m) \/ \E pct \in 0..2 : CreateMilestone(p, m, pct)
       \/ \E r \in Requests, byOwner \in BOOLEAN : UpdateMilestone(p, m, r, byOwner)
  \/ Unlock(p) \/ Sync(p) \/ Wait(p)

MNext == \E p \in Procs : Elsewhere(p) \/ TasksWithMilestones(p) \/ MilestoneWork(p)
MSpec == MInit /\ [][MNext]_mvars

-----------------------------------------------------------------------------
\* Where the company requires approval, no milestone carries progress that a
\* manager has not approved it for, however it was created, extended, reopened
\* or approved and worked in one request (milestoneGate.js).
ProgressNeedsApproval ==
  \A m \in Milestones : RequireApproval /\ ms[m].progress > 0 => ms[m].approved

\* One request at a time, a task becomes done only when each of its milestones
\* is, whether by its own update, by a completion date or by following them
\* (assertTaskMilestonesComplete, syncTaskFromMilestones).
DoneWithMilestones ==
  [][\A t \in Tasks : Complete(task[t])' /\ ~Complete(task[t])
       => \A m \in MilestonesOf(t) : ms[m].status = "DONE"]_mvars
=============================================================================
