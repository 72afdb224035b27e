---------------------------- MODULE GoalWeights ----------------------------
(***************************************************************************)
(* The weights of the tasks of one goal (goalWeight.service.js and the     *)
(* handlers of task.controller.js that call it), which may not weigh more  *)
(* than 100 in total.  Whether work has started is left to GoalWorkflow.   *)
(*                                                                         *)
(* A write that changes a weight runs in a serializable transaction that   *)
(* sums the goal again (withWeightGuard); every other write is one         *)
(* statement, after reads that no transaction ties to it.                  *)
(***************************************************************************)
EXTENDS Integers

CONSTANTS
  Procs,    \* HTTP requests in flight
  Tasks,    \* rows of the tasks that are or may come to be of this goal
  Weights,  \* what a task may weigh
  Limit,    \* REQUIRED_TOTAL
  Exempt,   \* goals.weightLockExempt, which a migration set on old goals
  Retries,  \* of a transaction that lost (3 in the code)
  Sum(_)    \* the sum of a function from Tasks to weights

Weight == Weights \cup {0}

ASSUME GoalWeightsConstants ==
  /\ Tasks # {} /\ Weights \subseteq Nat \ {0} /\ Limit \in Nat /\ Exempt \in BOOLEAN /\ Retries \in Nat
ASSUME SumIsNumber == \A f \in [Tasks -> Weight] : Sum(f) \in Nat
ASSUME SumOfNothing == Sum([t \in Tasks |-> 0]) = 0
ASSUME SumIsMonotone ==
  \A f, g \in [Tasks -> Weight] : (\A t \in Tasks : f[t] <= g[t]) => Sum(f) <= Sum(g)

VARIABLES
  task,       \* what the goal's total knows of each task
  unguarded,  \* history: a plain write has added weight to the goal
  pc, arg, seen, lost, attempt  \* requests: stage, write, what was read, conflicts

rows == <<task, unguarded>>
vars == <<rows, pc, arg, seen, lost, attempt>>

\* outside: of another goal or of none; uncounted: private or standalone.
Place == {"outside", "counted", "uncounted"}
Task == [at : Place, weight : Weight]
\* put: whatever row is there; set: in the goal still; show: without a weight.
Op == {"none", "put", "set", "show"}
Arg == [op : Op, t : Tasks, new : Task]

Row(at, w) == [at |-> at, weight |-> w]
Outside == Row("outside", 0)
NoArg == [op |-> "none", t |-> CHOOSE t \in Tasks : TRUE, new |-> Outside]

\* The state is of these types.
TypeOK ==
  /\ unguarded \in BOOLEAN /\ task \in [Tasks -> Task] /\ seen \in [Procs -> [Tasks -> Weight]]
  /\ pc \in [Procs -> {"idle", "plain", "begin", "commit"}]
  /\ arg \in [Procs -> Arg] /\ lost \in [Procs -> BOOLEAN] /\ attempt \in [Procs -> 0 .. Retries]

NothingSeen == [t \in Tasks |-> 0]

Init ==
  /\ unguarded = FALSE /\ task = [t \in Tasks |-> Outside]
  /\ pc = [p \in Procs |-> "idle"] /\ arg = [p \in Procs |-> NoArg]
  /\ seen = [p \in Procs |-> NothingSeen]
  /\ lost = [p \in Procs |-> FALSE] /\ attempt = [p \in Procs |-> 0]

-----------------------------------------------------------------------------
(* What the summary of the goal says.                                      *)

\* countsTowardsTotal
Counted(rs) == [t \in Tasks |-> IF rs[t].at = "counted" THEN rs[t].weight ELSE 0]
Total(rs) == Sum(Counted(rs))

\* assertWeightFits, for the row as it will be.
Fits(t, row) == Exempt \/ Total([task EXCEPT ![t] = row]) <= Limit

-----------------------------------------------------------------------------
(* Requests that have passed their checks.  stage: "plain" for one         *)
(* statement, "begin" for withWeightGuard.  A row is put into the goal by  *)
(* one request at a time: each creation makes a row of its own.            *)

Request(p, stage, op, t, new) ==
  /\ pc[p] = "idle"
  /\ op = "put" => \A q \in Procs : arg[q].op = "put" => arg[q].t # t
  /\ pc' = [pc EXCEPT ![p] = stage]
  /\ arg' = [arg EXCEPT ![p] = [op |-> op, t |-> t, new |-> new]]
  /\ UNCHANGED <<rows, seen, lost, attempt>>

\* createTask, private or with a weight (given, or what is left of the limit).
Create(p, t, new) ==
  /\ task[t].at = "outside" /\ new.at # "outside"
  /\ IF new.at = "counted" THEN new.weight > 0 /\ Fits(t, new) ELSE new.weight = 0
  /\ Request(p, "begin", "put", t, new)

\* updateTask with a weight, by a manager: guarded if it is not the weight read.
Weigh(p, t, w) ==
  /\ task[t].at # "outside" /\ Fits(t, Row("counted", w))
  /\ Request(p, IF w = task[t].weight THEN "plain" ELSE "begin", "set", t, Row("counted", w))

\* updateTask with another goalId, with or without a weight, which may be the
\* one the task had.
Move(p, t, w) ==
  /\ task[t].at = "outside"
  /\ \/ Request(p, "plain", "put", t, Row("counted", w))
     \/ Fits(t, Row("counted", w)) /\ Request(p, "begin", "put", t, Row("counted", w))

\* updateTask: private or standalone, and weightless; and back, as it is.
Hide(p, t) == task[t].at # "outside" /\ Request(p, "plain", "set", t, Row("uncounted", 0))
Unhide(p, t) == task[t].at = "uncounted" /\ Request(p, "plain", "show", t, Row("counted", 0))

\* deleteTask, or updateTask to another goal.
Remove(p, t) == task[t].at # "outside" /\ Request(p, "plain", "set", t, Outside)

-----------------------------------------------------------------------------
(* Statements.                                                             *)

\* The fields a write sets, on the row it finds.
Written(a, row) ==
  CASE a.op = "put" -> a.new
    [] a.op # "put" /\ row.at = "outside" -> row
    [] a.op = "show" /\ row.at # "outside" -> [row EXCEPT !.at = "counted"]
    [] OTHER -> a.new

After(rs, a) == [rs EXCEPT ![a.t] = Written(a, @)]

Done(p) ==
  /\ pc' = [pc EXCEPT ![p] = "idle"]
  /\ arg' = [arg EXCEPT ![p] = NoArg]
  /\ seen' = [seen EXCEPT ![p] = NothingSeen]
  /\ attempt' = [attempt EXCEPT ![p] = 0]

\* A statement outside the guard.  A transaction that writes the same row loses.
PlainWrite(p) ==
  /\ pc[p] = "plain"
  /\ task' = After(task, arg[p])
  /\ unguarded' = (unguarded \/ \E t \in Tasks : Counted(task')[t] > Counted(task)[t])
  /\ lost' = [q \in Procs |-> q # p /\ (lost[q] \/ (pc[q] = "commit" /\ arg[q].t = arg[p].t))]
  /\ Done(p)

\* The transaction takes its snapshot.
GuardBegin(p) ==
  /\ pc[p] = "begin"
  /\ pc' = [pc EXCEPT ![p] = "commit"]
  /\ seen' = [seen EXCEPT ![p] = Counted(task)]
  /\ UNCHANGED <<rows, arg, lost, attempt>>

\* The sum over the snapshot and the transaction's own write.
Accepted(p) == Exempt \/ Sum([seen[p] EXCEPT ![arg[p].t] = arg[p].new.weight]) <= Limit

\* (mutant) READ COMMITTED: nothing that another commit does is a conflict.
NoConflict(p) == lost
\* SERIALIZABLE: of two transactions that sum the goal and write to it, the
\* second to commit fails.
Conflict(p) == [q \in Procs |-> q # p /\ (lost[q] \/ pc[q] = "commit")]

\* The transaction ends: without its row, or over the limit, it fails.
Found(p) == arg[p].op = "put" \/ task[arg[p].t].at # "outside"
GuardCommit(p) ==
  /\ pc[p] = "commit" /\ ~lost[p]
  /\ IF Found(p) /\ Accepted(p) THEN task' = After(task, arg[p]) /\ lost' = Conflict(p)
     ELSE UNCHANGED <<task, lost>>
  /\ Done(p) /\ UNCHANGED unguarded

\* (mutant) The attempts are not counted.
AnotherTry(p) == attempt[p]
\* attempt += 1
NextTry(p) == attempt[p] + 1

\* P2034: tried again, Retries times.
GuardLost(p) ==
  /\ pc[p] = "commit" /\ lost[p]
  /\ lost' = [lost EXCEPT ![p] = FALSE]
  /\ IF attempt[p] < Retries
     THEN /\ pc' = [pc EXCEPT ![p] = "begin"]
          /\ attempt' = [attempt EXCEPT ![p] = NextTry(p)]
          /\ UNCHANGED <<arg, seen>>
     ELSE Done(p)
  /\ UNCHANGED rows

-----------------------------------------------------------------------------
Ask(p) == \E t \in Tasks :
  \/ \E w \in Weight : Create(p, t, Row("counted", w)) \/ Create(p, t, Row("uncounted", w))
  \/ \E w \in Weights : Weigh(p, t, w) \/ Move(p, t, w)
  \/ Hide(p, t) \/ Unhide(p, t) \/ Remove(p, t)

Answer(p) == PlainWrite(p) \/ GuardBegin(p) \/ GuardCommit(p) \/ GuardLost(p)

Next == \E p \in Procs : Ask(p) \/ Answer(p)

\* A request that was let in goes on: the event loop resumes every promise
\* that is settled, and the database answers every statement.
Spec == Init /\ [][Next]_vars /\ \A p \in Procs : WF_vars(Answer(p))

-----------------------------------------------------------------------------
(* Properties.                                                             *)

\* However requests overlap, only a plain write that adds weight takes a goal
\* over 100: withWeightGuard, whose transactions never commit together what
\* they would not commit one after the other.
OverOnlyUnguarded == Exempt \/ unguarded \/ Total(task) <= Limit

\* A guarded write ends, be it with an error, however many others change the
\* goal meanwhile (withWeightGuard: retries).
GuardedWriteEnds == \A p \in Procs : pc[p] = "begin" ~> pc[p] = "idle"
=============================================================================
