------------------------- MODULE GoalWeightsProofs -------------------------
(***************************************************************************)
(* Theorems about GoalWeights, for every number of requests, tasks,        *)
(* weights and retries and every interleaving: the types, and that only    *)
(* an unguarded write takes a goal over its limit.                         *)
(***************************************************************************)
EXTENDS GoalWeights, TLAPS

-----------------------------------------------------------------------------
(* Types.                                                                  *)

\* Weights are numbers that can be compared.
LEMMA WeightNat == \A w \in Weight : w \in Nat
BY GoalWeightsConstants DEF Weight

\* What the total knows of a row is a weight (countsTowardsTotal).
LEMMA CountedType ==
  ASSUME NEW rs \in [Tasks -> Task]
  PROVE  /\ Counted(rs) \in [Tasks -> Weight]
         /\ \A t \in Tasks : Counted(rs)[t] = IF rs[t].at = "counted" THEN rs[t].weight ELSE 0
BY DEF Counted, Task, Weight

\* A row that has a place and a weight is a task.
LEMMA RowType ==
  ASSUME NEW at \in Place, NEW w \in Weight
  PROVE  Row(at, w) \in Task /\ Row(at, w).at = at /\ Row(at, w).weight = w
BY DEF Row, Task

\* A request that asks for nothing is of the type of requests.
LEMMA NoArgType == NoArg \in Arg /\ NoArg.op = "none"
<1>1. \E t \in Tasks : TRUE
  BY GoalWeightsConstants
<1>2. (CHOOSE t \in Tasks : TRUE) \in Tasks
  BY <1>1
<1>3. Outside \in Task
  BY RowType DEF Outside, Place, Weight
<1>. QED  BY <1>2, <1>3 DEF NoArg, Arg, Op

\* A write leaves a task where it was a task (runUpdate).
LEMMA AfterType ==
  ASSUME NEW rs \in [Tasks -> Task], NEW a \in Arg
  PROVE  After(rs, a) \in [Tasks -> Task]
<1>1. a.t \in Tasks /\ a.new \in Task
  BY DEF Arg
<1>2. rs[a.t] \in Task
  BY <1>1
<1>3. [rs[a.t] EXCEPT !.at = "counted"] \in Task
  BY <1>2 DEF Task, Place
<1>4. Written(a, rs[a.t]) \in Task
  BY <1>1, <1>2, <1>3 DEF Written
<1>. QED  BY <1>1, <1>4 DEF After

\* A request that is let in keeps the types.
LEMMA RequestKeepsTypes ==
  ASSUME TypeOK, NEW p \in Procs, NEW stage \in {"plain", "begin"}, NEW op \in Op, NEW t \in Tasks,
         NEW new \in Task, Request(p, stage, op, t, new)
  PROVE  TypeOK'
<1>1. [op |-> op, t |-> t, new |-> new] \in Arg
  BY DEF Arg
<1>. QED  BY <1>1 DEF TypeOK, Request, rows

\* What a request that begins may be: its stage, its write, and the rest as it was.
Begins(p) ==
  \E stage \in {"plain", "begin"}, op \in Op, t \in Tasks, new \in Task :
    /\ stage = "begin" => op # "show"
    /\ Request(p, stage, op, t, new)

\* Every request that is let in is one of these (createTask, updateTask, deleteTask).
LEMMA AskBegins ==
  ASSUME NEW p \in Procs, Ask(p), TypeOK
  PROVE  Begins(p)
<1>. USE DEF Begins
<1>1. PICK t \in Tasks :
        \/ \E w \in Weight : Create(p, t, Row("counted", w)) \/ Create(p, t, Row("uncounted", w))
        \/ \E w \in Weights : Weigh(p, t, w) \/ Move(p, t, w)
        \/ Hide(p, t) \/ Unhide(p, t) \/ Remove(p, t)
  BY DEF Ask
<1>2. \A at \in Place, w \in Weight : Row(at, w) \in Task
  BY RowType
<1>3. {"counted", "uncounted", "outside"} \subseteq Place /\ 0 \in Weight /\ Weights \subseteq Weight
  BY DEF Place, Weight
<1>4. {"put", "set", "show"} \subseteq Op
  BY DEF Op
<1>5. CASE \E w \in Weight : Create(p, t, Row("counted", w)) \/ Create(p, t, Row("uncounted", w))
  BY <1>2, <1>3, <1>4, <1>5 DEF Create
<1>6. CASE \E w \in Weights : Weigh(p, t, w) \/ Move(p, t, w)
  <2>1. PICK w \in Weights : Weigh(p, t, w) \/ Move(p, t, w)
    BY <1>6
  <2>2. Row("counted", w) \in Task
    BY <1>2, <1>3
  <2>3. CASE Weigh(p, t, w)
    BY <2>2, <2>3, <1>4 DEF Weigh
  <2>4. CASE Move(p, t, w)
    BY <2>2, <2>4, <1>4 DEF Move
  <2>. QED  BY <2>1, <2>3, <2>4
<1>7. CASE Hide(p, t)
  BY <1>2, <1>3, <1>4, <1>7 DEF Hide
<1>8. CASE Unhide(p, t)
  BY <1>2, <1>3, <1>4, <1>8 DEF Unhide
<1>9. CASE Remove(p, t)
  BY <1>2, <1>3, <1>4, <1>9 DEF Remove, Outside
<1>. QED  BY <1>1, <1>5, <1>6, <1>7, <1>8, <1>9

\* A request that is answered leaves types as they are.
LEMMA DoneKeepsTypes ==
  ASSUME TypeOK, NEW p \in Procs, Done(p)
  PROVE  /\ pc' \in [Procs -> {"idle", "plain", "begin", "commit"}] /\ arg' \in [Procs -> Arg]
         /\ seen' \in [Procs -> [Tasks -> Weight]] /\ attempt' \in [Procs -> 0 .. Retries]
<1>1. NothingSeen \in [Tasks -> Weight]
  BY DEF NothingSeen, Weight
<1>2. 0 \in 0 .. Retries
  BY GoalWeightsConstants
<1>. QED  BY <1>1, <1>2, NoArgType DEF TypeOK, Done

\* The types hold at first and are kept by every step.
LEMMA TypesInit == Init => TypeOK
<1>. SUFFICES ASSUME Init PROVE TypeOK
  OBVIOUS
<1>1. Outside \in Task
  BY RowType DEF Outside, Place, Weight
<1>2. NothingSeen \in [Tasks -> Weight]
  BY DEF NothingSeen, Weight
<1>3. 0 \in 0 .. Retries
  BY GoalWeightsConstants
<1>. QED  BY <1>1, <1>2, <1>3, NoArgType DEF Init, TypeOK

LEMMA TypesStep == TypeOK /\ [Next]_vars => TypeOK'
<1>. SUFFICES ASSUME TypeOK, [Next]_vars PROVE TypeOK'
  OBVIOUS
<1>1. CASE UNCHANGED vars
  BY <1>1 DEF TypeOK, vars, rows
<1>2. ASSUME NEW p \in Procs, Ask(p) PROVE TypeOK'
  BY <1>2, AskBegins, RequestKeepsTypes DEF Begins
<1>3. ASSUME NEW p \in Procs, PlainWrite(p) PROVE TypeOK'
  <2>1. task' \in [Tasks -> Task]
    BY <1>3, AfterType DEF TypeOK, PlainWrite
  <2>2. lost' \in [Procs -> BOOLEAN]
    BY <1>3 DEF TypeOK, PlainWrite
  <2>3. unguarded' \in BOOLEAN
    BY <1>3 DEF TypeOK, PlainWrite
  <2>4. Done(p)
    BY <1>3 DEF PlainWrite
  <2>. QED  BY <2>1, <2>2, <2>3, <2>4, DoneKeepsTypes DEF TypeOK
<1>4. ASSUME NEW p \in Procs, GuardBegin(p) PROVE TypeOK'
  <2>1. Counted(task) \in [Tasks -> Weight]
    BY CountedType DEF TypeOK
  <2>. QED  BY <2>1, <1>4 DEF TypeOK, GuardBegin, rows
<1>5. ASSUME NEW p \in Procs, GuardCommit(p) PROVE TypeOK'
  <2>1. task' \in [Tasks -> Task]
    BY <1>5, AfterType DEF TypeOK, GuardCommit
  <2>2. lost' \in [Procs -> BOOLEAN]
    BY <1>5 DEF TypeOK, GuardCommit, Conflict
  <2>3. unguarded' \in BOOLEAN
    BY <1>5 DEF TypeOK, GuardCommit
  <2>4. Done(p)
    BY <1>5 DEF GuardCommit
  <2>. QED  BY <2>1, <2>2, <2>3, <2>4, DoneKeepsTypes DEF TypeOK
<1>6. ASSUME NEW p \in Procs, GuardLost(p) PROVE TypeOK'
  <2>1. task' \in [Tasks -> Task] /\ unguarded' \in BOOLEAN /\ lost' \in [Procs -> BOOLEAN]
    BY <1>6 DEF TypeOK, GuardLost, rows
  <2>2. CASE attempt[p] < Retries
    <3>1. NextTry(p) \in 0 .. Retries
      BY <2>2, GoalWeightsConstants DEF TypeOK, NextTry
    <3>. QED  BY <3>1, <2>1, <2>2, <1>6 DEF TypeOK, GuardLost
  <2>3. CASE ~(attempt[p] < Retries)
    <3>1. Done(p)
      BY <2>3, <1>6 DEF GuardLost
    <3>. QED  BY <3>1, <2>1, DoneKeepsTypes DEF TypeOK
  <2>. QED  BY <2>2, <2>3
<1>. QED  BY <1>1, <1>2, <1>3, <1>4, <1>5, <1>6 DEF Next, Answer

\* Every reachable state is well typed, whatever overlaps.
THEOREM TypeCorrect == Spec => []TypeOK
BY TypesInit, TypesStep, PTL DEF Spec

-----------------------------------------------------------------------------
(* The limit.                                                              *)

\* As long as no plain write has added weight: a transaction that can still
\* commit has seen, of every task but its own, at least what it weighs now; and
\* what it writes is a row, not a field.
SnapshotHolds(p) ==
  ~lost[p] => \A t \in Tasks : t # arg[p].t => Counted(task)[t] <= seen[p][t]

WeightInv ==
  /\ TypeOK /\ OverOnlyUnguarded
  /\ \A p \in Procs : pc[p] \in {"begin", "commit"} => arg[p].op # "show"
  /\ ~unguarded => \A p \in Procs : pc[p] = "commit" => SnapshotHolds(p)

\* Tasks that weigh no more than before weigh no more together (goalWeightSummary).
LEMMA TotalFollows ==
  ASSUME NEW rs \in [Tasks -> Task], NEW f \in [Tasks -> Weight],
         \A t \in Tasks : Counted(rs)[t] <= f[t]
  PROVE  Total(rs) <= Sum(f)
<1>1. Counted(rs) \in [Tasks -> Weight]
  BY CountedType
<1>. QED  BY <1>1, SumIsMonotone DEF Total

\* A transaction that commits writes its own task only, and as it said.
LEMMA CommitWrites ==
  ASSUME TypeOK, NEW p \in Procs, Found(p), arg[p].op # "show"
  PROVE  LET new == After(task, arg[p]) IN
         /\ Counted(new)[arg[p].t] <= arg[p].new.weight
         /\ \A t \in Tasks : t # arg[p].t => Counted(new)[t] = Counted(task)[t]
<1>. DEFINE a == arg[p]
            new == After(task, a)
<1>1. a \in Arg /\ a.t \in Tasks /\ a.new \in Task /\ a.new.weight \in Weight
  BY DEF TypeOK, Arg, Task
<1>2. Written(a, task[a.t]) = a.new
  BY DEF Written, Found
<1>3. new = [task EXCEPT ![a.t] = a.new]
  BY <1>2 DEF After
<1>4. new \in [Tasks -> Task] /\ task \in [Tasks -> Task]
  BY <1>1, AfterType DEF TypeOK
<1>5. new[a.t] = a.new /\ \A t \in Tasks : t # a.t => new[t] = task[t]
  BY <1>1, <1>3, <1>4
<1>6. Counted(new)[a.t] = IF a.new.at = "counted" THEN a.new.weight ELSE 0
  BY <1>1, <1>4, <1>5, CountedType
<1>7. a.new.weight \in Nat
  BY <1>1, WeightNat
<1>8. Counted(new)[a.t] <= a.new.weight
  BY <1>6, <1>7
<1>9. \A t \in Tasks : t # a.t => Counted(new)[t] = Counted(task)[t]
  BY <1>4, <1>5, CountedType
<1>. QED  BY <1>8, <1>9

\* The invariant holds at first.
LEMMA WeightInit == Init => WeightInv
<1>. SUFFICES ASSUME Init PROVE WeightInv
  OBVIOUS
<1>1. TypeOK
  BY TypesInit
<1>2. \A t \in Tasks : Counted(task)[t] = 0
  BY <1>1, CountedType DEF Init, Outside, Row, TypeOK
<1>3. [t \in Tasks |-> 0] \in [Tasks -> Weight]
  BY DEF Weight
<1>4. Total(task) <= Sum([t \in Tasks |-> 0])
  <2>1. task \in [Tasks -> Task]
    BY <1>1 DEF TypeOK
  <2>2. \A t \in Tasks : Counted(task)[t] <= [u \in Tasks |-> 0][t]
    BY <1>2
  <2>. QED  BY <2>1, <2>2, <1>3, TotalFollows
<1>5. Total(task) \in Nat
  BY <1>1, CountedType, SumIsNumber DEF Total, TypeOK
<1>6. OverOnlyUnguarded
  BY <1>4, <1>5, SumOfNothing, GoalWeightsConstants DEF OverOnlyUnguarded
<1>. QED  BY <1>1, <1>6 DEF WeightInv, Init

\* So is what a task counts for.
LEMMA CountedNat ==
  ASSUME NEW rs \in [Tasks -> Task], NEW t \in Tasks
  PROVE  Counted(rs)[t] \in Nat
BY CountedType, WeightNat

\* Totals are numbers too.
LEMMA TotalNat ==
  ASSUME NEW rs \in [Tasks -> Task]
  PROVE  Total(rs) \in Nat
BY CountedType, SumIsNumber DEF Total

\* A plain write: either it is on record as adding weight, or the goal weighs no more.
LEMMA PlainKeepsWeight ==
  ASSUME WeightInv, TypeOK', NEW p \in Procs, PlainWrite(p)
  PROVE  WeightInv'
<1>1. task \in [Tasks -> Task] /\ task' \in [Tasks -> Task]
  BY DEF WeightInv, TypeOK
<1>2. ASSUME ~unguarded' PROVE ~unguarded /\ \A t \in Tasks : Counted(task')[t] <= Counted(task)[t]
  <2>1. ~unguarded /\ ~(\E t \in Tasks : Counted(task')[t] > Counted(task)[t])
    BY <1>2 DEF PlainWrite
  <2>2. \A t \in Tasks : Counted(task')[t] \in Nat /\ Counted(task)[t] \in Nat
    BY <1>1, CountedNat
  <2>. QED  BY <2>1, <2>2
<1>3. OverOnlyUnguarded'
  <2>. SUFFICES ASSUME ~Exempt, ~unguarded' PROVE Total(task') <= Limit
    BY DEF OverOnlyUnguarded, Total, Counted
  <2>1. ~unguarded /\ Total(task') <= Sum(Counted(task))
    BY <1>1, <1>2, CountedType, TotalFollows
  <2>2. Total(task) <= Limit
    BY <2>1 DEF WeightInv, OverOnlyUnguarded
  <2>. QED  BY <2>1, <2>2, <1>1, TotalNat, GoalWeightsConstants DEF Total
<1>4. (\A q \in Procs : pc[q] \in {"begin", "commit"} => arg[q].op # "show")'
  BY DEF WeightInv, TypeOK, PlainWrite, Done
<1>5. (~unguarded => \A q \in Procs : pc[q] = "commit" => SnapshotHolds(q))'
  <2>. SUFFICES ASSUME ~unguarded', NEW q \in Procs, pc'[q] = "commit", ~lost'[q],
                       NEW t \in Tasks, t # arg'[q].t
                PROVE  Counted(task')[t] <= seen'[q][t]
    BY DEF SnapshotHolds, Counted
  <2>1. q # p /\ pc[q] = "commit" /\ ~lost[q] /\ arg'[q] = arg[q] /\ seen'[q] = seen[q]
    BY DEF WeightInv, TypeOK, PlainWrite, Done
  <2>2. Counted(task)[t] <= seen[q][t]
    BY <2>1, <1>2 DEF WeightInv, SnapshotHolds
  <2>3. Counted(task')[t] <= Counted(task)[t]
    BY <1>2
  <2>4. Counted(task)[t] \in Nat /\ Counted(task')[t] \in Nat /\ seen[q][t] \in Nat
    BY <1>1, CountedNat, WeightNat DEF WeightInv, TypeOK
  <2>. QED  BY <2>1, <2>2, <2>3, <2>4
<1>. QED  BY <1>3, <1>4, <1>5 DEF WeightInv

\* A guarded commit: no more than it saw, and every other transaction loses.
LEMMA CommitKeepsWeight ==
  ASSUME WeightInv, TypeOK', NEW p \in Procs, GuardCommit(p)
  PROVE  WeightInv'
<1>1. task \in [Tasks -> Task] /\ task' \in [Tasks -> Task]
  BY DEF WeightInv, TypeOK
<1>2. pc[p] = "commit" /\ ~lost[p] /\ unguarded' = unguarded /\ Done(p) /\ arg[p].op # "show"
  BY DEF GuardCommit, WeightInv
<1>3. (\A q \in Procs : pc[q] \in {"begin", "commit"} => arg[q].op # "show")'
  BY <1>2 DEF WeightInv, TypeOK, Done
<1>4. \A q \in Procs : pc'[q] = "commit" =>
        q # p /\ pc[q] = "commit" /\ arg'[q] = arg[q] /\ seen'[q] = seen[q]
  BY <1>2 DEF WeightInv, TypeOK, Done
<1>5. CASE Found(p) /\ Accepted(p)
  <2>1. task' = After(task, arg[p]) /\ lost' = Conflict(p)
    BY <1>5 DEF GuardCommit
  <2>2. \A q \in Procs : pc'[q] = "commit" => lost'[q]
    BY <1>4, <2>1 DEF Conflict
  <2>3. OverOnlyUnguarded'
    <3>. DEFINE a == arg[p]
                f == [seen[p] EXCEPT ![a.t] = a.new.weight]
    <3>. SUFFICES ASSUME ~Exempt, ~unguarded PROVE Total(task') <= Limit
      BY <1>2 DEF OverOnlyUnguarded, Total, Counted
    <3>1. Sum(f) <= Limit
      BY <1>5 DEF Accepted
    <3>2. a.t \in Tasks /\ a.new.weight \in Weight /\ seen[p] \in [Tasks -> Weight]
      BY DEF WeightInv, TypeOK, Arg, Task
    <3>3. f \in [Tasks -> Weight]
      BY <3>2
    <3>4. /\ Counted(task')[a.t] <= a.new.weight
          /\ \A t \in Tasks : t # a.t => Counted(task')[t] = Counted(task)[t]
      BY <1>2, <1>5, <2>1, CommitWrites DEF WeightInv
    <3>5. \A t \in Tasks : t # a.t => Counted(task)[t] <= seen[p][t]
      BY <1>2 DEF WeightInv, SnapshotHolds
    <3>6. \A t \in Tasks : Counted(task')[t] <= f[t]
      BY <3>2, <3>4, <3>5
    <3>7. Total(task') <= Sum(f)
      BY <1>1, <3>3, <3>6, TotalFollows
    <3>8. Sum(f) \in Nat
      BY <3>3, SumIsNumber
    <3>. QED  BY <3>1, <3>7, <3>8, <1>1, TotalNat, GoalWeightsConstants
  <2>. QED  BY <1>3, <2>2, <2>3 DEF WeightInv, SnapshotHolds
<1>6. CASE ~(Found(p) /\ Accepted(p))
  <2>1. task' = task /\ lost' = lost
    BY <1>6 DEF GuardCommit
  <2>2. OverOnlyUnguarded'
    BY <2>1, <1>2 DEF WeightInv, OverOnlyUnguarded, Total, Counted
  <2>3. (~unguarded => \A q \in Procs : pc[q] = "commit" => SnapshotHolds(q))'
    BY <2>1, <1>2, <1>4 DEF WeightInv, SnapshotHolds, Counted
  <2>. QED  BY <1>3, <2>2, <2>3 DEF WeightInv
<1>. QED  BY <1>5, <1>6

\* Steps that write no task: a snapshot is taken as things are, and a
\* transaction that lost begins again or gives up.
LEMMA OthersKeepWeight ==
  ASSUME WeightInv, TypeOK', NEW p \in Procs, Begins(p) \/ GuardBegin(p) \/ GuardLost(p)
  PROVE  WeightInv'
<1>1. task \in [Tasks -> Task] /\ task' = task /\ unguarded' = unguarded
  BY DEF WeightInv, TypeOK, Begins, Request, GuardBegin, GuardLost, rows
<1>2. OverOnlyUnguarded'
  BY <1>1 DEF WeightInv, OverOnlyUnguarded, Total, Counted
<1>3. (\A q \in Procs : pc[q] \in {"begin", "commit"} => arg[q].op # "show")'
  <2>1. CASE Begins(p)
    BY <2>1 DEF WeightInv, TypeOK, Begins, Request
  <2>2. CASE GuardBegin(p)
    BY <2>2 DEF WeightInv, TypeOK, GuardBegin
  <2>3. CASE GuardLost(p)
    BY <2>3 DEF WeightInv, TypeOK, GuardLost, Done
  <2>. QED  BY <2>1, <2>2, <2>3
<1>4. \A q \in Procs : pc'[q] = "commit" /\ ~lost'[q] =>
        \/ pc[q] = "commit" /\ ~lost[q] /\ arg'[q] = arg[q] /\ seen'[q] = seen[q]
        \/ seen'[q] = Counted(task)
  <2>1. CASE Begins(p)
    BY <2>1 DEF WeightInv, TypeOK, Begins, Request
  <2>2. CASE GuardBegin(p)
    BY <2>2 DEF WeightInv, TypeOK, GuardBegin
  <2>3. CASE GuardLost(p)
    BY <2>3 DEF WeightInv, TypeOK, GuardLost, Done
  <2>. QED  BY <2>1, <2>2, <2>3
<1>5. \A t \in Tasks : Counted(task)[t] <= Counted(task)[t]
  BY <1>1, CountedNat
<1>6. Counted(task') = Counted(task)
  BY <1>1
<1>7. (~unguarded => \A q \in Procs : pc[q] = "commit" => SnapshotHolds(q))'
  <2>. SUFFICES ASSUME ~unguarded, NEW q \in Procs, pc'[q] = "commit", ~lost'[q],
                       NEW t \in Tasks, t # arg'[q].t
                PROVE  Counted(task')[t] <= seen'[q][t]
    BY <1>1 DEF SnapshotHolds, Counted
  <2>1. CASE seen'[q] = Counted(task)
    BY <2>1, <1>5, <1>6
  <2>2. CASE pc[q] = "commit" /\ ~lost[q] /\ arg'[q] = arg[q] /\ seen'[q] = seen[q]
    BY <2>2, <1>6 DEF WeightInv, SnapshotHolds
  <2>. QED  BY <1>4, <2>1, <2>2
<1>. QED  BY <1>2, <1>3, <1>7 DEF WeightInv

\* Every step keeps the invariant.
LEMMA WeightStep == WeightInv /\ [Next]_vars => WeightInv'
<1>. SUFFICES ASSUME WeightInv, [Next]_vars PROVE WeightInv'
  OBVIOUS
<1>1. TypeOK /\ TypeOK'
  BY TypesStep DEF WeightInv
<1>2. CASE UNCHANGED vars
  BY <1>2 DEF WeightInv, TypeOK, OverOnlyUnguarded, SnapshotHolds, Total, Counted, vars, rows
<1>3. ASSUME NEW p \in Procs, Ask(p) PROVE WeightInv'
  BY <1>1, <1>3, AskBegins, OthersKeepWeight
<1>4. ASSUME NEW p \in Procs, Answer(p) PROVE WeightInv'
  BY <1>1, <1>4, PlainKeepsWeight, CommitKeepsWeight, OthersKeepWeight DEF Answer
<1>. QED  BY <1>2, <1>3, <1>4 DEF Next

\* However many requests overlap, only a write outside the guard takes a goal
\* over its limit (withWeightGuard).
THEOREM GuardedStaysWithin == Spec => []OverOnlyUnguarded
<1>1. WeightInv => OverOnlyUnguarded
  BY DEF WeightInv
<1>. QED  BY <1>1, WeightInit, WeightStep, PTL DEF Spec
=============================================================================
