---------------------------- MODULE LeaveProofs ----------------------------
(***************************************************************************)
(* Theorems about Leave, for every set of requests, types, accounts and    *)
(* concurrent handlers: types and stamps under every interleaving; and,    *)
(* when the handlers run one at a time, that no time is booked twice, no   *)
(* type is deleted under its requests, every counter is the sum of the     *)
(* requests behind it, no request is accepted beyond its allowance, and    *)
(* that the handlers implement LeaveLifecycle.                             *)
(***************************************************************************)
EXTENDS Leave, FiniteSetTheorems, WellFoundedInduction, TLAPS

-----------------------------------------------------------------------------
(* Types.                                                                  *)

\* Which row a handler in flight is about.
Held(p) ==
  /\ pc[p] \notin {"idle", "deleteWrite"} => arg[p].r \in Requests
  /\ pc[p] = "deleteWrite" => arg[p].t \in Types

FlightOK ==
  /\ pc \in [Procs -> Stage] /\ arg \in [Procs -> Arg]
  /\ seen \in [Procs -> Row] /\ covered \in SUBSET Procs
  /\ \A p \in Procs : Held(p)

RowsOK ==
  /\ request \in [Requests -> Row]
  /\ pending \in [Accounts -> Int] /\ used \in [Accounts -> Int]
  /\ adjusted \in [Accounts -> Int]
  /\ days \in [Types -> Nat]
  /\ typeStatus \in [Types -> {"ACTIVE", "INACTIVE", "DELETED"}]

TypeInv == RowsOK /\ FlightOK

\* A request costs a whole number of half-days, at least one.
LEMMA CostType ==
  ASSUME NEW r \in Requests
  PROVE  Cost(r) \in Int /\ Cost(r) >= 1
<1>. DEFINE a == Asked[r]
            S == (a.first .. a.last) \ Weekend
<1>1. a.first \in Int /\ a.last \in Int
  BY LeaveConstants
<1>2. IsFiniteSet(a.first .. a.last)
  BY <1>1, FS_Interval
<1>3. IsFiniteSet(S)
  BY <1>2, FS_Subset
<1>4. Cardinality(S) \in Nat
  BY <1>3, FS_CardinalityType
<1>5. \A n \in Nat : Max({1, n}) \in Int /\ Max({1, n}) >= 1
  <2>. SUFFICES ASSUME NEW n \in Nat PROVE Max({1, n}) \in Int /\ Max({1, n}) >= 1
    OBVIOUS
  <2>1. \E x \in {1, n} : \A y \in {1, n} : x >= y
    <3>1. CASE n >= 1
      BY <3>1
    <3>2. CASE ~(n >= 1)
      BY <3>2
    <3>. QED  BY <3>1, <3>2
  <2>. QED  BY <2>1 DEF Max
<1>6. PICK m \in Int : m = Max({1, Cardinality(S)}) /\ m >= 1
  BY <1>4, <1>5
<1>7. Cost(r) = IF a.part # "FULL" THEN 1 ELSE 2 * m
  BY <1>6 DEF Cost, WorkingDays
<1>8. 2 * m \in Int /\ 2 * m >= 1
  BY <1>6
<1>. QED  BY <1>7, <1>8

\* The rows the handlers write are rows.
LEMMA RowTypes ==
  /\ NoRow \in Row /\ Approved \in Row
  /\ [status |-> "PENDING", manager |-> "Pending", hr |-> "Pending"] \in Row
  /\ [status |-> "PENDING", manager |-> "Approved", hr |-> "Pending"] \in Row
  /\ [status |-> "CANCELLED", manager |-> "Cancelled", hr |-> "Cancelled"] \in Row
  /\ \A m, h \in {"Approved", "Rejected", "Revoked"} : RejectedAs(m, h) \in Row
BY DEF NoRow, Approved, RejectedAs, Row, Status, Stamp

\* Whatever is added to the counters of a request's account, counters are
\* integers.
LEMMA MoveType ==
  ASSUME TypeInv, NEW r \in Requests, NEW m \in Int, NEW n \in Int, Move(r, m, n)
  PROVE  pending' \in [Accounts -> Int] /\ used' \in [Accounts -> Int]
BY DEF Move, TypeInv, RowsOK

LEMMA RefundType ==
  ASSUME TypeInv, NEW r \in Requests, NEW row, Refund(r, row)
  PROVE  pending' \in [Accounts -> Int] /\ used' \in [Accounts -> Int]
<1>1. 0 - Cost(r) \in Int
  BY CostType
<1>. QED  BY <1>1, MoveType DEF Refund

\* The helpers keep the handlers in flight typed.
LEMMA BeginType ==
  ASSUME TypeInv, NEW p \in Procs, NEW stage \in Stage, NEW a \in Arg,
         Begin(p, stage, a),
         stage \notin {"idle", "deleteWrite"} => a.r \in Requests,
         stage = "deleteWrite" => a.t \in Types
  PROVE  FlightOK'
<1>1. seen' \in [Procs -> Row]
  BY RowTypes DEF Begin, TypeInv, FlightOK, RowsOK
<1>. QED  BY <1>1 DEF Begin, TypeInv, FlightOK, Held

LEMMA GotoType ==
  ASSUME TypeInv, NEW p \in Procs, NEW stage \in Stage, Goto(p, stage),
         seen' \in [Procs -> Row], covered' \in SUBSET Procs,
         pc[p] \notin {"idle", "deleteWrite"}, stage # "deleteWrite"
  PROVE  FlightOK'
BY DEF Goto, TypeInv, FlightOK, Held

LEMMA FinishType ==
  ASSUME TypeInv, NEW p \in Procs, Finish(p)
  PROVE  FlightOK'
<1>1. NoArg \in Arg /\ "idle" \in Stage
  BY DEF NoArg, Arg, Stage
<1>. QED  BY <1>1, RowTypes DEF Finish, TypeInv, FlightOK, Held

LEMMA ArgTypes ==
  /\ \A r \in Requests : [NoArg EXCEPT !.r = r] \in Arg /\ [NoArg EXCEPT !.r = r].r = r
  /\ \A r \in Requests, approve \in BOOLEAN :
       /\ Decision(r, approve) \in Arg
       /\ Decision(r, approve).r = r /\ Decision(r, approve).approve = approve
  /\ \A t \in Types : [NoArg EXCEPT !.t = t] \in Arg /\ [NoArg EXCEPT !.t = t].t = t
BY DEF NoArg, Arg, Decision

\* A handler that writes a decision leaves typed rows.
LEMMA WriteType ==
  ASSUME TypeInv, NEW p \in Procs,
         ManagerWrite(p) \/ HrWrite(p) \/ AdminWrite(p) \/ CancelWrite(p)
  PROVE  RowsOK' /\ FlightOK'
<1>. DEFINE r == arg[p].r
<1>1. r \in Requests
  BY DEF TypeInv, FlightOK, Held, ManagerWrite, HrWrite, AdminWrite, CancelWrite
<1>2. FlightOK'
  BY FinishType DEF ManagerWrite, HrWrite, AdminWrite, CancelWrite
<1>3. UNCHANGED <<adjusted, days, typeStatus>>
  BY DEF ManagerWrite, HrWrite, AdminWrite, CancelWrite
<1>4. \A row \in Row : Write(r, row) => request' \in [Requests -> Row]
  BY DEF Write, TypeInv, RowsOK
<1>5. Charge(r) => pending' \in [Accounts -> Int] /\ used' \in [Accounts -> Int]
  <2>1. Cost(r) \in Int /\ 0 - Cost(r) \in Int
    BY <1>1, CostType
  <2>. QED  BY <1>1, <2>1, MoveType DEF Charge
<1>6. \A row : Refund(r, row) => pending' \in [Accounts -> Int] /\ used' \in [Accounts -> Int]
  BY <1>1, RefundType
<1>7. UNCHANGED <<pending, used>>
        => pending' \in [Accounts -> Int] /\ used' \in [Accounts -> Int]
  BY DEF TypeInv, RowsOK
<1>8. CASE ManagerWrite(p)
  BY <1>1, <1>2, <1>3, <1>4, <1>6, <1>7, <1>8, RowTypes DEF ManagerWrite, TypeInv, RowsOK
<1>9. CASE HrWrite(p)
  BY <1>1, <1>2, <1>3, <1>4, <1>5, <1>6, <1>9, RowTypes DEF HrWrite, TypeInv, RowsOK
<1>10. CASE AdminWrite(p)
  BY <1>1, <1>2, <1>3, <1>4, <1>5, <1>6, <1>10, RowTypes DEF AdminWrite, TypeInv, RowsOK
<1>11. CASE CancelWrite(p)
  <2>1. 0 - Cost(r) \in Int
    BY <1>1, CostType
  <2>. QED  BY <1>1, <1>2, <1>3, <1>4, <1>11, <2>1, MoveType, RowTypes
       DEF CancelWrite, TypeInv, RowsOK
<1>. QED  BY <1>8, <1>9, <1>10, <1>11

LEMMA StepType ==
  ASSUME TypeInv, NEW p \in Procs, Step(p)
  PROVE  RowsOK' /\ FlightOK'
<1>0. UNCHANGED rows => RowsOK'
  BY DEF rows, TypeInv, RowsOK
<1>1. CASE \E r \in Requests : Submit(p, r) \/ Cancel(p, r)
  <2>1. PICK r \in Requests : Submit(p, r) \/ Cancel(p, r)
    BY <1>1
  <2>. QED  BY <1>0, <2>1, ArgTypes, BeginType DEF Submit, Cancel, Stage
<1>2. CASE \E r \in Requests, approve \in BOOLEAN : Decide(p, r, approve)
  <2>1. PICK r \in Requests, approve \in BOOLEAN : Decide(p, r, approve)
    BY <1>2
  <2>2. UNCHANGED rows /\ \E stage \in {"delegated", "managerWrite", "hrWrite", "adminWrite"} :
                             Begin(p, stage, Decision(r, approve))
    BY <2>1 DEF Decide, ManagerAction, HrAction, AdminAction
  <2>. QED  BY <1>0, <2>2, ArgTypes, BeginType DEF Stage
<1>3. CASE Balances(p)
  <2>1. RowsOK'
    BY <1>0, <1>3 DEF Balances
  <2>2. CASE Finish(p)
    BY <2>1, <2>2, FinishType
  <2>3. CASE ~Finish(p)
    <3>1. Goto(p, "type") /\ UNCHANGED seen /\ pc[p] = "balances"
      BY <1>3, <2>3 DEF Balances
    <3>2. covered' \in SUBSET Procs
      BY <1>3, <2>3 DEF Balances, TypeInv, FlightOK
    <3>. QED  BY <2>1, <3>1, <3>2, GotoType DEF TypeInv, FlightOK, Stage
  <2>. QED  BY <2>2, <2>3
<1>4. CASE CheckType(p)
  <2>1. RowsOK'
    BY <1>0, <1>4 DEF CheckType
  <2>2. CASE Finish(p)
    BY <2>1, <2>2, FinishType
  <2>3. CASE ~Finish(p)
    <3>1. Goto(p, "create") /\ UNCHANGED <<seen, covered>> /\ pc[p] = "type"
      BY <1>4, <2>3 DEF CheckType
    <3>. QED  BY <2>1, <3>1, GotoType DEF TypeInv, FlightOK, Stage
  <2>. QED  BY <2>2, <2>3
<1>5. CASE Create(p)
  <2>1. arg[p].r \in Requests
    BY <1>5 DEF Create, TypeInv, FlightOK, Held
  <2>2. FlightOK'
    BY <1>5, FinishType DEF Create
  <2>3. CASE typeStatus[TypeOf(arg[p].r)] = "DELETED"
    BY <1>5, <2>2, <2>3 DEF Create, TypeInv, RowsOK
  <2>4. CASE typeStatus[TypeOf(arg[p].r)] # "DELETED"
    <3>1. request' \in [Requests -> Row]
      BY <1>5, <2>4, RowTypes DEF Create, Write, TypeInv, RowsOK
    <3>2. Move(arg[p].r, Cost(arg[p].r), 0)
      BY <1>5, <2>4 DEF Create
    <3>3. pending' \in [Accounts -> Int] /\ used' \in [Accounts -> Int]
      BY <2>1, <3>2, CostType, MoveType
    <3>. QED  BY <1>5, <2>2, <3>1, <3>3 DEF Create, TypeInv, RowsOK
  <2>. QED  BY <2>3, <2>4
<1>6. CASE Delegated(p)
  <2>1. RowsOK'
    BY <1>0, <1>6 DEF Delegated
  <2>2. CASE Finish(p)
    BY <2>1, <2>2, FinishType
  <2>3. CASE ~Finish(p)
    <3>1. Goto(p, "hrWrite") /\ UNCHANGED covered /\ pc[p] = "delegated"
      BY <1>6, <2>3 DEF Delegated
    <3>2. seen' \in [Procs -> Row]
      BY <1>6, <2>3 DEF Delegated, TypeInv, FlightOK, Held, RowsOK
    <3>. QED  BY <2>1, <3>1, <3>2, GotoType DEF TypeInv, FlightOK, Stage
  <2>. QED  BY <2>2, <2>3
<1>7. CASE ManagerWrite(p) \/ HrWrite(p) \/ AdminWrite(p) \/ CancelWrite(p)
  BY <1>7, WriteType
<1>8. CASE \E t \in Editable, n \in DayChoices, s \in {"ACTIVE", "INACTIVE"} : EditType(p, t, n, s)
  BY <1>8, LeaveConstants DEF EditType, TypeInv, RowsOK, FlightOK, Held
<1>9. CASE \E a \in Adjustable, n \in {-1, 1} : Adjust(p, a, n)
  BY <1>9, LeaveConstants DEF Adjust, TypeInv, RowsOK, FlightOK, Held
<1>10. CASE \E t \in Editable : DeleteType(p, t)
  <2>1. PICK t \in Types : DeleteType(p, t)
    BY <1>10, LeaveConstants
  <2>. QED  BY <1>0, <2>1, ArgTypes, BeginType DEF DeleteType, Stage
<1>11. CASE DeleteWrite(p)
  <2>1. \A t : Cleared(pending, t) \in [Accounts -> Int] /\ Cleared(used, t) \in [Accounts -> Int]
                /\ Cleared(adjusted, t) \in [Accounts -> Int]
    BY DEF Cleared, TypeInv, RowsOK
  <2>. QED  BY <1>11, <2>1, FinishType DEF DeleteWrite, TypeInv, RowsOK
<1>. QED  BY <1>1, <1>2, <1>3, <1>4, <1>5, <1>6, <1>7, <1>8, <1>9, <1>10, <1>11 DEF Step

LEMMA TypeStep == TypeInv /\ [Next]_vars => TypeInv'
<1>. SUFFICES ASSUME TypeInv, [Next]_vars PROVE RowsOK' /\ FlightOK'
  BY DEF TypeInv
<1>1. CASE \E p \in Procs : Step(p)
  BY <1>1, StepType
<1>2. CASE UNCHANGED vars
  BY <1>2 DEF vars, TypeInv, RowsOK, FlightOK, Held
<1>. QED  BY <1>1, <1>2 DEF Next

LEMMA TypeInit == Init => TypeInv
<1>1. NoArg \in Arg /\ "idle" \in Stage
  BY DEF NoArg, Arg, Stage
<1>. QED  BY <1>1, RowTypes, LeaveConstants DEF Init, TypeInv, RowsOK, FlightOK, Held

\* Requests, counters and handlers in flight always have their types: no
\* interleaving makes a handler write a row that is not one.
THEOREM TypeCorrect == Spec => []TypeOK
<1>1. TypeInv => TypeOK
  BY DEF TypeInv, RowsOK, FlightOK, TypeOK
<1>. QED  BY <1>1, TypeInit, TypeStep, PTL DEF Spec

-----------------------------------------------------------------------------
(* Stamps.                                                                 *)

\* What StampsAgree says of one row.
Consistent(row) ==
  /\ row.status = "PENDING" => row.hr = "Pending" /\ row.manager \in {"Pending", "Approved"}
  /\ row.status = "APPROVED" => row.manager = "Approved" /\ row.hr = "Approved"
  /\ row.status = "REJECTED" => /\ row.hr \in {"Rejected", "Revoked"}
                               /\ row.manager \in {"Rejected", "Revoked", "Approved"}

\* A step writes no request row, or one row, and that one is consistent.
LEMMA WrittenRow ==
  ASSUME TypeInv, NEW p \in Procs, Step(p)
  PROVE  \/ UNCHANGED request
         \/ \E row : Consistent(row) /\ Write(arg[p].r, row)
<1>1. /\ Consistent([status |-> "PENDING", manager |-> "Pending", hr |-> "Pending"])
      /\ Consistent([status |-> "PENDING", manager |-> "Approved", hr |-> "Pending"])
      /\ Consistent([status |-> "CANCELLED", manager |-> "Cancelled", hr |-> "Cancelled"])
      /\ Consistent(Approved)
      /\ \A m \in {"Approved", "Rejected", "Revoked"}, h \in {"Rejected", "Revoked"} :
           Consistent(RejectedAs(m, h))
  BY DEF Consistent, Approved, RejectedAs
<1>2. CASE Create(p)
  BY <1>1, <1>2 DEF Create
<1>3. CASE ManagerWrite(p)
  BY <1>1, <1>3 DEF ManagerWrite
<1>4. CASE HrWrite(p)
  BY <1>1, <1>4 DEF HrWrite
<1>5. CASE AdminWrite(p)
  BY <1>1, <1>5 DEF AdminWrite
<1>6. CASE CancelWrite(p)
  BY <1>1, <1>6 DEF CancelWrite
<1>7. CASE ~(Create(p) \/ ManagerWrite(p) \/ HrWrite(p) \/ AdminWrite(p) \/ CancelWrite(p))
  BY <1>7 DEF Step, Submit, Cancel, Decide, ManagerAction, HrAction, AdminAction, Balances,
              CheckType, Delegated, EditType, Adjust, DeleteType, DeleteWrite, rows
<1>. QED  BY <1>2, <1>3, <1>4, <1>5, <1>6, <1>7

\* Under every interleaving of decisions, cancellations and delegations, the two
\* stamps of a request agree with its status: each handler writes the whole row.
THEOREM StampsAlwaysAgree == Spec => []StampsAgree
<1>. DEFINE Inv == \A r \in Requests : Consistent(request[r])
<1>1. Init => Inv
  BY DEF Init, NoRow, Consistent
<1>2. TypeInv /\ Inv /\ [Next]_vars => Inv'
  <2>. SUFFICES ASSUME TypeInv, Inv, [Next]_vars PROVE Inv'
    OBVIOUS
  <2>1. CASE UNCHANGED request
    BY <2>1
  <2>2. ASSUME NEW p \in Procs, Step(p), NEW row, Consistent(row), Write(arg[p].r, row)
        PROVE  Inv'
    BY <2>2 DEF Write, TypeInv, RowsOK
  <2>. QED  BY <2>1, <2>2, WrittenRow DEF Next, vars
<1>3. Inv => StampsAgree
  BY DEF Consistent, StampsAgree
<1>. QED  BY <1>1, <1>2, <1>3, TypeInit, TypeStep, PTL DEF Spec

-----------------------------------------------------------------------------
(* One handler at a time.                                                  *)

States == [r \in Requests |-> request[r].status]

\* Requests clash with each other, not one with the other.
LEMMA ClashSymmetric ==
  ASSUME NEW r \in Requests, NEW s \in Clash[r]
  PROVE  s \in Requests \ {r} /\ r \in Clash[s]
BY DEF Clash, Overlap, Complementary

\* What blocks a submission is a request in force.
LEMMA BlockingIsActive ==
  ASSUME TypeInv, NEW r \in Requests
  PROVE  Blocking(r) <=> Active(r)
BY DEF TypeInv, RowsOK, Row, Status, Blocking, Active

\* Writing a row is writing its status, abstractly.
LEMMA WriteStatus ==
  ASSUME TypeInv, NEW r \in Requests, NEW row, Write(r, row)
  PROVE  /\ Lifecycle!Becomes(r, row.status)
         /\ States[r] = request[r].status /\ request'[r] = row
         /\ \A s \in Requests \ {r} : request'[s] = request[s]
BY DEF Write, Lifecycle!Becomes, States, TypeInv, RowsOK

\* A handler that writes what it was right to write makes one step of the
\* promised life of its request; a manager's approval makes none.
LEMMA WritesAreSteps ==
  ASSUME TypeInv, SerialInv, NEW p \in Procs, Step(p)
  PROVE  \/ UNCHANGED States
         \/ \E r \in Requests : \/ Lifecycle!Submit(r) \/ Lifecycle!Approve(r)
                               \/ Lifecycle!Reject(r) \/ Lifecycle!Cancel(r)
<1>. DEFINE r == arg[p].r
<1>0. ASSUME pc[p] \notin {"idle", "deleteWrite"}
      PROVE  r \in Requests /\ request[r] \in Row
  BY <1>0 DEF TypeInv, FlightOK, Held, RowsOK
<1>1. UpToDate(p)
  BY DEF SerialInv
<1>2. CASE Create(p)
  <2>1. PICK c \in Requests : c = r /\ request[c].status = "NONE" /\ ~Clashes(c)
    BY <1>0, <1>1, <1>2 DEF Create, UpToDate
  <2>2. CASE UNCHANGED request
    BY <2>2 DEF States
  <2>3. CASE ~ UNCHANGED request
    <3>1. Lifecycle!Becomes(c, "PENDING") /\ States[c] = "NONE"
      BY <1>2, <2>1, <2>3, WriteStatus DEF Create
    <3>2. \A s \in Clash[c] : States[s] \notin {"PENDING", "APPROVED"}
      BY <2>1, ClashSymmetric, BlockingIsActive DEF Clashes, Active, States
    <3>3. Lifecycle!Submit(c)
      BY <3>1, <3>2 DEF Lifecycle!Submit, Lifecycle!Undecided, Lifecycle!Granted, States
    <3>. QED  BY <2>1, <3>3
  <2>. QED  BY <2>2, <2>3
<1>3. ASSUME ManagerWrite(p) \/ HrWrite(p) \/ AdminWrite(p)
      PROVE  \/ UNCHANGED States
             \/ \E s \in Requests : Lifecycle!Approve(s) \/ Lifecycle!Reject(s)
  <2>1. r \in Requests /\ request[r] = seen[p] /\ Open(seen[p], arg[p].approve)
    BY <1>0, <1>1, <1>3 DEF ManagerWrite, HrWrite, AdminWrite, UpToDate
  <2>2. request[r].status = "PENDING" \/ (request[r].status = "APPROVED" /\ ~arg[p].approve)
    BY <2>1 DEF Open
  <2>3. \/ /\ arg[p].approve /\ \/ Write(r, Approved)
                                \/ \E m, h : Write(r, [status |-> "PENDING", manager |-> m, hr |-> h])
        \/ ~arg[p].approve /\ \E m, h : Write(r, RejectedAs(m, h))
    BY <1>3 DEF ManagerWrite, HrWrite, AdminWrite
  <2>4. CASE arg[p].approve /\ Write(r, Approved)
    BY <2>1, <2>2, <2>4, WriteStatus
       DEF Approved, Lifecycle!Approve, Lifecycle!Undecided, States
  <2>5. CASE arg[p].approve /\ \E m, h : Write(r, [status |-> "PENDING", manager |-> m, hr |-> h])
    <3>1. request[r].status = "PENDING" /\ request'[r].status = "PENDING"
      BY <2>1, <2>2, <2>5, WriteStatus
    <3>2. \A s \in Requests \ {r} : request'[s] = request[s]
      BY <2>1, <2>5, WriteStatus
    <3>. QED  BY <3>1, <3>2 DEF States
  <2>6. CASE ~arg[p].approve /\ \E m, h : Write(r, RejectedAs(m, h))
    BY <2>1, <2>2, <2>6, WriteStatus
       DEF RejectedAs, Lifecycle!Reject, Lifecycle!Undecided, Lifecycle!Granted, States
  <2>. QED  BY <2>3, <2>4, <2>5, <2>6
<1>4. CASE CancelWrite(p)
  <2>1. r \in Requests /\ request[r].status = "PENDING"
    BY <1>0, <1>1, <1>4 DEF CancelWrite, UpToDate
  <2>. QED  BY <1>4, <2>1, WriteStatus
            DEF CancelWrite, Lifecycle!Cancel, Lifecycle!Undecided, States
<1>5. CASE ~(Create(p) \/ ManagerWrite(p) \/ HrWrite(p) \/ AdminWrite(p) \/ CancelWrite(p))
  <2>1. UNCHANGED request
    BY <1>5 DEF Step, Submit, Cancel, Decide, ManagerAction, HrAction, AdminAction, Balances,
                CheckType, Delegated, EditType, Adjust, DeleteType, DeleteWrite, rows
  <2>. QED  BY <2>1 DEF States
<1>. QED  BY <1>2, <1>3, <1>4, <1>5

\* A step of the promised life keeps the requests in force apart.
LEMMA StepsKeepApart ==
  ASSUME TypeInv, NoDoubleBooking,
         \/ UNCHANGED States
         \/ \E r \in Requests : \/ Lifecycle!Submit(r) \/ Lifecycle!Approve(r)
                               \/ Lifecycle!Reject(r) \/ Lifecycle!Cancel(r)
  PROVE  NoDoubleBooking'
<1>0. /\ \A r \in Requests : Active(r) <=> States[r] \in {"PENDING", "APPROVED"}
      /\ \A r \in Requests : Active(r)' <=> States'[r] \in {"PENDING", "APPROVED"}
  BY DEF Active, States
<1>1. CASE UNCHANGED States
  BY <1>0, <1>1, ClashSymmetric DEF NoDoubleBooking
<1>2. ASSUME NEW r \in Requests,
             Lifecycle!Approve(r) \/ Lifecycle!Reject(r) \/ Lifecycle!Cancel(r)
      PROVE  NoDoubleBooking'
  <2>1. \A s \in Requests : Active(s)' => Active(s)
    BY <1>0, <1>2 DEF Lifecycle!Approve, Lifecycle!Reject, Lifecycle!Cancel,
       Lifecycle!Becomes, Lifecycle!Undecided, Lifecycle!Granted, States
  <2>. QED  BY <2>1, ClashSymmetric DEF NoDoubleBooking
<1>3. ASSUME NEW r \in Requests, Lifecycle!Submit(r)
      PROVE  NoDoubleBooking'
  <2>1. \A s \in Requests \ {r} : Active(s)' => Active(s)
    BY <1>0, <1>3 DEF Lifecycle!Submit, Lifecycle!Becomes, States
  <2>2. \A s \in Clash[r] : ~Active(s)
    BY <1>0, <1>3, ClashSymmetric
       DEF Lifecycle!Submit, Lifecycle!Undecided, Lifecycle!Granted, States
  <2>. SUFFICES ASSUME NEW s \in Requests, Active(s)', NEW t \in Clash[s]
                PROVE  ~Active(t)'
    BY DEF NoDoubleBooking
  <2>3. t \in Requests \ {s} /\ s \in Clash[t]
    BY ClashSymmetric
  <2>4. CASE s = r
    BY <2>1, <2>2, <2>3, <2>4
  <2>5. CASE t = r
    BY <2>1, <2>2, <2>3, <2>5
  <2>6. CASE s # r /\ t # r
    BY <2>1, <2>3, <2>6 DEF NoDoubleBooking
  <2>. QED  BY <2>4, <2>5, <2>6
<1>. QED  BY <1>1, <1>2, <1>3

\* No handler creates a request for a type it deletes, and none deletes a type
\* for which there is a request.
LEMMA OrphansKept ==
  ASSUME TypeInv, SerialInv, NEW p \in Procs, Step(p)
  PROVE  NoOrphans'
<1>. DEFINE r == arg[p].r
<1>0. NoOrphans /\ UpToDate(p)
  BY DEF SerialInv
<1>1. CASE Create(p)
  BY <1>0, <1>1 DEF Create, Write, NoOrphans, TypeInv, RowsOK
<1>2. CASE ManagerWrite(p) \/ HrWrite(p) \/ AdminWrite(p) \/ CancelWrite(p)
  <2>1. r \in Requests /\ request[r].status # "NONE"
    BY <1>0, <1>2 DEF ManagerWrite, HrWrite, AdminWrite, CancelWrite, UpToDate, Open,
                      TypeInv, FlightOK, Held
  <2>2. \A s \in Requests \ {r} : request'[s] = request[s]
    BY <1>2 DEF ManagerWrite, HrWrite, AdminWrite, CancelWrite, Write, TypeInv, RowsOK
  <2>3. typeStatus' = typeStatus
    BY <1>2 DEF ManagerWrite, HrWrite, AdminWrite, CancelWrite
  <2>. QED  BY <1>0, <2>1, <2>2, <2>3 DEF NoOrphans
<1>3. CASE DeleteWrite(p)
  BY <1>0, <1>3 DEF DeleteWrite, UpToDate, Unused, NoOrphans, TypeInv, RowsOK
<1>4. CASE \E t \in Editable, n \in DayChoices, s \in {"ACTIVE", "INACTIVE"} : EditType(p, t, n, s)
  BY <1>0, <1>4 DEF EditType, NoOrphans, TypeInv, RowsOK
<1>5. CASE UNCHANGED <<request, typeStatus>>
  BY <1>0, <1>5 DEF NoOrphans
<1>. QED  BY <1>1, <1>2, <1>3, <1>4, <1>5
          DEF Step, Submit, Cancel, Decide, ManagerAction, HrAction, AdminAction, Balances,
              CheckType, Delegated, Adjust, DeleteType, rows

\* A handler that has just read something knows it; one that has written is
\* idle; and there is no other.
LEMMA UpToDateKept ==
  ASSUME TypeInv, SerialInv, OneAtATime, NEW p \in Procs, Step(p)
  PROVE  \A q \in Procs : UpToDate(q)'
<1>. SUFFICES UpToDate(p)'
  BY DEF OneAtATime
<1>0. UpToDate(p) /\ pc \in [Procs -> Stage] /\ arg \in [Procs -> Arg] /\ seen \in [Procs -> Row]
  BY DEF SerialInv, TypeInv, FlightOK
<1>1. CASE pc'[p] \in {"idle", "delegated"}
  BY <1>1 DEF UpToDate
<1>2. \A stage, a : Begin(p, stage, a)
        => /\ pc'[p] = stage /\ arg'[p] = a
           /\ a.r \in Requests => seen'[p] = request[a.r]
  BY <1>0 DEF Begin
<1>3. \A stage : Goto(p, stage) => pc'[p] = stage /\ arg'[p] = arg[p]
  BY <1>0 DEF Goto
<1>4. Finish(p) => pc'[p] = "idle"
  BY <1>0 DEF Finish
<1>5. ASSUME UNCHANGED rows PROVE /\ \A r \in Requests : Clashes(r)' <=> Clashes(r)
                                  /\ \A t : Unused(t)' <=> Unused(t)
                                  /\ request' = request
  BY <1>5 DEF rows, Clashes, Blocking, Unused
<1>6. ASSUME NEW r \in Requests, Submit(p, r) PROVE UpToDate(p)'
  <2>1. pc'[p] = "balances" /\ arg'[p].r = r
    BY <1>0, <1>6 DEF Submit, Begin, NoArg
  <2>2. request'[r].status = "NONE" /\ ~Clashes(r)'
    BY <1>5, <1>6 DEF Submit
  <2>. QED  BY <2>1, <2>2 DEF UpToDate, Clashes
<1>7. ASSUME NEW r \in Requests, Cancel(p, r) PROVE UpToDate(p)'
  <2>1. pc'[p] = "cancelWrite" /\ arg'[p].r = r
    BY <1>0, <1>7 DEF Cancel, Begin, NoArg
  <2>2. request'[r].status = "PENDING"
    BY <1>5, <1>7 DEF Cancel
  <2>. QED  BY <2>1, <2>2 DEF UpToDate
<1>8. ASSUME NEW r \in Requests, NEW approve \in BOOLEAN, Decide(p, r, approve)
      PROVE  UpToDate(p)'
  <2>1. UNCHANGED rows
    BY <1>8 DEF Decide, ManagerAction, HrAction, AdminAction
  <2>2. CASE Begin(p, "delegated", Decision(r, approve))
    BY <1>1, <1>2, <2>2
  <2>3. CASE ~Begin(p, "delegated", Decision(r, approve))
    <3>1. Open(request[r], approve)
            /\ \E stage \in {"managerWrite", "hrWrite", "adminWrite"} :
                 Begin(p, stage, Decision(r, approve))
      BY <1>8, <2>3 DEF Decide, ManagerAction, HrAction, AdminAction, ManagerMay, HrMay
    <3>2. /\ pc'[p] \in {"managerWrite", "hrWrite", "adminWrite"}
          /\ arg'[p].r = r /\ arg'[p].approve = approve
          /\ seen'[p] = request[r] /\ request'[r] = request[r]
      BY <1>2, <2>1, <3>1, ArgTypes DEF rows
    <3>. QED  BY <3>1, <3>2 DEF UpToDate, Open
  <2>. QED  BY <2>2, <2>3
<1>9. CASE Balances(p) \/ CheckType(p)
  <2>1. UNCHANGED rows /\ (Finish(p) \/ \E stage \in {"type", "create"} : Goto(p, stage))
          /\ pc[p] \in {"balances", "type"} /\ arg[p].r \in Requests
    BY <1>9 DEF Balances, CheckType, TypeInv, FlightOK, Held
  <2>. QED  BY <1>0, <1>1, <1>3, <1>4, <1>5, <2>1 DEF UpToDate
<1>10. CASE Delegated(p)
  <2>1. UNCHANGED rows /\ arg[p].r \in Requests
    BY <1>10 DEF Delegated, TypeInv, FlightOK, Held
  <2>2. CASE Finish(p)
    BY <1>1, <1>4, <2>2
  <2>3. CASE ~Finish(p)
    <3>1. /\ pc'[p] = "hrWrite" /\ arg'[p] = arg[p] /\ seen'[p] = request[arg[p].r]
          /\ Open(request[arg[p].r], arg[p].approve)
      BY <1>0, <1>3, <1>10, <2>3 DEF Delegated, HrMay
    <3>. QED  BY <2>1, <3>1 DEF UpToDate, Open, rows
  <2>. QED  BY <2>2, <2>3
<1>11. ASSUME NEW t \in Types, DeleteType(p, t) PROVE UpToDate(p)'
  <2>1. pc'[p] = "deleteWrite" /\ arg'[p].t = t
    BY <1>0, <1>11 DEF DeleteType, Begin, NoArg
  <2>2. Unused(t)'
    BY <1>5, <1>11 DEF DeleteType
  <2>. QED  BY <2>1, <2>2 DEF UpToDate, Unused
<1>12. CASE Create(p) \/ ManagerWrite(p) \/ HrWrite(p) \/ AdminWrite(p) \/ CancelWrite(p)
            \/ DeleteWrite(p)
  BY <1>1, <1>4, <1>12 DEF Create, ManagerWrite, HrWrite, AdminWrite, CancelWrite, DeleteWrite
<1>13. CASE \/ \E t \in Editable, n \in DayChoices, s \in {"ACTIVE", "INACTIVE"} : EditType(p, t, n, s)
            \/ \E a \in Adjustable, n \in {-1, 1} : Adjust(p, a, n)
  BY <1>1, <1>13 DEF EditType, Adjust
<1>. QED  BY <1>6, <1>7, <1>8, <1>9, <1>10, <1>11, <1>12, <1>13, LeaveConstants DEF Step

LEMMA SerialStep ==
  ASSUME OneAtATime
  PROVE  TypeInv /\ SerialInv /\ [Next]_vars => SerialInv'
<1>. SUFFICES ASSUME TypeInv, SerialInv, [Next]_vars PROVE SerialInv'
  OBVIOUS
<1>1. ASSUME NEW p \in Procs, Step(p) PROVE SerialInv'
  <2>1. NoDoubleBooking'
    BY <1>1, WritesAreSteps, StepsKeepApart DEF SerialInv
  <2>. QED  BY <1>1, <2>1, OrphansKept, UpToDateKept DEF SerialInv
<1>2. CASE UNCHANGED vars
  BY <1>2 DEF vars, SerialInv, NoDoubleBooking, NoOrphans, Active, UpToDate, Clashes,
              Blocking, Unused
<1>. QED  BY <1>1, <1>2 DEF Next

LEMMA SerialInit == Init => SerialInv
BY DEF Init, NoRow, SerialInv, NoDoubleBooking, NoOrphans, Active, UpToDate

\* Handlers that run one at a time never book a time twice.
THEOREM NeverDoubleBooked ==
  ASSUME OneAtATime
  PROVE  Spec => []NoDoubleBooking
<1>1. TypeInv /\ SerialInv /\ [Next]_vars => SerialInv'
  BY SerialStep
<1>2. SerialInv => NoDoubleBooking
  BY DEF SerialInv
<1>. QED  BY <1>1, <1>2, SerialInit, TypeInit, TypeStep, PTL DEF Spec

\* Handlers that run one at a time never delete a type under its requests.
THEOREM NeverOrphaned ==
  ASSUME OneAtATime
  PROVE  Spec => []NoOrphans
<1>1. TypeInv /\ SerialInv /\ [Next]_vars => SerialInv'
  BY SerialStep
<1>2. SerialInv => NoOrphans
  BY DEF SerialInv
<1>. QED  BY <1>1, <1>2, SerialInit, TypeInit, TypeStep, PTL DEF Spec

\* Handlers that run one at a time decide every request at most once, take back
\* only approvals, and accept only what clashes with nothing in force.
THEOREM ImplementsLifecycle ==
  ASSUME OneAtATime
  PROVE  Spec => LifecycleSpec
<1>1. TypeInv /\ SerialInv /\ [Next]_vars => SerialInv'
  BY SerialStep
<1>2. Init => Lifecycle!Init
  BY DEF Init, NoRow, Lifecycle!Init
<1>3. TypeInv /\ SerialInv /\ [Next]_vars => [Lifecycle!Next]_States
  <2>. SUFFICES ASSUME TypeInv, SerialInv, [Next]_vars PROVE [Lifecycle!Next]_States
    OBVIOUS
  <2>1. CASE \E p \in Procs : Step(p)
    BY <2>1, WritesAreSteps DEF Lifecycle!Next
  <2>2. CASE UNCHANGED vars
    BY <2>2 DEF vars, States
  <2>. QED  BY <2>1, <2>2 DEF Next
<1>. QED  BY <1>1, <1>2, <1>3, SerialInit, TypeInit, TypeStep, PTL
          DEF Spec, LifecycleSpec, Lifecycle!Spec, States

-----------------------------------------------------------------------------
(* Adding up costs.  Total is a fold over a set, one element at a time in  *)
(* an order nobody knows; what follows shows that the order does not       *)
(* matter.  Each proof looks at a smallest set for which it would fail.    *)

LEMMA Least ==
  ASSUME NEW B \in SUBSET Nat, B # {}
  PROVE  \E m \in B : \A n \in B : m <= n
<1>1. PICK m \in B : \A n \in B : ~(<<n, m>> \in OpToRel(<, Nat))
  BY NatLessThanWellFounded, WFMin
<1>2. \A n \in B : n \in Nat /\ m \in Nat /\ ~(n < m)
  BY <1>1 DEF OpToRel
<1>. QED  BY <1>2

\* A set of requests has a size, and one more than what is left of it.
LEMMA RequestSets ==
  ASSUME NEW S \in SUBSET Requests
  PROVE  /\ IsFiniteSet(S) /\ Cardinality(S) \in Nat
         /\ \A T \in SUBSET S : Cardinality(T) <= Cardinality(S)
         /\ \A r \in S : Cardinality(S) = Cardinality(S \ {r}) + 1
<1>1. IsFiniteSet(S)
  BY LeaveConstants, FS_Subset
<1>2. Cardinality(S) \in Nat
  BY <1>1, FS_CardinalityType
<1>3. \A T \in SUBSET S : Cardinality(T) <= Cardinality(S)
  BY <1>1, FS_Subset
<1>4. ASSUME NEW r \in S PROVE Cardinality(S) = Cardinality(S \ {r}) + 1
  <2>1. Cardinality(S \ {r}) = Cardinality(S) - 1
    BY <1>1, FS_RemoveElement
  <2>. QED  BY <1>2, <2>1
<1>. QED  BY <1>1, <1>2, <1>3, <1>4

First(s) == CHOOSE x \in s : TRUE
Adds(S, g) ==
  g = [s \in SUBSET S |-> IF s = {} THEN 0 ELSE Cost(First(s)) + g[s \ {First(s)}]]

LEMMA TotalChosen ==
  ASSUME NEW S
  PROVE  Total(S) = (CHOOSE g : Adds(S, g))[S]
BY DEF Total, MapThenSumSet, MapThenFoldSet, Adds, First

\* Two folds agree where both are defined.
LEMMA FoldsAgree ==
  ASSUME NEW S \in SUBSET Requests, NEW T \in SUBSET Requests, NEW g, NEW h,
         Adds(S, g), Adds(T, h)
  PROVE  \A s \in SUBSET (S \cap T) : g[s] = h[s]
<1>. DEFINE B == {n \in Nat : \E s \in SUBSET (S \cap T) : Cardinality(s) = n /\ g[s] # h[s]}
<1>1. SUFFICES B = {}
  BY RequestSets
<1>2. SUFFICES ASSUME B # {} PROVE FALSE
  OBVIOUS
<1>3. PICK n \in B : \A m \in B : n <= m
  BY <1>2, Least
<1>4. PICK s \in SUBSET (S \cap T) : Cardinality(s) = n /\ g[s] # h[s]
  OBVIOUS
<1>5. CASE s = {}
  BY <1>4, <1>5 DEF Adds
<1>6. CASE s # {}
  <2>1. First(s) \in s
    BY <1>6 DEF First
  <2>2. PICK t \in SUBSET (S \cap T) : t = s \ {First(s)}
    OBVIOUS
  <2>3. n \in Nat /\ Cardinality(t) \in Nat /\ n = Cardinality(t) + 1
    BY <1>4, <2>1, <2>2, RequestSets
  <2>4. Cardinality(t) \notin B
    BY <1>3, <2>3
  <2>5. g[t] = h[t]
    BY <2>3, <2>4
  <2>6. s \in SUBSET S /\ s \in SUBSET T
    OBVIOUS
  <2>7. g[s] = Cost(First(s)) + g[t]
    BY <1>6, <2>2, <2>6 DEF Adds
  <2>8. h[s] = Cost(First(s)) + h[t]
    BY <1>6, <2>2, <2>6 DEF Adds
  <2>. QED  BY <1>4, <2>5, <2>7, <2>8
<1>. QED  BY <1>5, <1>6

\* There is a fold over every set of requests, and Total is its last value.
LEMMA FoldExists ==
  ASSUME NEW S \in SUBSET Requests
  PROVE  \E g : Adds(S, g) /\ Total(S) = g[S]
<1>. DEFINE B == {n \in Nat : \E s \in SUBSET Requests : Cardinality(s) = n /\ ~ \E g : Adds(s, g)}
<1>0. \A s : (\E g : Adds(s, g)) => \E g : Adds(s, g) /\ Total(s) = g[s]
  <2>. TAKE s
  <2>1. HAVE \E g : Adds(s, g)
  <2>2. Adds(s, CHOOSE g : Adds(s, g))
    BY <2>1
  <2>. QED  BY <2>2, TotalChosen
<1>1. SUFFICES B = {}
  BY <1>0, RequestSets
<1>2. SUFFICES ASSUME B # {} PROVE FALSE
  OBVIOUS
<1>3. PICK n \in B : \A m \in B : n <= m
  BY <1>2, Least
<1>4. PICK s \in SUBSET Requests : Cardinality(s) = n /\ ~ \E g : Adds(s, g)
  OBVIOUS
<1>5. ASSUME NEW t \in SUBSET s, t # s PROVE \E g : Adds(t, g) /\ Total(t) = g[t]
  <2>1. PICK r \in s : r \notin t
    BY <1>5
  <2>2. t \in SUBSET (s \ {r}) /\ s \ {r} \in SUBSET Requests /\ t \in SUBSET Requests
    BY <2>1
  <2>3. Cardinality(t) <= Cardinality(s \ {r}) /\ Cardinality(s) = Cardinality(s \ {r}) + 1
    BY <2>1, <2>2, RequestSets
  <2>4. Cardinality(t) \in Nat /\ Cardinality(s \ {r}) \in Nat
    BY <2>2, RequestSets
  <2>5. Cardinality(t) \notin B
    BY <1>3, <1>4, <2>3, <2>4
  <2>. QED  BY <1>0, <2>2, <2>4, <2>5
<1>6. PICK h : h = [t \in SUBSET s |-> IF t = {} THEN 0 ELSE Cost(First(t)) + Total(t \ {First(t)})]
  OBVIOUS
<1>7. ASSUME NEW t \in SUBSET s, t # s PROVE h[t] = Total(t)
  <2>1. PICK g : Adds(t, g) /\ Total(t) = g[t]
    BY <1>5, <1>7
  <2>2. CASE t = {}
    BY <1>6, <2>1, <2>2 DEF Adds
  <2>3. CASE t # {}
    <3>1. First(t) \in t
      BY <2>3 DEF First
    <3>2. PICK u \in SUBSET t : u = t \ {First(t)}
      OBVIOUS
    <3>3. u \in SUBSET s /\ u # s
      BY <3>1, <3>2
    <3>4. PICK f : Adds(u, f) /\ Total(u) = f[u]
      BY <1>5, <3>3
    <3>5. f[u] = g[u]
      <4>1. t \in SUBSET Requests /\ u \in SUBSET Requests /\ u \in SUBSET (u \cap t)
        BY <3>2
      <4>. QED  BY <2>1, <3>4, <4>1, FoldsAgree
    <3>6. g[t] = Cost(First(t)) + g[u]
      BY <2>1, <2>3, <3>2 DEF Adds
    <3>7. h[t] = Cost(First(t)) + Total(u)
      BY <1>6, <2>3, <3>2
    <3>. QED  BY <2>1, <3>4, <3>5, <3>6, <3>7
  <2>. QED  BY <2>2, <2>3
<1>8. Adds(s, h)
  <2>1. ASSUME NEW t \in SUBSET s
        PROVE  (IF t = {} THEN 0 ELSE Cost(First(t)) + Total(t \ {First(t)}))
                 = (IF t = {} THEN 0 ELSE Cost(First(t)) + h[t \ {First(t)}])
    <3>1. CASE t = {}
      BY <3>1
    <3>2. CASE t # {}
      <4>1. First(t) \in t
        BY <3>2 DEF First
      <4>2. PICK u \in SUBSET s : u = t \ {First(t)}
        OBVIOUS
      <4>3. h[u] = Total(u)
        BY <1>7, <4>1, <4>2
      <4>. QED  BY <3>2, <4>2, <4>3
    <3>. QED  BY <3>1, <3>2
  <2>. QED  BY <1>6, <2>1 DEF Adds
<1>. QED  BY <1>4, <1>8

\* Nothing costs nothing, and a total starts with some element of the set.
LEMMA TotalFirst ==
  /\ Total({}) = 0
  /\ \A S \in SUBSET Requests :
       S # {} => First(S) \in S /\ Total(S) = Cost(First(S)) + Total(S \ {First(S)})
<1>1. Total({}) = 0
  <2>1. PICK g : Adds({}, g) /\ Total({}) = g[{}]
    BY FoldExists
  <2>. QED  BY <2>1 DEF Adds
<1>2. ASSUME NEW S \in SUBSET Requests, S # {}
      PROVE  First(S) \in S /\ Total(S) = Cost(First(S)) + Total(S \ {First(S)})
  <2>1. First(S) \in S
    BY <1>2 DEF First
  <2>2. PICK t \in SUBSET S : t = S \ {First(S)}
    OBVIOUS
  <2>3. PICK g : Adds(S, g) /\ Total(S) = g[S]
    BY FoldExists
  <2>4. PICK h : Adds(t, h) /\ Total(t) = h[t]
    BY FoldExists
  <2>5. t \in SUBSET Requests /\ t \in SUBSET (S \cap t)
    OBVIOUS
  <2>6. g[t] = h[t]
    BY <2>3, <2>4, <2>5, FoldsAgree
  <2>7. g[S] = Cost(First(S)) + g[t]
    BY <1>2, <2>2, <2>3 DEF Adds
  <2>. QED  BY <2>1, <2>2, <2>3, <2>4, <2>6, <2>7
<1>. QED  BY <1>1, <1>2

\* A total is an integer.
LEMMA TotalType ==
  ASSUME NEW S \in SUBSET Requests
  PROVE  Total(S) \in Int
<1>. DEFINE B == {n \in Nat : \E s \in SUBSET Requests : Cardinality(s) = n /\ Total(s) \notin Int}
<1>1. SUFFICES B = {}
  BY RequestSets
<1>2. SUFFICES ASSUME B # {} PROVE FALSE
  OBVIOUS
<1>3. PICK n \in B : \A m \in B : n <= m
  BY <1>2, Least
<1>4. PICK s \in SUBSET Requests : Cardinality(s) = n /\ Total(s) \notin Int
  OBVIOUS
<1>5. s # {}
  BY <1>4, TotalFirst
<1>6. PICK t \in SUBSET s : t = s \ {First(s)}
  OBVIOUS
<1>7. First(s) \in s /\ Total(s) = Cost(First(s)) + Total(t)
  BY <1>5, <1>6, TotalFirst
<1>8. n \in Nat /\ Cardinality(t) \in Nat /\ n = Cardinality(t) + 1
  BY <1>4, <1>6, <1>7, RequestSets
<1>9. Total(t) \in Int
  <2>1. Cardinality(t) \notin B
    BY <1>3, <1>8
  <2>. QED  BY <1>8, <2>1
<1>10. Cost(First(s)) \in Int
  BY <1>7, CostType
<1>. QED  BY <1>4, <1>7, <1>9, <1>10

\* A total is any one of its costs and the total of the others.
LEMMA TotalOf ==
  ASSUME NEW S \in SUBSET Requests, NEW r \in S
  PROVE  Total(S) = Cost(r) + Total(S \ {r})
<1>. DEFINE Wrong(s) == \E x \in s : Total(s) # Cost(x) + Total(s \ {x})
            B == {n \in Nat : \E s \in SUBSET Requests : Cardinality(s) = n /\ Wrong(s)}
<1>1. ASSUME B = {} PROVE Total(S) = Cost(r) + Total(S \ {r})
  <2>1. ~Wrong(S)
    BY <1>1, RequestSets
  <2>. QED  BY <2>1
<1>2. SUFFICES ASSUME B # {} PROVE FALSE
  BY <1>1
<1>3. PICK n \in B : \A m \in B : n <= m
  BY <1>2, Least
<1>4. PICK s \in SUBSET Requests : Cardinality(s) = n /\ Wrong(s)
  OBVIOUS
<1>5. PICK x \in s : Total(s) # Cost(x) + Total(s \ {x})
  BY <1>4
<1>6. PICK y : y = First(s)
  OBVIOUS
<1>7. y \in s /\ Total(s) = Cost(y) + Total(s \ {y})
  BY <1>6, TotalFirst
<1>8. x # y
  BY <1>5, <1>7
<1>9. PICK t \in SUBSET s : t = s \ {y}
  OBVIOUS
<1>10. PICK u \in SUBSET s : u = s \ {x}
  OBVIOUS
<1>11. t \ {x} = u \ {y} /\ x \in t /\ y \in u
  BY <1>7, <1>8, <1>9, <1>10
<1>12. ASSUME NEW v \in SUBSET s, Cardinality(s) = Cardinality(v) + 1 PROVE ~Wrong(v)
  <2>1. v \in SUBSET Requests /\ Cardinality(v) \in Nat /\ n = Cardinality(v) + 1 /\ n \in Nat
    BY <1>4, <1>12, RequestSets
  <2>2. Cardinality(v) \notin B
    BY <1>3, <2>1
  <2>. QED  BY <2>1, <2>2
<1>13. ~Wrong(t) /\ ~Wrong(u)
  <2>1. Cardinality(s) = Cardinality(t) + 1 /\ Cardinality(s) = Cardinality(u) + 1
    BY <1>7, <1>9, <1>10, RequestSets
  <2>. QED  BY <1>12, <2>1
<1>14. Total(t) = Cost(x) + Total(t \ {x}) /\ Total(u) = Cost(y) + Total(t \ {x})
  BY <1>11, <1>13
<1>15. Cost(x) \in Int /\ Cost(y) \in Int /\ Total(t \ {x}) \in Int
  BY <1>7, CostType, TotalType
<1>. QED  BY <1>5, <1>7, <1>9, <1>10, <1>14, <1>15

\* Taking one request out of a set, or into one, moves the total by its cost.
LEMMA TotalMoves ==
  ASSUME NEW S \in SUBSET Requests, NEW r \in Requests
  PROVE  /\ r \in S => Total(S \ {r}) = Total(S) - Cost(r)
         /\ r \notin S => Total(S \cup {r}) = Total(S) + Cost(r)
<1>1. Cost(r) \in Int /\ Total(S) \in Int /\ Total(S \ {r}) \in Int
  BY CostType, TotalType
<1>2. r \in S => Total(S) = Cost(r) + Total(S \ {r})
  BY TotalOf
<1>3. ASSUME r \notin S PROVE Total(S \cup {r}) = Cost(r) + Total(S)
  <2>1. S \cup {r} \in SUBSET Requests /\ r \in S \cup {r} /\ (S \cup {r}) \ {r} = S
    BY <1>3
  <2>. QED  BY <2>1, TotalOf
<1>. QED  BY <1>1, <1>2, <1>3

-----------------------------------------------------------------------------
(* The counters, one handler at a time.                                    *)

\* The requests of an account that are in a state.
Mine(a, s) == {r \in Requests : request[r].status = s /\ Account(r) = a}

LEMMA CountersOf ==
  CountersMatchRequests <=>
    \A a \in Accounts : typeStatus[a[1]] # "DELETED" =>
      pending[a] = Total(Mine(a, "PENDING")) /\ used[a] = Total(Mine(a, "APPROVED"))
BY DEF CountersMatchRequests, Mine

\* An account is a type and a year.
LEMMA AccountType ==
  ASSUME NEW r \in Requests
  PROVE  /\ Account(r) \in Accounts /\ Account(r)[1] = TypeOf(r) /\ TypeOf(r) \in Types
BY LeaveConstants DEF Account, Accounts, TypeOf, Year, Years

\* How much the status of a request adds to a counter that counts the status s.
Weighs(r, row, s) == IF row.status = s THEN Cost(r) ELSE 0

\* Writing a row moves the total of its account by what the status weighed before
\* and weighs now; the other accounts are left alone.
LEMMA WriteMoves ==
  ASSUME TypeInv, NEW r \in Requests, NEW row, Write(r, row), NEW a, NEW s
  PROVE  /\ a # Account(r) => Mine(a, s)' = Mine(a, s)
         /\ a = Account(r) => Total(Mine(a, s)') = Total(Mine(a, s)) - Weighs(r, request[r], s)
                                                  + Weighs(r, row, s)
<1>0. request'[r] = row /\ \A q \in Requests \ {r} : request'[q] = request[q]
  BY WriteStatus
<1>1. a # Account(r) => Mine(a, s)' = Mine(a, s)
  BY <1>0 DEF Mine, Account, TypeOf
<1>2. ASSUME a = Account(r)
      PROVE  Total(Mine(a, s)') = Total(Mine(a, s)) - Weighs(r, request[r], s) + Weighs(r, row, s)
  <2>1. PICK S \in SUBSET Requests : S = Mine(a, s)
    BY DEF Mine
  <2>2. PICK T \in SUBSET Requests : T = Mine(a, s)'
    BY DEF Mine
  <2>3. r \in S <=> request[r].status = s
    BY <1>2, <2>1 DEF Mine
  <2>4. r \in T <=> row.status = s
    BY <1>0, <1>2, <2>2 DEF Mine
  <2>5. S \ {r} = T \ {r}
    BY <1>0, <2>1, <2>2 DEF Mine
  <2>6. /\ Cost(r) \in Int /\ Total(S) \in Int /\ Total(T) \in Int
        /\ r \in S => Total(S \ {r}) = Total(S) - Cost(r)
        /\ r \in T => Total(T \ {r}) = Total(T) - Cost(r)
    BY CostType, TotalType, TotalMoves
  <2>7. ASSUME NEW U, r \notin U PROVE Total(U \ {r}) = Total(U)
    <3>1. U \ {r} = U
      BY <2>7
    <3>. QED  BY <3>1
  <2>8. Total(T \ {r}) = Total(S \ {r})
    BY <2>5
  <2>9. /\ Weighs(r, request[r], s) = IF r \in S THEN Cost(r) ELSE 0
        /\ Weighs(r, row, s) = IF r \in T THEN Cost(r) ELSE 0
    BY <2>3, <2>4 DEF Weighs
  <2>10. /\ Total(S \ {r}) = Total(S) - Weighs(r, request[r], s)
        /\ Total(T \ {r}) = Total(T) - Weighs(r, row, s)
        /\ Weighs(r, request[r], s) \in Int /\ Weighs(r, row, s) \in Int
    BY <2>6, <2>9, <2>7
  <2>11. Total(T) = Total(S) - Weighs(r, request[r], s) + Weighs(r, row, s)
    BY <2>6, <2>8, <2>10
  <2>. QED  BY <2>1, <2>2, <2>11
<1>. QED  BY <1>1, <1>2

\* A handler that writes a row and moves its counters by the difference keeps the
\* counters the costs of the requests behind them.
LEMMA MoveKeepsCounters ==
  ASSUME TypeInv, CountersMatchRequests, UNCHANGED typeStatus,
         NEW r \in Requests, NEW row, Write(r, row), NEW m \in Int, NEW n \in Int, Move(r, m, n),
         m = Weighs(r, row, "PENDING") - Weighs(r, request[r], "PENDING"),
         n = Weighs(r, row, "APPROVED") - Weighs(r, request[r], "APPROVED")
  PROVE  CountersMatchRequests'
<1>. SUFFICES ASSUME NEW a \in Accounts, typeStatus[a[1]] # "DELETED"
              PROVE  /\ pending'[a] = Total(Mine(a, "PENDING")')
                     /\ used'[a] = Total(Mine(a, "APPROVED")')
  BY DEF CountersMatchRequests, Mine
<1>1. pending[a] = Total(Mine(a, "PENDING")) /\ used[a] = Total(Mine(a, "APPROVED"))
  BY CountersOf
<1>2. CASE a # Account(r)
  <2>1. pending'[a] = pending[a] /\ used'[a] = used[a]
    BY <1>2 DEF Move, TypeInv, RowsOK
  <2>. QED  BY <1>1, <1>2, <2>1, WriteMoves
<1>3. CASE a = Account(r)
  <2>1. typeStatus[TypeOf(r)] # "DELETED"
    BY <1>3, AccountType
  <2>2. pending'[a] = pending[a] + m /\ used'[a] = used[a] + n
    BY <1>3, <2>1 DEF Move, TypeInv, RowsOK
  <2>3. /\ Weighs(r, row, "PENDING") \in Int /\ Weighs(r, request[r], "PENDING") \in Int
        /\ Weighs(r, row, "APPROVED") \in Int /\ Weighs(r, request[r], "APPROVED") \in Int
    BY CostType DEF Weighs
  <2>4. Total(Mine(a, "PENDING")) \in Int /\ Total(Mine(a, "APPROVED")) \in Int
    BY TotalType DEF Mine
  <2>5. /\ Total(Mine(a, "PENDING")') = Total(Mine(a, "PENDING"))
             - Weighs(r, request[r], "PENDING") + Weighs(r, row, "PENDING")
        /\ Total(Mine(a, "APPROVED")') = Total(Mine(a, "APPROVED"))
             - Weighs(r, request[r], "APPROVED") + Weighs(r, row, "APPROVED")
    BY <1>3, WriteMoves
  <2>. QED  BY <1>1, <2>2, <2>3, <2>4, <2>5
<1>. QED  BY <1>2, <1>3

\* A decision, a cancellation or a new request leaves the counters right when
\* what the handler read is still so.
LEMMA DecisionKeepsCounters ==
  ASSUME TypeInv, SerialInv, CountersMatchRequests, NEW p \in Procs,
         Create(p) \/ ManagerWrite(p) \/ HrWrite(p) \/ AdminWrite(p) \/ CancelWrite(p)
  PROVE  CountersMatchRequests'
<1>0. PICK r \in Requests : r = arg[p].r
  BY DEF TypeInv, FlightOK, Held, Create, ManagerWrite, HrWrite, AdminWrite, CancelWrite
<1>1. UpToDate(p) /\ UNCHANGED typeStatus
  BY DEF SerialInv, Create, ManagerWrite, HrWrite, AdminWrite, CancelWrite
<1>2. Cost(r) \in Int /\ 0 - Cost(r) \in Int
  BY CostType
<1>3. ASSUME UNCHANGED <<pending, used>> PROVE Move(r, 0, 0) \/ typeStatus[TypeOf(r)] = "DELETED"
  BY <1>3, AccountType DEF Move, TypeInv, RowsOK
<1>4. ASSUME NEW row, Write(r, row), NEW m \in Int, NEW n \in Int, Move(r, m, n),
             m = Weighs(r, row, "PENDING") - Weighs(r, request[r], "PENDING"),
             n = Weighs(r, row, "APPROVED") - Weighs(r, request[r], "APPROVED")
      PROVE  CountersMatchRequests'
  BY <1>1, <1>4, MoveKeepsCounters
<1>5. CASE Create(p)
  <2>1. CASE typeStatus[TypeOf(r)] = "DELETED"
    BY <1>0, <1>1, <1>5, <2>1 DEF Create, CountersMatchRequests
  <2>2. CASE typeStatus[TypeOf(r)] # "DELETED"
    <3>1. PICK row : row = [status |-> "PENDING", manager |-> "Pending", hr |-> "Pending"]
      OBVIOUS
    <3>2. Write(r, row) /\ Move(r, Cost(r), 0) /\ row.status = "PENDING"
      BY <1>0, <1>5, <2>2, <3>1 DEF Create
    <3>3. request[r].status = "NONE"
      BY <1>0, <1>1, <1>5 DEF Create, UpToDate
    <3>4. /\ Weighs(r, row, "PENDING") = Cost(r) /\ Weighs(r, row, "APPROVED") = 0
          /\ Weighs(r, request[r], "PENDING") = 0 /\ Weighs(r, request[r], "APPROVED") = 0
      BY <3>2, <3>3 DEF Weighs
    <3>. QED  BY <1>2, <1>4, <3>2, <3>4
  <2>. QED  BY <2>1, <2>2
<1>6. CASE CancelWrite(p)
  <2>1. PICK row : row = [status |-> "CANCELLED", manager |-> "Cancelled", hr |-> "Cancelled"]
    OBVIOUS
  <2>2. Write(r, row) /\ Move(r, 0 - Cost(r), 0) /\ row.status = "CANCELLED"
    BY <1>0, <1>6, <2>1 DEF CancelWrite
  <2>3. request[r].status = "PENDING"
    BY <1>0, <1>1, <1>6 DEF CancelWrite, UpToDate
  <2>4. /\ Weighs(r, row, "PENDING") = 0 /\ Weighs(r, row, "APPROVED") = 0
        /\ Weighs(r, request[r], "PENDING") = Cost(r) /\ Weighs(r, request[r], "APPROVED") = 0
    BY <2>2, <2>3 DEF Weighs
  <2>. QED  BY <1>2, <1>4, <2>2, <2>4
<1>7. CASE ManagerWrite(p) \/ HrWrite(p) \/ AdminWrite(p)
  <2>1. request[r] = seen[p] /\ Open(seen[p], arg[p].approve)
    BY <1>0, <1>1, <1>7 DEF ManagerWrite, HrWrite, AdminWrite, UpToDate
  <2>2. request[r].status = "PENDING" \/ (request[r].status = "APPROVED" /\ ~arg[p].approve)
    BY <2>1 DEF Open
  <2>3. CASE ~arg[p].approve
    <3>1. PICK row : Write(r, row) /\ Refund(r, request[r]) /\ row.status = "REJECTED"
      BY <1>0, <1>7, <2>1, <2>3 DEF ManagerWrite, HrWrite, AdminWrite, RejectedAs
    <3>2. Weighs(r, row, "PENDING") = 0 /\ Weighs(r, row, "APPROVED") = 0
      BY <3>1 DEF Weighs
    <3>3. CASE request[r].status = "APPROVED"
      <4>1. /\ Weighs(r, request[r], "PENDING") = 0 /\ Weighs(r, request[r], "APPROVED") = Cost(r)
            /\ Move(r, 0, 0 - Cost(r))
        BY <3>1, <3>3 DEF Weighs, Refund
      <4>. QED  BY <1>2, <1>4, <3>1, <3>2, <4>1
    <3>4. CASE request[r].status = "PENDING"
      <4>1. /\ Weighs(r, request[r], "PENDING") = Cost(r) /\ Weighs(r, request[r], "APPROVED") = 0
            /\ Move(r, 0 - Cost(r), 0)
        BY <3>1, <3>4 DEF Weighs, Refund
      <4>. QED  BY <1>2, <1>4, <3>1, <3>2, <4>1
    <3>. QED  BY <2>2, <3>3, <3>4
  <2>4. CASE arg[p].approve /\ ManagerWrite(p)
    <3>1. PICK row : row = [status |-> "PENDING", manager |-> "Approved", hr |-> "Pending"]
      OBVIOUS
    <3>2. Write(r, row) /\ UNCHANGED <<pending, used>> /\ row.status = "PENDING"
      BY <1>0, <2>4, <3>1 DEF ManagerWrite
    <3>3. /\ Weighs(r, row, "PENDING") = Cost(r) /\ Weighs(r, row, "APPROVED") = 0
          /\ Weighs(r, request[r], "PENDING") = Cost(r) /\ Weighs(r, request[r], "APPROVED") = 0
      BY <2>2, <2>4, <3>2 DEF Weighs
    <3>4. CASE Move(r, 0, 0)
      BY <1>2, <1>4, <3>2, <3>3, <3>4
    <3>5. CASE typeStatus[TypeOf(r)] = "DELETED"
      <4>1. Move(r, 0, 0)
        BY <3>2, <3>5 DEF Move
      <4>. QED  BY <3>4, <4>1
    <3>. QED  BY <1>3, <3>2, <3>4, <3>5
  <2>5. CASE arg[p].approve /\ (HrWrite(p) \/ AdminWrite(p))
    <3>1. PICK row : row = Approved
      OBVIOUS
    <3>2. Write(r, row) /\ Move(r, 0 - Cost(r), Cost(r)) /\ row.status = "APPROVED"
      BY <1>0, <2>5, <3>1 DEF HrWrite, AdminWrite, Charge, Approved
    <3>3. /\ Weighs(r, row, "PENDING") = 0 /\ Weighs(r, row, "APPROVED") = Cost(r)
          /\ Weighs(r, request[r], "PENDING") = Cost(r) /\ Weighs(r, request[r], "APPROVED") = 0
      BY <2>2, <2>5, <3>2 DEF Weighs
    <3>. QED  BY <1>2, <1>4, <3>2, <3>3
  <2>6. arg[p].approve \in BOOLEAN
    BY DEF TypeInv, FlightOK, Arg
  <2>. QED  BY <1>7, <2>3, <2>4, <2>5, <2>6
<1>. QED  BY <1>5, <1>6, <1>7

LEMMA CountersStep ==
  ASSUME TypeInv, SerialInv, CountersMatchRequests, [Next]_vars
  PROVE  CountersMatchRequests'
<1>1. ASSUME UNCHANGED <<request, pending, used>>,
             \A t \in Types : typeStatus'[t] # "DELETED" => typeStatus[t] # "DELETED"
      PROVE  CountersMatchRequests'
  <2>1. \A a \in Accounts : a[1] \in Types
    BY DEF Accounts
  <2>. QED  BY <1>1, <2>1 DEF CountersMatchRequests
<1>2. ASSUME NEW p \in Procs, Step(p) PROVE CountersMatchRequests'
  <2>1. CASE Create(p) \/ ManagerWrite(p) \/ HrWrite(p) \/ AdminWrite(p) \/ CancelWrite(p)
    BY <2>1, DecisionKeepsCounters
  <2>2. CASE \E t \in Editable, n \in DayChoices, s \in {"ACTIVE", "INACTIVE"} : EditType(p, t, n, s)
    BY <1>1, <2>2 DEF EditType, TypeInv, RowsOK
  <2>3. CASE DeleteWrite(p)
    <3>1. UNCHANGED request
      BY <2>3 DEF DeleteWrite
    <3>2. ASSUME NEW a \in Accounts, typeStatus'[a[1]] # "DELETED"
          PROVE  /\ typeStatus[a[1]] # "DELETED"
                 /\ pending'[a] = pending[a] /\ used'[a] = used[a]
      <4>1. a[1] \in Types
        BY DEF Accounts
      <4>2. typeStatus[a[1]] # "DELETED" /\ a[1] # arg[p].t
        BY <2>3, <3>2, <4>1 DEF DeleteWrite, TypeInv, RowsOK
      <4>. QED  BY <2>3, <4>2 DEF DeleteWrite, Cleared
    <3>. QED  BY <3>1, <3>2 DEF CountersMatchRequests
  <2>4. CASE UNCHANGED <<request, pending, used, typeStatus>>
    BY <1>1, <2>4
  <2>. QED  BY <1>2, <2>1, <2>2, <2>3, <2>4
            DEF Step, Submit, Cancel, Decide, ManagerAction, HrAction, AdminAction, Balances,
                CheckType, Delegated, Adjust, DeleteType, rows
<1>3. CASE UNCHANGED vars
  BY <1>1, <1>3 DEF vars
<1>. QED  BY <1>2, <1>3 DEF Next

LEMMA CountersInit == Init => CountersMatchRequests
<1>. SUFFICES ASSUME Init, NEW a \in Accounts
              PROVE  pending[a] = Total(Mine(a, "PENDING")) /\ used[a] = Total(Mine(a, "APPROVED"))
  BY CountersOf
<1>1. Mine(a, "PENDING") = {} /\ Mine(a, "APPROVED") = {}
  BY DEF Init, NoRow, Mine
<1>. QED  BY <1>1, TotalFirst DEF Init

\* Handlers that run one at a time keep every counter the sum of the costs of the
\* requests behind it: what is reserved and what is taken is what the requests
\* say, whatever was submitted, decided, taken back, cancelled or deleted before
\* (Leave.CountersMatchRequests).
THEOREM CountersAlwaysMatch ==
  ASSUME OneAtATime
  PROVE  Spec => []CountersMatchRequests
<1>1. TypeInv /\ SerialInv /\ [Next]_vars => SerialInv'
  BY SerialStep
<1>2. TypeInv /\ SerialInv /\ CountersMatchRequests /\ [Next]_vars => CountersMatchRequests'
  BY CountersStep
<1>. QED  BY <1>1, <1>2, SerialInit, CountersInit, TypeInit, TypeStep, PTL DEF Spec

-----------------------------------------------------------------------------
(* The allowance, one handler at a time.                                   *)

\* A handler that found enough days left finds as many when it writes.
CoverInv ==
  \A p \in Procs :
    LET r == arg[p].r
    IN /\ pc[p] = "create" => p \in covered \/ TypeOf(r) \in Overdraft
       /\ p \in covered => pc[p] \in {"type", "create"} /\ Cost(r) <= Remaining(Account(r))

\* The larger of nothing and what is left.
LEMMA NeverBelowZero ==
  ASSUME NEW n \in Int
  PROVE  Max({0, n}) = IF n >= 0 THEN n ELSE 0
<1>1. \E x \in {0, n} : \A y \in {0, n} : x >= y
  <2>1. CASE n >= 0
    BY <2>1
  <2>2. CASE ~(n >= 0)
    BY <2>2
  <2>. QED  BY <2>1, <2>2
<1>2. PICK m : m = Max({0, n})
  OBVIOUS
<1>3. m \in {0, n} /\ \A y \in {0, n} : m >= y
  BY <1>1, <1>2 DEF Max
<1>4. m = IF n >= 0 THEN n ELSE 0
  BY <1>3
<1>. QED  BY <1>2, <1>4

LEMMA CoverStep ==
  ASSUME TypeInv, OneAtATime, CoverInv, [Next]_vars
  PROVE  CoverInv'
<1>0. pc \in [Procs -> Stage] /\ arg \in [Procs -> Arg] /\ covered \in SUBSET Procs
  BY DEF TypeInv, FlightOK
<1>1. ASSUME NEW p \in Procs, pc'[p] # "create", p \notin covered' PROVE CoverInv'
  BY <1>1 DEF CoverInv, OneAtATime
<1>2. ASSUME UNCHANGED rows, NEW r PROVE Remaining(Account(r))' = Remaining(Account(r))
  BY <1>2 DEF rows, Remaining, Allowance, Counted, Active, Account
<1>3. ASSUME NEW p \in Procs, Step(p) PROVE CoverInv'
  <2>0. p \in covered => pc[p] \in {"type", "create"}
    BY DEF CoverInv
  <2>1. CASE Finish(p)
    <3>1. pc'[p] = "idle" /\ p \notin covered'
      BY <1>0, <2>1 DEF Finish
    <3>. QED  BY <1>1, <3>1
  <2>2. ASSUME NEW stage \in Stage, NEW a, Begin(p, stage, a), stage # "create" PROVE CoverInv'
    <3>1. pc'[p] = stage /\ pc[p] = "idle" /\ covered' = covered
      BY <1>0, <2>2 DEF Begin
    <3>. QED  BY <1>1, <2>0, <2>2, <3>1
  <2>3. CASE Balances(p) /\ ~Finish(p)
    <3>1. pc[p] = "balances" /\ pc'[p] = "type" /\ arg' = arg /\ UNCHANGED rows
      BY <1>0, <2>3 DEF Balances, Goto
    <3>2. p \in covered' => Cost(arg[p].r) <= Remaining(Account(arg[p].r))
      BY <2>0, <2>3, <3>1 DEF Balances
    <3>3. \A q \in Procs : q = p
      BY DEF OneAtATime
    <3>. QED  BY <1>2, <3>1, <3>2, <3>3 DEF CoverInv
  <2>4. CASE CheckType(p) /\ ~Finish(p)
    <3>1. pc[p] = "type" /\ pc'[p] = "create" /\ arg' = arg /\ UNCHANGED rows /\ covered' = covered
      BY <1>0, <2>4 DEF CheckType, Goto
    <3>2. p \in covered \/ TypeOf(arg[p].r) \in Overdraft
      BY <2>4 DEF CheckType
    <3>3. \A q \in Procs : q = p
      BY DEF OneAtATime
    <3>4. p \in covered => Cost(arg[p].r) <= Remaining(Account(arg[p].r))
      BY DEF CoverInv
    <3>5. Remaining(Account(arg[p].r))' = Remaining(Account(arg[p].r))
      <4>1. PICK r : r = arg[p].r
        OBVIOUS
      <4>. QED  BY <1>2, <3>1, <4>1
    <3>. QED  BY <3>1, <3>2, <3>3, <3>4, <3>5 DEF CoverInv
  <2>5. CASE Delegated(p) /\ ~Finish(p)
    <3>1. pc[p] = "delegated" /\ pc'[p] = "hrWrite" /\ covered' = covered
      BY <1>0, <2>5 DEF Delegated, Goto
    <3>. QED  BY <1>1, <2>0, <3>1
  <2>6. CASE pc[p] = "idle" /\ UNCHANGED <<pc, covered>>
    BY <1>1, <2>0, <2>6
  <2>7. CASE Balances(p) \/ CheckType(p) \/ Delegated(p)
    BY <2>1, <2>3, <2>4, <2>5, <2>7
  <2>8. CASE \E r \in Requests : Submit(p, r) \/ Cancel(p, r)
    <3>1. \E stage \in {"balances", "cancelWrite"} : \E a : Begin(p, stage, a)
      BY <2>8 DEF Submit, Cancel
    <3>. QED  BY <2>2, <3>1 DEF Stage
  <2>9. CASE \E r \in Requests, approve \in BOOLEAN : Decide(p, r, approve)
    <3>1. \E stage \in {"delegated", "managerWrite", "hrWrite", "adminWrite"} : \E a : Begin(p, stage, a)
      BY <2>9 DEF Decide, ManagerAction, HrAction, AdminAction
    <3>. QED  BY <2>2, <3>1 DEF Stage
  <2>10. CASE \E t \in Editable : DeleteType(p, t)
    <3>1. \E stage \in {"deleteWrite"} : \E a : Begin(p, stage, a)
      BY <2>10 DEF DeleteType
    <3>. QED  BY <2>2, <3>1 DEF Stage
  <2>11. CASE \/ Create(p) \/ ManagerWrite(p) \/ HrWrite(p) \/ AdminWrite(p)
              \/ CancelWrite(p) \/ DeleteWrite(p)
    BY <2>1, <2>11 DEF Create, ManagerWrite, HrWrite, AdminWrite, CancelWrite, DeleteWrite
  <2>12. CASE \/ \E t \in Editable, n \in DayChoices, s \in {"ACTIVE", "INACTIVE"} : EditType(p, t, n, s)
              \/ \E a \in Adjustable, n \in {-1, 1} : Adjust(p, a, n)
    BY <2>6, <2>12 DEF EditType, Adjust
  <2>. QED  BY <1>3, <2>7, <2>8, <2>9, <2>10, <2>11, <2>12 DEF Step
<1>4. CASE UNCHANGED vars
  <2>1. UNCHANGED rows /\ UNCHANGED <<pc, arg, covered>>
    BY <1>4 DEF vars, rows
  <2>2. \A r : Remaining(Account(r))' = Remaining(Account(r))
    BY <1>2, <2>1
  <2>. QED  BY <2>1, <2>2 DEF CoverInv
<1>. QED  BY <1>3, <1>4 DEF Next

\* Creating a covered request leaves the total of its account within the
\* allowance.
LEMMA CreateWithin ==
  ASSUME TypeInv, SerialInv, CoverInv, NEW p \in Procs, Create(p), NEW r \in Requests,
         request[r].status = "NONE", request'[r].status = "PENDING",
         TypeOf(r) \notin Overdraft, Year(Asked[r].last) = Account(r)[2]
  PROVE  Total(Counted(Account(r))') <= Allowance(Account(r))
<1>0. arg[p].r \in Requests
  BY DEF Create, TypeInv, FlightOK, Held
<1>1. r = arg[p].r
  BY <1>0 DEF Create, Write, TypeInv, RowsOK
<1>2. PICK a \in Accounts : a = Account(r)
  BY AccountType
<1>3. a[1] = TypeOf(r) /\ a[2] = Year(Asked[r].first) /\ a[1] \in Types
  BY <1>2, AccountType DEF Account
<1>4. Cost(r) <= Remaining(a) /\ Cost(r) >= 1 /\ Cost(r) \in Int
  BY <1>1, <1>2, CostType DEF Create, CoverInv
<1>5. PICK S \in SUBSET Requests : S = Counted(a)
  BY DEF Counted
<1>6. Allowance(a) \in Int
  BY <1>3 DEF Allowance, TypeInv, RowsOK
<1>7. PICK rest \in Int : rest = Allowance(a) - Total(S)
  BY <1>6, TotalType
<1>8. Cost(r) <= rest
  <2>1. CASE a[1] # Wfh /\ typeStatus[a[1]] # "ACTIVE"
    BY <1>4, <2>1 DEF Remaining
  <2>2. CASE ~(a[1] # Wfh /\ typeStatus[a[1]] # "ACTIVE")
    <3>1. Remaining(a) = Max({0, rest})
      BY <1>3, <1>5, <1>7, <2>2 DEF Remaining
    <3>2. Remaining(a) = IF rest >= 0 THEN rest ELSE 0
      BY <3>1, NeverBelowZero
    <3>. QED  BY <1>4, <3>2
  <2>. QED  BY <2>1, <2>2
<1>9. r \notin S
  BY <1>5 DEF Counted, Active
<1>10. Counted(a)' = S \cup {r}
  <2>1. \A q \in Requests \ {r} : request'[q] = request[q]
    BY <1>0, <1>1 DEF Create, Write, TypeInv, RowsOK
  <2>2. \A q \in Requests \ {r} : Active(q)' <=> Active(q)
    BY <2>1 DEF Active
  <2>3. Active(r)'
    BY DEF Active
  <2>4. TypeOf(r) \in Named[a[1]] /\ Year(Asked[r].last) = a[2] /\ (TypeOf(r) = Wfh => a[1] = Wfh)
    BY <1>2, <1>3, LeaveConstants
  <2>5. Counted(a)' = {q \in Requests :
                         /\ Active(q)'
                         /\ Year(Asked[q].first) = a[2] /\ Year(Asked[q].last) = a[2]
                         /\ TypeOf(q) \in Named[a[1]] /\ (TypeOf(q) = Wfh => a[1] = Wfh)}
    BY DEF Counted
  <2>. QED  BY <1>3, <1>5, <2>2, <2>3, <2>4, <2>5 DEF Counted
<1>11. Total(S \cup {r}) = Total(S) + Cost(r)
  BY <1>9, TotalMoves
<1>12. Total(S) \in Int
  BY TotalType
<1>13. Counted(Account(r))' = Counted(a)'
  BY <1>2 DEF Account
<1>. QED  BY <1>2, <1>4, <1>6, <1>7, <1>8, <1>10, <1>11, <1>12, <1>13

\* Only creating a request makes a row out of nothing.
LEMMA OnlyCreate ==
  ASSUME TypeInv, SerialInv, NEW p \in Procs, Step(p), NEW r \in Requests,
         request[r].status = "NONE", request'[r].status = "PENDING"
  PROVE  Create(p)
<1>1. CASE ManagerWrite(p) \/ HrWrite(p) \/ AdminWrite(p) \/ CancelWrite(p)
  <2>1. arg[p].r \in Requests /\ request[arg[p].r].status # "NONE"
    BY <1>1 DEF ManagerWrite, HrWrite, AdminWrite, CancelWrite, SerialInv, UpToDate, Open,
                TypeInv, FlightOK, Held
  <2>2. \A s \in Requests \ {arg[p].r} : request'[s] = request[s]
    BY <1>1 DEF ManagerWrite, HrWrite, AdminWrite, CancelWrite, Write, TypeInv, RowsOK
  <2>. QED  BY <2>1, <2>2
<1>2. CASE UNCHANGED request
  BY <1>2
<1>. QED  BY <1>1, <1>2 DEF Step, Submit, Cancel, Decide, ManagerAction, HrAction, AdminAction,
          Balances, CheckType, Delegated, EditType, Adjust, DeleteType, DeleteWrite, rows

\* Handlers that run one at a time accept a request only when the allowance of
\* its type covers it together with all that is counted for its year, overdraft
\* types excepted (Leave.AllowanceChecked).
THEOREM AllowanceAlwaysChecked ==
  ASSUME OneAtATime
  PROVE  Spec => AllowanceChecked
<1>1. TypeInv /\ SerialInv /\ [Next]_vars => SerialInv'
  BY SerialStep
<1>2. Init => CoverInv
  BY DEF Init, CoverInv
<1>3. TypeInv /\ CoverInv /\ [Next]_vars => CoverInv'
  BY CoverStep
<1>4. TypeInv /\ SerialInv /\ CoverInv /\ [Next]_vars
        => [\A r \in Requests :
              LET a == Account(r)
              IN /\ request[r].status = "NONE" /\ request'[r].status = "PENDING"
                 /\ TypeOf(r) \notin Overdraft /\ Year(Asked[r].last) = a[2]
                 => Total(Counted(a)') <= Allowance(a)]_vars
  BY OnlyCreate, CreateWithin DEF Next
<1>. QED  BY <1>1, <1>2, <1>3, <1>4, SerialInit, TypeInit, TypeStep, PTL DEF Spec, AllowanceChecked
=============================================================================
