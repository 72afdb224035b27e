------------------------------- MODULE Leave -------------------------------
(***************************************************************************)
(* The leave and work-from-home requests of one employee, the balances     *)
(* they are charged to and the people who decide them (leave.service.js).  *)
(* Balances and the overlap check are keyed by employee, so the employees  *)
(* of a company do not interact.                                           *)
(*                                                                         *)
(* A handler reads the request row, decides, and writes the row and the    *)
(* counters in one transaction; the decision is not repeated inside it.    *)
(* Days are counted in half-days, calendar days are numbered.              *)
(***************************************************************************)
EXTENDS Integers, FiniteSets, FiniteSetsExt

CONSTANTS
  Procs,      \* HTTP requests in flight
  Requests,   \* leave requests (leave_requests rows)
  Types,      \* leave types, and Wfh
  Wfh,        \* requestType WFH: its policy and balance behave like a type
  Asked,      \* Asked[r]: type, first and last day, and part of the day
  Named,      \* Named[t]: the types whose name contains the name of t
  Overdraft,  \* the types with allowNegativeBalance
  Weekend,    \* the Saturdays and Sundays
  YearEnd,    \* last day of year 1; later days belong to year 2
  FirstDays,  \* FirstDays[t]: the allocation to start from
  DayChoices, MaxAdjust, \* bounds of the exploration: new allocations, and the
  Editable, Adjustable   \* types and accounts that HR changes

Years == {1, 2}
Parts == {"FULL", "FIRST_HALF", "SECOND_HALF"}
Accounts == Types \X Years

ASSUME LeaveConstants ==
  /\ IsFiniteSet(Requests)
  /\ Wfh \in Types /\ Overdraft \subseteq Types \ {Wfh}
  /\ Asked \in [Requests -> [type : Types, first : Nat, last : Nat, part : Parts]]
  /\ Named \in [Types -> SUBSET Types] /\ \A t \in Types : t \in Named[t]
  /\ FirstDays \in [Types -> Nat]
  /\ YearEnd \in Nat /\ DayChoices \subseteq Nat /\ MaxAdjust \in Nat
  /\ Editable \subseteq Types /\ Adjustable \subseteq Accounts

VARIABLES
  request,         \* the rows: status, managerStatus, hrStatus
  pending, used,   \* the counters of the balance rows
  adjusted,        \* what HR added to or took from the balance rows
  days, typeStatus, \* leave types: defaultDays and isActive; DELETED for no row
  pc, arg, seen, covered  \* the requests in flight; those with enough days left

vars == <<request, pending, used, adjusted, days, typeStatus, pc, arg, seen, covered>>
rows == <<request, pending, used, adjusted, days, typeStatus>>

-----------------------------------------------------------------------------
(* The request as submitted.                                               *)

Year(day) == IF day <= YearEnd THEN 1 ELSE 2

\* calculateWorkingDays, in half-days: at least one full day.
WorkingDays(a) ==
  IF a.part # "FULL" THEN 1
  ELSE 2 * Max({1, Cardinality((a.first .. a.last) \ Weekend)})

Cost(r) == WorkingDays(Asked[r])
TypeOf(r) == Asked[r].type
Account(r) == <<TypeOf(r), Year(Asked[r].first)>>

\* Two halves of one day do not collide; everything else that meets does.
Complementary(a, b) ==
  /\ a.first = a.last /\ b.first = b.last
  /\ {a.part, b.part} = {"FIRST_HALF", "SECOND_HALF"}
Overlap(a, b) ==
  a.first <= b.last /\ b.first <= a.last /\ ~Complementary(a, b)

Clash == [r \in Requests |-> {s \in Requests \ {r} : Overlap(Asked[r], Asked[s])}]

-----------------------------------------------------------------------------
(* The rows and the requests in flight.                                    *)

Status == {"NONE", "PENDING", "APPROVED", "REJECTED", "CANCELLED"}
Stamp == {"Pending", "Approved", "Rejected", "Revoked", "Cancelled"}
Row == [status : Status, manager : Stamp, hr : Stamp]

Stage == {"idle", "balances", "type", "create", "delegated",
          "managerWrite", "hrWrite", "adminWrite", "cancelWrite", "deleteWrite"}
NoRequest == "no request"
NoType == "no type"
Arg == [r : Requests \cup {NoRequest}, approve : BOOLEAN, t : Types \cup {NoType}]

NoArg == [r |-> NoRequest, approve |-> FALSE, t |-> NoType]
NoRow == [status |-> "NONE", manager |-> "Pending", hr |-> "Pending"]

Active(r) == request[r].status \in {"PENDING", "APPROVED"}
Blocking(r) == request[r].status \notin {"NONE", "REJECTED", "CANCELLED"}

\* The handler has read the row of request r (if it is about one).
Begin(p, stage, a) ==
  /\ pc[p] = "idle"
  /\ pc' = [pc EXCEPT ![p] = stage]
  /\ arg' = [arg EXCEPT ![p] = a]
  /\ seen' = [seen EXCEPT ![p] = IF a.r \in Requests THEN request[a.r] ELSE NoRow]
  /\ UNCHANGED covered

Goto(p, stage) == pc' = [pc EXCEPT ![p] = stage] /\ UNCHANGED arg

Finish(p) ==
  /\ pc' = [pc EXCEPT ![p] = "idle"]
  /\ arg' = [arg EXCEPT ![p] = NoArg]
  /\ seen' = [seen EXCEPT ![p] = NoRow]
  /\ covered' = covered \ {p}

TypeOK ==
  /\ request \in [Requests -> Row]
  /\ pending \in [Accounts -> Int] /\ used \in [Accounts -> Int]
  /\ adjusted \in [Accounts -> Int]
  /\ days \in [Types -> Nat]
  /\ typeStatus \in [Types -> {"ACTIVE", "INACTIVE", "DELETED"}]
  /\ pc \in [Procs -> Stage]
  /\ arg \in [Procs -> Arg]
  /\ seen \in [Procs -> Row]
  /\ covered \in SUBSET Procs

Init ==
  /\ request = [r \in Requests |-> NoRow]
  /\ pending = [a \in Accounts |-> 0] /\ used = [a \in Accounts |-> 0]
  /\ adjusted = [a \in Accounts |-> 0]
  /\ days = FirstDays
  /\ typeStatus = [t \in Types |-> "ACTIVE"]
  /\ pc = [p \in Procs |-> "idle"]
  /\ arg = [p \in Procs |-> NoArg]
  /\ seen = [p \in Procs |-> NoRow]
  /\ covered = {}

-----------------------------------------------------------------------------
(* submitRequest: overlap, balances and type are read one after the other, *)
(* then the row is created and its days reserved.                          *)

\* (mutant) Half-days never collide.
ClashFull(r) == \E s \in Clash[r] : Blocking(s) /\ Asked[s].part = "FULL"
\* checkOverlap.
Clashes(r) == \E s \in Clash[r] : Blocking(s)

Submit(p, r) ==
  /\ request[r].status = "NONE" /\ \A q \in Procs : arg[q].r # r
  /\ ~Clashes(r)
  /\ Begin(p, "balances", [NoArg EXCEPT !.r = r])
  /\ UNCHANGED rows

\* The requests getBalances counts against type a[1] in year a[2]: those that
\* lie in the year, of the type or of one whose name contains the type's name.
Counted(a) ==
  {r \in Requests :
     /\ Active(r)
     /\ Year(Asked[r].first) = a[2] /\ Year(Asked[r].last) = a[2]
     /\ TypeOf(r) \in Named[a[1]] /\ (TypeOf(r) = Wfh => a[1] = Wfh)}

Total(S) == MapThenSumSet(Cost, S)

Allowance(a) == days[a[1]] + adjusted[a]

\* (mutant) Only the requests of the type itself are subtracted.
RemainingOfType(a) == Allowance(a) - Total({r \in Counted(a) : TypeOf(r) = a[1]})

\* getBalances: what is left, never below zero unless overdrafts are allowed.
\* An inactive type is not listed, and nothing is left of it.
Remaining(a) ==
  LET rest == Allowance(a) - Total(Counted(a))
  IN IF a[1] # Wfh /\ typeStatus[a[1]] # "ACTIVE" THEN 0
     ELSE IF a[1] \in Overdraft THEN rest ELSE Max({0, rest})

\* Whether WFH is enabled comes with the balances.
Balances(p) ==
  /\ pc[p] = "balances"
  /\ IF TypeOf(arg[p].r) = Wfh /\ typeStatus[Wfh] # "ACTIVE" THEN Finish(p)
     ELSE /\ Goto(p, "type")
          /\ covered' = IF Cost(arg[p].r) <= Remaining(Account(arg[p].r))
                         THEN covered \cup {p} ELSE covered
          /\ UNCHANGED seen
  /\ UNCHANGED rows

\* The type is read again: gone, inactive or short of days, and it is refused.
CheckType(p) ==
  LET r == arg[p].r
  IN /\ pc[p] = "type"
     /\ IF /\ TypeOf(r) = Wfh \/ typeStatus[TypeOf(r)] = "ACTIVE"
           /\ p \in covered \/ TypeOf(r) \in Overdraft
        THEN Goto(p, "create") /\ UNCHANGED <<seen, covered>>
        ELSE Finish(p)
     /\ UNCHANGED rows

\* Adds to the counters of the account of r; no row left, nothing to add to.
Move(r, toPending, toUsed) ==
  LET a == Account(r)
  IN IF typeStatus[TypeOf(r)] = "DELETED" THEN UNCHANGED <<pending, used>>
     ELSE /\ pending' = [pending EXCEPT ![a] = @ + toPending]
          /\ used' = [used EXCEPT ![a] = @ + toUsed]

Write(r, row) == request' = [request EXCEPT ![r] = row]

\* A type deleted meanwhile breaks the foreign key and rolls back.
Create(p) ==
  LET r == arg[p].r
  IN /\ pc[p] = "create"
     /\ IF typeStatus[TypeOf(r)] = "DELETED" THEN UNCHANGED <<request, pending, used>>
        ELSE /\ Write(r, [status |-> "PENDING", manager |-> "Pending", hr |-> "Pending"])
             /\ Move(r, Cost(r), 0)
     /\ Finish(p)
     /\ UNCHANGED <<adjusted, days, typeStatus>>

-----------------------------------------------------------------------------
(* Deciding.                                                               *)

\* (mutant) A rejected request can still be decided.
OpenRejected(row, approve) ==
  row.status \in {"PENDING", "REJECTED"} \/ (row.status = "APPROVED" /\ ~approve)

\* Approval needs a PENDING request; an APPROVED one can still be rejected.
Open(row, approve) ==
  row.status = "PENDING" \/ (row.status = "APPROVED" /\ ~approve)

\* An elevated caller of the manager route decides as HR, unless he is the
\* employee's own manager and has not signed yet.
Delegates(caller, row) ==
  /\ caller # "manager"
  /\ row.hr = "Pending" \/ row.status = "APPROVED"
  /\ row.manager = "Approved" \/ caller # "elevated manager"

ManagerMay(row, approve) ==
  Open(row, approve) /\ (approve => row.manager # "Approved")

Decision(r, approve) == [NoArg EXCEPT !.r = r, !.approve = approve]

ManagerAction(p, r, caller, approve) ==
  /\ request[r].status # "NONE"
  /\ IF Delegates(caller, request[r]) THEN Begin(p, "delegated", Decision(r, approve))
     ELSE ManagerMay(request[r], approve) /\ Begin(p, "managerWrite", Decision(r, approve))
  /\ UNCHANGED rows

HrMay(row, approve) == Open(row, approve) /\ (approve => row.hr = "Pending")

HrAction(p, r, approve) ==
  /\ HrMay(request[r], approve)
  /\ Begin(p, "hrWrite", Decision(r, approve))
  /\ UNCHANGED rows

\* hrAction called from the manager route reads the row a second time.
Delegated(p) ==
  /\ pc[p] = "delegated"
  /\ IF HrMay(request[arg[p].r], arg[p].approve)
     THEN /\ Goto(p, "hrWrite")
          /\ seen' = [seen EXCEPT ![p] = request[arg[p].r]]
          /\ UNCHANGED covered
     ELSE Finish(p)
  /\ UNCHANGED rows

AdminAction(p, r, approve) ==
  /\ Open(request[r], approve)
  /\ Begin(p, "adminWrite", Decision(r, approve))
  /\ UNCHANGED rows

\* (mutant) A revoked approval gives nothing back.
KeepCharge(r, row) == IF row.status = "APPROVED" THEN Move(r, 0, 0) ELSE Move(r, 0 - Cost(r), 0)

\* What was reserved or used, by the row as it was read, is given back.
Refund(r, row) ==
  IF row.status = "APPROVED" THEN Move(r, 0, 0 - Cost(r)) ELSE Move(r, 0 - Cost(r), 0)

\* From reserved to used.
Charge(r) == Move(r, 0 - Cost(r), Cost(r))

\* (mutant) The manager's stamp is forgotten.
ApprovedByHr == [status |-> "APPROVED", manager |-> "Pending", hr |-> "Approved"]
Approved == [status |-> "APPROVED", manager |-> "Approved", hr |-> "Approved"]
RejectedAs(manager, hr) == [status |-> "REJECTED", manager |-> manager, hr |-> hr]

\* A manager's approval leaves the request PENDING for HR.
ManagerWrite(p) ==
  LET r == arg[p].r
      hr == IF seen[p].status = "APPROVED" THEN "Revoked" ELSE "Rejected"
  IN /\ pc[p] = "managerWrite"
     /\ IF arg[p].approve
        THEN /\ Write(r, [status |-> "PENDING", manager |-> "Approved", hr |-> "Pending"])
             /\ UNCHANGED <<pending, used>>
        ELSE Write(r, RejectedAs("Rejected", hr)) /\ Refund(r, seen[p])
     /\ Finish(p)
     /\ UNCHANGED <<adjusted, days, typeStatus>>

HrWrite(p) ==
  LET r == arg[p].r
      manager == IF seen[p].status = "APPROVED" THEN "Revoked"
                 ELSE IF seen[p].manager = "Approved" THEN "Approved" ELSE "Rejected"
  IN /\ pc[p] = "hrWrite"
     /\ IF arg[p].approve THEN Write(r, Approved) /\ Charge(r)
        ELSE Write(r, RejectedAs(manager, "Rejected")) /\ Refund(r, seen[p])
     /\ Finish(p)
     /\ UNCHANGED <<adjusted, days, typeStatus>>

AdminWrite(p) ==
  LET r == arg[p].r
      stamp == IF seen[p].status = "APPROVED" THEN "Revoked" ELSE "Rejected"
  IN /\ pc[p] = "adminWrite"
     /\ IF arg[p].approve THEN Write(r, Approved) /\ Charge(r)
        ELSE Write(r, RejectedAs(stamp, stamp)) /\ Refund(r, seen[p])
     /\ Finish(p)
     /\ UNCHANGED <<adjusted, days, typeStatus>>

\* cancelRequest, by the employee.
Cancel(p, r) ==
  /\ request[r].status = "PENDING"
  /\ Begin(p, "cancelWrite", [NoArg EXCEPT !.r = r])
  /\ UNCHANGED rows

CancelWrite(p) ==
  LET r == arg[p].r
  IN /\ pc[p] = "cancelWrite"
     /\ Write(r, [status |-> "CANCELLED", manager |-> "Cancelled", hr |-> "Cancelled"])
     /\ Move(r, 0 - Cost(r), 0)
     /\ Finish(p)
     /\ UNCHANGED <<adjusted, days, typeStatus>>

-----------------------------------------------------------------------------
(* Administration.                                                         *)

\* updateLeaveType, toggleLeaveTypeStatus, updateWfhPolicy.
EditType(p, t, n, s) ==
  /\ pc[p] = "idle" /\ typeStatus[t] # "DELETED"
  /\ days' = [days EXCEPT ![t] = n]
  /\ typeStatus' = [typeStatus EXCEPT ![t] = s]
  /\ UNCHANGED <<request, pending, used, adjusted, pc, arg, seen, covered>>

\* adjustEmployeeBalance: any amount, also below what is already taken.
Adjust(p, a, n) ==
  /\ pc[p] = "idle" /\ typeStatus[a[1]] # "DELETED"
  /\ adjusted[a] + n \in (0 - MaxAdjust) .. MaxAdjust
  /\ adjusted' = [adjusted EXCEPT ![a] = @ + n]
  /\ UNCHANGED <<request, pending, used, days, typeStatus, pc, arg, seen, covered>>

\* (mutant) The requests of the type are not looked at.
NoneLooked(t) == TRUE
\* No request, whatever its status, was ever made for the type.
Unused(t) == \A r \in Requests : request[r].status # "NONE" => TypeOf(r) # t

\* deleteLeaveType counts the requests, then deletes type and balances.
DeleteType(p, t) ==
  /\ t # Wfh /\ typeStatus[t] # "DELETED" /\ Unused(t)
  /\ Begin(p, "deleteWrite", [NoArg EXCEPT !.t = t])
  /\ UNCHANGED rows

Cleared(counter, t) == [a \in Accounts |-> IF a[1] = t THEN 0 ELSE counter[a]]

DeleteWrite(p) ==
  LET t == arg[p].t
  IN /\ pc[p] = "deleteWrite"
     /\ typeStatus' = [typeStatus EXCEPT ![t] = "DELETED"]
     /\ pending' = Cleared(pending, t) /\ used' = Cleared(used, t)
     /\ adjusted' = Cleared(adjusted, t)
     /\ Finish(p)
     /\ UNCHANGED <<request, days>>

-----------------------------------------------------------------------------

Decide(p, r, approve) ==
  \/ \E caller \in {"manager", "elevated manager", "elevated"} :
       ManagerAction(p, r, caller, approve)
  \/ HrAction(p, r, approve) \/ AdminAction(p, r, approve)

Step(p) ==
  \/ \E r \in Requests : Submit(p, r) \/ Cancel(p, r)
  \/ \E r \in Requests, approve \in BOOLEAN : Decide(p, r, approve)
  \/ Balances(p) \/ CheckType(p) \/ Create(p) \/ Delegated(p)
  \/ ManagerWrite(p) \/ HrWrite(p) \/ AdminWrite(p) \/ CancelWrite(p)
  \/ \E t \in Editable, n \in DayChoices, s \in {"ACTIVE", "INACTIVE"} : EditType(p, t, n, s)
  \/ \E a \in Adjustable, n \in {-1, 1} : Adjust(p, a, n)
  \/ \E t \in Editable : DeleteType(p, t)
  \/ DeleteWrite(p)

Next == \E p \in Procs : Step(p)

Spec == Init /\ [][Next]_vars

-----------------------------------------------------------------------------
(* Properties.                                                             *)

\* The counters of every balance row are the costs of the requests behind
\* them: `pending` of the undecided ones, `used` of the granted ones.
CountersMatchRequests ==
  \A a \in Accounts : typeStatus[a[1]] # "DELETED" =>
    LET mine(s) == {r \in Requests : request[r].status = s /\ Account(r) = a}
    IN pending[a] = Total(mine("PENDING")) /\ used[a] = Total(mine("APPROVED"))

\* No two requests in force are for the same time.
NoDoubleBooking ==
  \A r \in Requests : Active(r) => \A s \in Clash[r] : ~Active(s)

\* A request is only accepted when the allowance of its type covers it and all
\* that getBalances counts for its year, overdraft types excepted.
AllowanceChecked ==
  [][\A r \in Requests :
       LET a == Account(r)
       IN /\ request[r].status = "NONE" /\ request'[r].status = "PENDING"
          /\ TypeOf(r) \notin Overdraft /\ Year(Asked[r].last) = a[2]
          => Total(Counted(a)') <= Allowance(a)]_vars

\* The two stamps of a request never contradict its status, whatever the
\* order of the decisions.
StampsAgree ==
  \A r \in Requests :
    /\ request[r].status = "PENDING"
         => request[r].hr = "Pending" /\ request[r].manager \in {"Pending", "Approved"}
    /\ request[r].status = "APPROVED" => request[r].manager = "Approved" /\ request[r].hr = "Approved"
    /\ request[r].status = "REJECTED"
         => /\ request[r].hr \in {"Rejected", "Revoked"}
            /\ request[r].manager \in {"Rejected", "Revoked", "Approved"}

\* A type in use is never deleted under the requests that name it.
NoOrphans ==
  \A r \in Requests : request[r].status # "NONE" => typeStatus[TypeOf(r)] # "DELETED"

\* Every step of every handler is a step of the promised life of a request.
Lifecycle ==
  INSTANCE LeaveLifecycle WITH status <- [r \in Requests |-> request[r].status]
LifecycleSpec == Lifecycle!Spec

-----------------------------------------------------------------------------
(* Why all of this holds when the handlers of an employee's requests run   *)
(* one at a time: what a handler has read is still so when it writes.      *)

OneAtATime == \A p, q \in Procs : p = q

UpToDate(p) ==
  LET r == arg[p].r
  IN /\ pc[p] \in {"balances", "type", "create"} => request[r].status = "NONE" /\ ~Clashes(r)
     /\ pc[p] \in {"managerWrite", "hrWrite", "adminWrite"}
          => request[r] = seen[p] /\ Open(seen[p], arg[p].approve)
     /\ pc[p] = "cancelWrite" => request[r].status = "PENDING"
     /\ pc[p] = "deleteWrite" => Unused(arg[p].t)

SerialInv == NoDoubleBooking /\ NoOrphans /\ \A p \in Procs : UpToDate(p)
=============================================================================
