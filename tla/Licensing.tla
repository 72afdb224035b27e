----------------------------- MODULE Licensing -----------------------------
(***************************************************************************)
(* The seats a company has bought, the users that occupy them, and the     *)
(* money that moves when seats are bought, handed back or renewed          *)
(* (license.service.js, employee.controller.js, platform.controller.js).   *)
(*                                                                         *)
(* A handler is a sequence of database statements at READ COMMITTED: what  *)
(* it read stays in its local variables while other handlers commit, and   *)
(* its writes are unconditional updates by primary key.  A process of the  *)
(* model is one HTTP request in flight; pc says which statement it runs    *)
(* next, arg holds the request's parameters and seen what it has read.     *)
(***************************************************************************)
EXTENDS Naturals, Sequences, FiniteSets, FiniteSetsExt

CONSTANTS
  Users,          \* e-mail addresses that may get an account in the company
  Founders,       \* the accounts the activation of the company creates
  Admin,          \* the signed-in account behind the requests; never exited
  Requests,       \* licence requests (license_requests rows)
  Seats,          \* Seats[r]: the seats request r asks for
  HrProcs,        \* requests that invite, reactivate, restore or retract
  LoginProcs,     \* requests that turn an invited account ACTIVE
  FinanceProcs,   \* requests that pay, reject or renew
  PlatformProcs,  \* requests of the operator console
  Failures,       \* TRUE: a statement may fail and end its handler
  InitialLimit,   \* seats bought at registration
  DefaultSeats,   \* the 10 in `tenant.licenseLimit || 10`
  SeatPrice,      \* gross price of a seat for a year
  UnitCredit,     \* credit for a seat handed back
  MaxLimit, MaxTerms, MaxRetracted   \* bounds of the exploration

Procs == HrProcs \cup LoginProcs \cup FinanceProcs \cup PlatformProcs

ASSUME LicensingConstants ==
  /\ IsFiniteSet(Users) /\ Founders \subseteq Users /\ Admin \in Founders
  /\ IsFiniteSet(Requests)
  /\ Seats \in [Requests -> Nat \ {0}]
  /\ Failures \in BOOLEAN
  /\ InitialLimit \in Nat /\ DefaultSeats \in Nat \ {0}
  /\ SeatPrice \in Nat \ {0} /\ UnitCredit \in Nat
  /\ MaxLimit \in Nat /\ MaxTerms \in Nat /\ MaxRetracted \in Nat

VARIABLES
  status, deleted,   \* tenant_users: status and isDeleted
  limit, credit,     \* tenants: licenseLimit and creditBalance
  terms,             \* subscriptions, oldest first
  request,           \* license_requests: status
  ledger,            \* wallet_transactions: the totals of its rows
  pc, arg, seen      \* the requests in flight

vars == <<status, deleted, limit, credit, terms, request, ledger, pc, arg, seen>>
rows == <<status, deleted, limit, credit, terms, request, ledger>>

-----------------------------------------------------------------------------
(* The rows.                                                               *)

UserStatus == {"NONE", "INVITED", "ACTIVE", "EXITED"}
RequestStatus == {"NONE", "PENDING_FINANCE_APPROVAL", "PAID", "REJECTED"}
Term == [seats : Nat, active : BOOLEAN, renewedFrom : Nat]

\* A seat is taken by every account that is neither deleted nor exited.
Consumers == {u \in Users : ~deleted[u] /\ status[u] \in {"INVITED", "ACTIVE"}}
Used == Cardinality(Consumers)

\* The newest ACTIVE subscription, 0 when there is none.
ActiveTerms(ts) == {i \in DOMAIN ts : ts[i].active}
Newest(ts, i) == i \in ActiveTerms(ts) /\ \A j \in ActiveTerms(ts) : j <= i
Latest(ts) == IF \E i \in DOMAIN ts : Newest(ts, i)
              THEN CHOOSE i \in DOMAIN ts : Newest(ts, i) ELSE 0

Larger(a, b) == IF a < b THEN b ELSE a
Smaller(a, b) == IF a < b THEN a ELSE b

(* The requests in flight. *)

Stage == {"idle", "inviteCount", "inviteWrite", "reactivateCount", "reactivateWrite",
          "retractCount", "retractWrite", "loginWrite",
          "payCheck", "payMark", "payLimit", "paySub", "rejectWrite",
          "renewCount", "renewWrite", "setCount", "setWrite", "reviveWrite"}
NoRequest == "no request"
Arg == [us : SUBSET Users, n : Nat, r : Requests \cup {NoRequest}]
Seen == [limit : Nat, used : Nat, credit : Nat, term : Nat]

NoArg == [us |-> {}, n |-> 0, r |-> NoRequest]
NoSeen == [limit |-> 0, used |-> 0, credit |-> 0, term |-> 0]

\* The request starts with the statement that reads the tenant row.
Begin(p, stage, a) ==
  /\ pc[p] = "idle"
  /\ pc' = [pc EXCEPT ![p] = stage]
  /\ arg' = [arg EXCEPT ![p] = a]
  /\ seen' = [seen EXCEPT ![p] = [limit |-> limit, used |-> 0,
                                  credit |-> credit, term |-> Latest(terms)]]

Goto(p, stage) == pc' = [pc EXCEPT ![p] = stage] /\ UNCHANGED arg

Finish(p) ==
  /\ pc' = [pc EXCEPT ![p] = "idle"]
  /\ arg' = [arg EXCEPT ![p] = NoArg]
  /\ seen' = [seen EXCEPT ![p] = NoSeen]

\* The count of the occupied seats, kept for the statement at `stage`.
Counted(p, stage) ==
  Goto(p, stage) /\ seen' = [seen EXCEPT ![p].used = Used]

TypeOK ==
  /\ status \in [Users -> UserStatus]
  /\ deleted \in [Users -> BOOLEAN]
  /\ limit \in Nat /\ credit \in Nat
  /\ terms \in Seq(Term)
  /\ request \in [Requests -> RequestStatus]
  /\ ledger \in [credited : Nat, redeemed : Nat, seats : Nat]
  /\ pc \in [Procs -> Stage]
  /\ arg \in [Procs -> Arg]
  /\ seen \in [Procs -> Seen]

\* A company just activated by HR: its first accounts and its first term.
Init ==
  /\ status = [u \in Users |-> IF u \in Founders THEN "ACTIVE" ELSE "NONE"]
  /\ deleted = [u \in Users |-> FALSE]
  /\ limit = InitialLimit /\ credit = 0
  /\ terms = <<[seats |-> InitialLimit, active |-> TRUE, renewedFrom |-> 0]>>
  /\ request = [r \in Requests |-> "NONE"]
  /\ ledger = [credited |-> 0, redeemed |-> 0, seats |-> 0]
  /\ pc = [p \in Procs |-> "idle"]
  /\ arg = [p \in Procs |-> NoArg]
  /\ seen = [p \in Procs |-> NoSeen]

-----------------------------------------------------------------------------
(* Taking seats: read the limit, count, create or update in one            *)
(* transaction whose statements see what others commit in between.         *)

\* inviteEmployee and bulkInviteEmployees: addresses nobody has yet.
Invite(p, us) ==
  /\ us # {} /\ \A u \in us : status[u] = "NONE"
  /\ Begin(p, "inviteCount", [NoArg EXCEPT !.us = us])
  /\ UNCHANGED rows

\* reactivateEmployee and restoreExEmployee: an account that was exited.
Reactivate(p, u) ==
  /\ status[u] # "NONE" /\ (deleted[u] \/ status[u] = "EXITED")
  /\ Begin(p, "reactivateCount", [NoArg EXCEPT !.us = {u}])
  /\ UNCHANGED rows

\* (mutant) The last seat is given twice.
FitsAtLimit(p) == Used <= seen[p].limit

\* assertLicenseAvailable and assertBulkLicenseAvailable.
Fits(p) == Used + Cardinality(arg[p].us) <= seen[p].limit

AssertLicense(p) ==
  /\ pc[p] \in {"inviteCount", "reactivateCount"}
  /\ IF Fits(p)
     THEN Counted(p, IF pc[p] = "inviteCount" THEN "inviteWrite" ELSE "reactivateWrite")
     ELSE Finish(p)
  /\ UNCHANGED rows

\* The rows are created; an address taken meanwhile rolls everything back.
InviteCommit(p) ==
  /\ pc[p] = "inviteWrite"
  /\ status' = IF \A u \in arg[p].us : status[u] = "NONE"
               THEN [u \in Users |-> IF u \in arg[p].us THEN "INVITED" ELSE status[u]]
               ELSE status
  /\ Finish(p)
  /\ UNCHANGED <<deleted, limit, credit, terms, request, ledger>>

ReactivateCommit(p) ==
  /\ pc[p] = "reactivateWrite"
  /\ status' = [u \in Users |-> IF u \in arg[p].us THEN "INVITED" ELSE status[u]]
  /\ deleted' = [u \in Users |-> IF u \in arg[p].us THEN FALSE ELSE deleted[u]]
  /\ Finish(p)
  /\ UNCHANGED <<limit, credit, terms, request, ledger>>

-----------------------------------------------------------------------------
(* An account becomes ACTIVE: login, onboarding or HR's verification. The  *)
(* row is read before the password is compared and written after it.       *)

Login(p, u) ==
  /\ ~deleted[u] /\ status[u] \in {"INVITED", "ACTIVE"}
  /\ Begin(p, "loginWrite", [NoArg EXCEPT !.us = {u}])
  /\ UNCHANGED rows

LoginCommit(p) ==
  /\ pc[p] = "loginWrite"
  /\ status' = [u \in Users |-> IF u \in arg[p].us THEN "ACTIVE" ELSE status[u]]
  /\ Finish(p)
  /\ UNCHANGED <<deleted, limit, credit, terms, request, ledger>>

(* Giving seats up.  These handlers write the same values whatever they    *)
(* read before, so one step stands for them.                               *)

\* exitEmployee, deleteEmployee, createExEmployee, completeExit.
Exit(u) ==
  /\ u # Admin /\ status[u] # "NONE"
  /\ status' = [status EXCEPT ![u] = "EXITED"]
  /\ deleted' = [deleted EXCEPT ![u] = TRUE]
  /\ UNCHANGED <<limit, credit, terms, request, ledger, pc, arg, seen>>

\* blockExitAccess and deactivatePlatformUser: EXITED, but not deleted.
Block(u) ==
  /\ u # Admin /\ status[u] \in {"INVITED", "ACTIVE"}
  /\ status' = [status EXCEPT ![u] = "EXITED"]
  /\ UNCHANGED <<deleted, limit, credit, terms, request, ledger, pc, arg, seen>>

-----------------------------------------------------------------------------
(* Handing unused seats back for wallet credit (retractUnusedLicenses).    *)

Retract(p, n) ==
  /\ n > 0 /\ ledger.seats + n <= MaxRetracted
  /\ Begin(p, "retractCount", [NoArg EXCEPT !.n = n])
  /\ UNCHANGED rows

\* (mutant) The seats are not compared with the ones in use.
RetractUnchecked(p) ==
  pc[p] = "retractCount" /\ Counted(p, "retractWrite") /\ UNCHANGED rows

RetractCount(p) ==
  /\ pc[p] = "retractCount"
  /\ IF Used + arg[p].n <= seen[p].limit THEN Counted(p, "retractWrite") ELSE Finish(p)
  /\ UNCHANGED rows

\* (mutant) The subscription is forgotten.
WithoutSeats(ts, i, n) == ts

\* Sets the seats of term i (no term: nothing to set).
WithSeats(ts, i, n) == IF i = 0 THEN ts ELSE [ts EXCEPT ![i].seats = n]

\* (mutant) The credit replaces the balance instead of adding to it.
CreditReplaced(s, amount) == amount
CreditAfter(s, amount) == s.credit + amount

RetractCommit(p) ==
  LET newLimit == seen[p].limit - arg[p].n
      amount == arg[p].n * UnitCredit
  IN /\ pc[p] = "retractWrite"
     /\ limit' = newLimit
     /\ credit' = CreditAfter(seen[p], amount)
     /\ terms' = WithSeats(terms, seen[p].term, newLimit)
     /\ ledger' = [ledger EXCEPT !.credited = @ + amount, !.seats = @ + arg[p].n]
     /\ Finish(p)
     /\ UNCHANGED <<status, deleted, request>>

-----------------------------------------------------------------------------
(* Buying seats.  requestTenantLicenses is one insert; payAndAddLicenses   *)
(* is five statements and no transaction.                                  *)

\* A row not created yet, and not about to be created by a direct purchase.
Fresh(r) == request[r] = "NONE" /\ \A p \in Procs : arg[p].r # r

RequestLicenses(r) ==
  /\ Fresh(r)
  /\ request' = [request EXCEPT ![r] = "PENDING_FINANCE_APPROVAL"]
  /\ UNCHANGED <<status, deleted, limit, credit, terms, ledger, pc, arg, seen>>

\* The bounds of the exploration: a payment may open a subscription.
WithinBounds(r) ==
  limit + Seats[r] <= MaxLimit /\ (Latest(terms) = 0 => Len(terms) < MaxTerms)

Pay(p, r) ==
  /\ request[r] # "NONE" /\ WithinBounds(r)
  /\ Begin(p, "payCheck", [NoArg EXCEPT !.n = Seats[r], !.r = r])
  /\ UNCHANGED rows

\* A direct purchase, without a request of HR.  The row it creates is PAID from
\* the start; no other request can name that row before.
Buy(p, r) ==
  /\ Fresh(r) /\ WithinBounds(r)
  /\ Begin(p, "payMark", [NoArg EXCEPT !.n = Seats[r], !.r = r])
  /\ UNCHANGED rows

\* Only PAID is refused: a REJECTED request can still be paid.
PayCheck(p) ==
  /\ pc[p] = "payCheck"
  /\ IF request[arg[p].r] = "PAID" THEN Finish(p)
     ELSE Goto(p, "payMark") /\ UNCHANGED seen
  /\ UNCHANGED rows

PayMark(p) ==
  /\ pc[p] = "payMark"
  /\ request' = [request EXCEPT ![arg[p].r] = "PAID"]
  /\ Goto(p, "payLimit") /\ UNCHANGED seen
  /\ UNCHANGED <<status, deleted, limit, credit, terms, ledger>>

\* (mutant) The order is taken for the new capacity.
LimitReplaced(s, n) == Larger(s.limit, n)
\* The limit read by the first statement plus the seats, an absolute value.
LimitAfter(s, n) == s.limit + n

PayLimit(p) ==
  /\ pc[p] = "payLimit"
  /\ limit' = LimitAfter(seen[p], arg[p].n)
  /\ Goto(p, "paySub") /\ UNCHANGED seen
  /\ UNCHANGED <<status, deleted, credit, terms, request, ledger>>

PaySub(p) ==
  LET newLimit == LimitAfter(seen[p], arg[p].n)
  IN /\ pc[p] = "paySub"
     /\ terms' = IF seen[p].term # 0 THEN WithSeats(terms, seen[p].term, newLimit)
                 ELSE Append(terms, [seats |-> newLimit, active |-> TRUE, renewedFrom |-> 0])
     /\ Finish(p)
     /\ UNCHANGED <<status, deleted, limit, credit, request, ledger>>

\* rejectLicenseRequest: the check, then an unconditional REJECTED.
Reject(p, r) ==
  /\ request[r] \notin {"NONE", "PAID"}
  /\ Begin(p, "rejectWrite", [NoArg EXCEPT !.r = r])
  /\ UNCHANGED rows

RejectCommit(p) ==
  /\ pc[p] = "rejectWrite"
  /\ request' = [request EXCEPT ![arg[p].r] = "REJECTED"]
  /\ Finish(p)
  /\ UNCHANGED <<status, deleted, limit, credit, terms, ledger>>

-----------------------------------------------------------------------------
(* Renewing for a year (renewTenantSubscription): tenant and head count    *)
(* are read before the transaction, the bill computed from them.           *)

Renew(p) ==
  /\ Len(terms) < MaxTerms
  /\ Begin(p, "renewCount", NoArg)
  /\ UNCHANGED rows

RenewCount(p) ==
  /\ pc[p] = "renewCount" /\ Counted(p, "renewWrite") /\ UNCHANGED rows

RenewSeats(s) == Larger(IF s.limit = 0 THEN DefaultSeats ELSE s.limit, s.used)

\* (mutant) The column is not unique.
NeverRenewed(i) == FALSE
\* renewedFromId is unique: renewing a term a second time rolls back.
AlreadyRenewed(i) == i # 0 /\ \E j \in DOMAIN terms : terms[j].renewedFrom = i

Expire(ts, i) == IF i = 0 THEN ts ELSE [ts EXCEPT ![i].active = FALSE]

Redeem(s) == Smaller(s.credit, RenewSeats(s) * SeatPrice)

RenewCommit(p) ==
  LET n == RenewSeats(seen[p])
      redeemed == Redeem(seen[p])
      old == seen[p].term
  IN /\ pc[p] = "renewWrite"
     /\ IF AlreadyRenewed(old) THEN UNCHANGED <<limit, credit, terms, ledger>>
        ELSE /\ limit' = n
             /\ credit' = seen[p].credit - redeemed
             /\ terms' = Append(Expire(terms, old),
                                [seats |-> n, active |-> TRUE, renewedFrom |-> old])
             /\ ledger' = [ledger EXCEPT !.redeemed = @ + redeemed]
     /\ Finish(p)
     /\ UNCHANGED <<status, deleted, request>>

-----------------------------------------------------------------------------
(* A subscription ends.  Both handlers write constants to one row, so one  *)
(* step stands for each, and no statement puts a term back into force.     *)

\* cancelSubscription, of the operator console, of any term in force.
CancelSubscription(i) ==
  /\ terms[i].active
  /\ terms' = Expire(terms, i)
  /\ UNCHANGED <<status, deleted, limit, credit, request, ledger, pc, arg, seen>>

\* runSubscriptionLifecycleCheck: a term in force is found past its end.
LapseSubscription(i) ==
  /\ terms[i].active
  /\ terms' = Expire(terms, i)
  /\ UNCHANGED <<status, deleted, limit, credit, request, ledger, pc, arg, seen>>

-----------------------------------------------------------------------------
(* The operator console.                                                   *)

\* updateTenantLicences: the new limit is compared with the ACTIVE users only.
SetLicences(p, n) ==
  /\ n # 0
  /\ Begin(p, "setCount", [NoArg EXCEPT !.n = n])
  /\ UNCHANGED rows

ActiveUsers == {u \in Users : ~deleted[u] /\ status[u] = "ACTIVE"}

SetCount(p) ==
  /\ pc[p] = "setCount"
  /\ IF Cardinality(ActiveUsers) <= arg[p].n
     THEN Goto(p, "setWrite") /\ UNCHANGED seen ELSE Finish(p)
  /\ UNCHANGED rows

SetCommit(p) ==
  /\ pc[p] = "setWrite"
  /\ limit' = arg[p].n
  /\ Finish(p)
  /\ UNCHANGED <<status, deleted, credit, terms, request, ledger>>

\* reactivatePlatformUser: back to ACTIVE, no licence is asserted.
Revive(p, u) ==
  /\ status[u] = "EXITED" /\ ~deleted[u]
  /\ Begin(p, "reviveWrite", [NoArg EXCEPT !.us = {u}])
  /\ UNCHANGED rows

ReviveCommit(p) ==
  /\ pc[p] = "reviveWrite"
  /\ status' = [u \in Users |-> IF u \in arg[p].us THEN "ACTIVE" ELSE status[u]]
  /\ Finish(p)
  /\ UNCHANGED <<deleted, limit, credit, terms, request, ledger>>

-----------------------------------------------------------------------------

\* A statement throws or the server stops: the handler ends where it is, an
\* open transaction is rolled back, and what was committed before it stays.
Fail(p) ==
  /\ Failures /\ pc[p] # "idle"
  /\ Finish(p) /\ UNCHANGED rows

HrStep(p) ==
  \/ \E us \in SUBSET Users : Invite(p, us)
  \/ \E u \in Users : Reactivate(p, u)
  \/ \E n \in 1..MaxRetracted : Retract(p, n)
  \/ AssertLicense(p) \/ InviteCommit(p) \/ ReactivateCommit(p)
  \/ RetractCount(p) \/ RetractCommit(p)

LoginStep(p) == (\E u \in Users : Login(p, u)) \/ LoginCommit(p)

FinanceStep(p) ==
  \/ \E r \in Requests : Pay(p, r) \/ Buy(p, r) \/ Reject(p, r)
  \/ Renew(p)
  \/ PayCheck(p) \/ PayMark(p) \/ PayLimit(p) \/ PaySub(p)
  \/ RejectCommit(p) \/ RenewCount(p) \/ RenewCommit(p)

PlatformStep(p) ==
  \/ \E n \in 0..MaxLimit : SetLicences(p, n)
  \/ \E u \in Users : Revive(p, u)
  \/ SetCount(p) \/ SetCommit(p) \/ ReviveCommit(p)

Next ==
  \/ \E p \in HrProcs : HrStep(p)
  \/ \E p \in LoginProcs : LoginStep(p)
  \/ \E p \in FinanceProcs : FinanceStep(p)
  \/ \E p \in PlatformProcs : PlatformStep(p)
  \/ \E p \in Procs : Fail(p)
  \/ \E u \in Users : Exit(u) \/ Block(u)
  \/ \E r \in Requests : RequestLicenses(r)
  \/ \E i \in DOMAIN terms : CancelSubscription(i) \/ LapseSubscription(i)

Spec == Init /\ [][Next]_vars

-----------------------------------------------------------------------------
(* Properties.                                                             *)

\* No more accounts hold a seat than the company has bought: what
\* assertLicenseAvailable exists to guarantee.
SeatsWithinLimit == Used <= limit

\* The wallet balance kept on the tenant row is the sum of the wallet ledger:
\* every handler that writes one writes the other, and from the same numbers.
WalletMatchesLedger == credit + ledger.redeemed = ledger.credited

\* Subscriptions opened when none was in force, rather than by renewing one.
Begun == {i \in DOMAIN terms : terms[i].renewedFrom = 0}

\* However renewals, payments, retractions and cancellations overlap, renewing
\* never adds a subscription to those in force: there are never more of them
\* than were begun anew, and just one where every other renewed its predecessor
\* (renewTenantSubscription expires the term it read, maybe long ago).
OneTermPerChain == Cardinality(ActiveTerms(terms)) <= Cardinality(Begun)

\* The company has at most one subscription in force, and it sells as many seats
\* as the tenant row grants, except while a payment is between those two writes.
SubscriptionFollowsLimit ==
  /\ \A i, j \in ActiveTerms(terms) : i = j
  /\ (\A p \in Procs : pc[p] # "paySub")
       => \A i \in ActiveTerms(terms) : terms[i].seats = limit

\* The seats that some requests ask for.
SeatsOf(rs) == MapThenSumSet(LAMBDA r : Seats[r], rs)

\* Every seat of the limit is accounted for: bought at registration or by a
\* paid request, less the seats handed back (no payment half way).
CapacityAccounted ==
  (\A p \in Procs : pc[p] # "payLimit")
    => limit + ledger.seats = InitialLimit + SeatsOf({r \in Requests : request[r] = "PAID"})

\* Every step of every handler is a step of the abstract seat pool, or none.
Pool == INSTANCE SeatPool WITH cap <- limit, used <- Used
SeatPoolSpec == Pool!Spec

-----------------------------------------------------------------------------
(* Why seats stay within the limit when at most one request takes or hands *)
(* back seats, at most one buys or renews, and the two overlap: the first  *)
(* has read a limit no larger than the present one, the second one no      *)
(* smaller, and the seats about to be taken are still free.                *)

ReadLow  == {"inviteCount", "inviteWrite", "reactivateCount", "reactivateWrite",
             "retractCount", "retractWrite"}
ReadHigh == {"payCheck", "payMark", "payLimit", "renewCount", "renewWrite"}

Lanes ==
  /\ \A p, q \in HrProcs : p = q
  /\ \A p, q \in FinanceProcs : p = q
  /\ LoginProcs \subseteq HrProcs /\ PlatformProcs = {}
  /\ Cardinality(Founders) <= InitialLimit

HrInv(p) ==
  /\ pc[p] \in ReadLow => seen[p].limit <= limit
  /\ pc[p] \in {"inviteWrite", "reactivateWrite"}
       => Used + Cardinality(arg[p].us) <= seen[p].limit
  /\ pc[p] = "retractWrite" => Used + arg[p].n <= seen[p].limit
  /\ pc[p] = "loginWrite"
       => Cardinality(Consumers \cup {u \in arg[p].us : ~deleted[u]}) <= limit

LaneInv ==
  /\ SeatsWithinLimit
  /\ \A p \in HrProcs : HrInv(p)
  /\ \A p \in FinanceProcs : pc[p] \in ReadHigh => limit <= seen[p].limit
=============================================================================
