--------------------------- MODULE Registrations ---------------------------
(***************************************************************************)
(* Companies that register, are approved by Finance and activated by HR    *)
(* (registration.controller.js, finance.controller.js, hr.controller.js),  *)
(* composed with Invoices through the coupon that both redeem.  The code   *)
(* by mail that precedes a registration is left out, and so is the status  *)
(* PENDING_CHEQUE_CONFIRMATION, which nothing sets.                        *)
(***************************************************************************)
EXTENDS Invoices

CONSTANT Regs  \* the companies that may register

ASSUME RegistrationConstants == IsFiniteSet(Regs) /\ Regs # {}

VARIABLES
  reg,       \* CompanyRegistration: status, and whether its couponId is set
  tenants,   \* the tenants made for each
  approved,  \* history: approvals with the coupon
  at, form   \* requests: where they are, what they are about and have read

rvars == <<vars, reg, tenants, approved, at, form>>
signup == <<reg, tenants, approved>>

Reg == [status : {"NONE", "PENDING_FINANCE_REVIEW", "PENDING_HR_ACTIVATION", "ACTIVE"}, coupon : BOOLEAN]
Form == [r : Regs, coupon : BOOLEAN, used : Nat]
NoForm == [r |-> CHOOSE r \in Regs : TRUE, coupon |-> FALSE, used |-> 0]

\* The state is of these types.
RTypeOK ==
  /\ TypeOK /\ reg \in [Regs -> Reg] /\ tenants \in [Regs -> Nat] /\ approved \in Nat
  /\ at \in [Procs -> {"idle", "register", "lookup", "approve", "activate"}]
  /\ form \in [Procs -> Form]

RInit ==
  /\ Init /\ reg = [r \in Regs |-> [status |-> "NONE", coupon |-> FALSE]]
  /\ tenants = [r \in Regs |-> 0] /\ approved = 0
  /\ at = [p \in Procs |-> "idle"] /\ form = [p \in Procs |-> NoForm]

-----------------------------------------------------------------------------
(* Requests.                                                               *)

Quiet == Idle /\ \A p \in Procs : at[p] = "idle"
Free(p) == stage[p] = "idle" /\ at[p] = "idle"
Turn(p, where, f) == at' = [at EXCEPT ![p] = where] /\ form' = [form EXCEPT ![p] = f]
Opens(p, where, f) ==
  /\ Free(p) /\ Turn(p, where, f)
  /\ UNCHANGED <<books, coupons, signup, stage, req>>
On(p, where) == at[p] = where /\ UNCHANGED <<books, redeemed, stage, req>>
Close(p) == Turn(p, "idle", NoForm)
Abandon(p) == at[p] # "idle" /\ Close(p) /\ UNCHANGED <<books, coupons, stage, req, signup>>

\* createRegistration: before the password is hashed and after; the domain is unique.
Register(p, r) ==
  reg[r].status = "NONE" /\ Opens(p, "register", [NoForm EXCEPT !.r = r])
RegisterWrite(p) ==
  LET r == form[p].r IN
  /\ On(p, "register") /\ reg[r].status = "NONE"
  /\ reg' = [reg EXCEPT ![r].status = "PENDING_FINANCE_REVIEW"]
  /\ Close(p) /\ UNCHANGED <<coupon, tenants, approved>>

\* approve and verifyPayment: the link, then the coupon, then a transaction.
Approve(p, r, discounted) ==
  /\ reg[r].status = "PENDING_FINANCE_REVIEW"
  /\ Opens(p, "lookup", [NoForm EXCEPT !.r = r, !.coupon = discounted])
Lookup(p) ==
  /\ On(p, "lookup") /\ (form[p].coupon => Valid)
  /\ Turn(p, "approve", [form[p] EXCEPT !.used = coupon.used])
  /\ UNCHANGED <<coupon, signup>>
\* commitCouponUsage: counted if the counter is what was read.
Counts(used) == IF coupon.used = used THEN [coupon EXCEPT !.used = @ + 1] ELSE coupon
ApproveWrite(p) ==
  LET f == form[p] IN
  /\ On(p, "approve") /\ (f.coupon => coupon.there)
  /\ reg' = [reg EXCEPT ![f.r] = [status |-> "PENDING_HR_ACTIVATION", coupon |-> f.coupon]]
  /\ coupon' = IF f.coupon THEN Counts(f.used) ELSE coupon
  /\ approved' = IF f.coupon THEN approved + 1 ELSE approved
  /\ Close(p) /\ UNCHANGED tenants

\* (mutant) A registration may have several tenants.
AnotherTenant(r) == tenants[r] >= 0
\* Tenant.registrationId, domainName, tenantCode @unique
NoTenant(r) == tenants[r] = 0
\* activate, before its transaction
Activate(p, r) ==
  /\ reg[r].status = "PENDING_HR_ACTIVATION"
  /\ Opens(p, "activate", [NoForm EXCEPT !.r = r])
\* (mutant) Activated registrations are open.
Open == "OPEN"
Activated == "ACTIVE"
ActivateWrite(p) ==
  LET r == form[p].r IN
  /\ On(p, "activate") /\ NoTenant(r)
  /\ reg' = [reg EXCEPT ![r].status = Activated]
  /\ tenants' = [tenants EXCEPT ![r] = @ + 1]
  /\ Close(p) /\ UNCHANGED <<coupon, approved>>

\* The foreign key of a registration is set to NULL when its coupon goes.
Unlinked == reg' = [r \in Regs |-> [reg[r] EXCEPT !.coupon = @ /\ coupon'.there]]

-----------------------------------------------------------------------------
AskSignup(p) == \E r \in Regs :
  \/ Register(p, r) \/ Activate(p, r)
  \/ \E discounted \in BOOLEAN : Approve(p, r, discounted)
AnswerSignup(p) ==
  RegisterWrite(p) \/ Lookup(p) \/ ApproveWrite(p) \/ ActivateWrite(p) \/ Abandon(p)
AskBilling(p) ==
  at[p] = "idle" /\ (AskInvoices(p) \/ AskCoupon(p, \E r \in Regs : reg[r].coupon))

RNext == \E p \in Procs :
  \/ Counted(Quiet) /\ AskSignup(p)
  \/ AnswerSignup(p) /\ UNCHANGED overlaps
  \/ /\ \/ Counted(Quiet) /\ AskBilling(p)
        \/ Answer(p) /\ UNCHANGED overlaps
     /\ Unlinked /\ UNCHANGED <<tenants, approved, at, form>>
RSpec == RInit /\ [][RNext]_rvars

-----------------------------------------------------------------------------
(* Properties.                                                             *)

\* A coupon counts every invoice issued with it, however requests overlap; and
\* exactly these and the registrations it is attached to, none of which loses
\* it, as long as requests do not overlap (issueInvoice, commitCouponUsage,
\* removePermanently: "an orphaned invoice cannot be undone").
CouponCounted ==
  /\ redeemed <= coupon.used
  /\ redeemed > 0 => coupon.there
  /\ overlaps = 0 =>
       /\ coupon.used = redeemed + approved
       /\ approved = Cardinality({r \in Regs : reg[r].coupon})

\* However often Finance and HR follow their links, a registration becomes one
\* company at most; if no requests overlap, exactly when it is ACTIVE
\* (finance.approve, hr.activate).
OneCompany == \A r \in Regs :
  /\ tenants[r] <= 1
  /\ overlaps = 0 => (reg[r].status = "ACTIVE") = (tenants[r] = 1)
=============================================================================
