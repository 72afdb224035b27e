------------------------------ MODULE Invoices ------------------------------
(***************************************************************************)
(* Invoices, the payments and refunds recorded against them, and the       *)
(* coupon they redeem (invoice.controller.js, billing.service.js,          *)
(* coupon.controller.js).                                                  *)
(*                                                                         *)
(* An invoice repeats the sums of its payments and refunds, which a READ   *)
(* COMMITTED transaction adds up again at each of them: it sees what was   *)
(* committed before it looked, and its own.  The platform's numbers are of *)
(* one series, within one prefix and financial year.                       *)
(***************************************************************************)
EXTENDS Naturals, FiniteSets

CONSTANTS
  Procs,       \* HTTP requests in flight
  Invs,        \* the invoices there are or may be
  NoInv,       \* none of them
  Totals,      \* what an invoice may come to; 0 if a coupon or credit covers it
  Amounts,     \* what may be paid at once
  Refunds,     \* what may be refunded at once
  Floors,      \* what the operator may set nextNumber to
  UsageLimit,  \* coupons.usageLimit
  Attempts,    \* at a number (withInvoiceNumber)
  Overlaps     \* bound: requests that begin while another is in flight

ASSUME InvoiceConstants ==
  /\ IsFiniteSet(Invs) /\ Invs # {} /\ NoInv \notin Invs
  /\ Totals \subseteq Nat /\ Amounts \subseteq Nat \ {0} /\ Refunds \subseteq Nat \ {0}
  /\ Floors \subseteq Nat \ {0}
  /\ UsageLimit \in Nat /\ Attempts \in Nat \ {0} /\ Overlaps \in Nat

VARIABLES
  invoice,     \* the rows, with the sums they repeat
  received,    \* the sum of the payments of each
  returned,    \* the sum of the refunds of each
  coupon,      \* the coupon
  redeemed,    \* CouponRedemption rows
  floor,       \* InvoiceSetting.nextNumber
  raised,      \* history: the highest it was
  renumbered,  \* history: an invoice that had a number was given another
  outnumbered, \* history: a purchase of seats has no invoice, as its number was taken
  overlaps,    \* history: the requests that began while another was in flight
  stage, req   \* requests: where they are, what they are about and have read

money == <<received, returned>>
numbering == <<floor, raised>>
books == <<invoice, money, numbering, renumbered, outnumbered>>
coupons == <<coupon, redeemed>>
vars == <<books, coupons, overlaps, stage, req>>

State == {"NONE", "DRAFT", "ISSUED", "PARTIALLY_PAID", "PAID", "VOID"}
\* seats: of the series of purchases and renewals (INV-), not of the platform's.
\* A number of 0 is none yet.
Invoice == [state : State, seats : BOOLEAN, number : Nat, coupon : BOOLEAN, total : Nat,
            paid : Nat, refunded : Nat]
NoInvoice == [state |-> "NONE", seats |-> FALSE, number |-> 0, coupon |-> FALSE, total |-> 0,
              paid |-> 0, refunded |-> 0]
Coupon == [there : BOOLEAN, active : BOOLEAN, used : Nat]

Stage == {"idle", "number", "issue", "seats", "void", "sum", "book", "drop"}
\* a: the amount that was "paid" or "refunded", or paid for seats "bought" or
\* "renewed", which come to t; n: a number; tries: those taken so far; row: the
\* invoice as it will be.
Kind == {"none", "paid", "refunded", "bought", "renewed"}
Req == [i : Invs \cup {NoInv}, kind : Kind, a : Nat, t : Nat, n : Nat, tries : 0 .. Attempts, row : Invoice]
NoReq == [i |-> NoInv, kind |-> "none", a |-> 0, t |-> 0, n |-> 0, tries |-> 0,
          row |-> NoInvoice]

\* The state is of these types.
BooksTypeOK ==
  /\ invoice \in [Invs -> Invoice] /\ received \in [Invs -> Nat] /\ returned \in [Invs -> Nat]
  /\ coupon \in Coupon /\ redeemed \in Nat
  /\ floor \in Nat /\ raised \in Nat
  /\ renumbered \in BOOLEAN /\ outnumbered \in BOOLEAN /\ overlaps \in 0 .. Overlaps
TypeOK == BooksTypeOK /\ stage \in [Procs -> Stage] /\ req \in [Procs -> Req]

Init ==
  /\ invoice = [i \in Invs |-> NoInvoice]
  /\ received = [i \in Invs |-> 0] /\ returned = [i \in Invs |-> 0]
  /\ coupon = [there |-> TRUE, active |-> TRUE, used |-> 0] /\ redeemed = 0
  /\ floor = 1 /\ raised = 1 /\ renumbered = FALSE /\ outnumbered = FALSE /\ overlaps = 0
  /\ stage = [p \in Procs |-> "idle"] /\ req = [p \in Procs |-> NoReq]

-----------------------------------------------------------------------------
(* Requests.                                                               *)

Idle == \A p \in Procs : stage[p] = "idle"
Begins(p) == stage[p] = "idle"
\* A request that begins counts if others are in flight.
Counted(quiet) ==
  /\ overlaps' = IF quiet THEN overlaps ELSE overlaps + 1
  /\ overlaps' <= Overlaps
Go(p, where, r) == stage' = [stage EXCEPT ![p] = where] /\ req' = [req EXCEPT ![p] = r]
Once(p) == Begins(p) /\ UNCHANGED <<stage, req>>
Finish(p) == Go(p, "idle", NoReq)
About(i) == [NoReq EXCEPT !.i = i]
Reads(p, where, r) == Begins(p) /\ Go(p, where, r) /\ UNCHANGED <<books, coupons>>
At(p, where) == stage[p] = where

\* A statement or a transaction fails and is rolled back.  A purchase at "seats"
\* has given the seats by then, and goes on without an invoice.
Fail(p) == stage[p] # "idle" /\ Finish(p) /\ UNCHANGED <<books, coupons>>

\* couponValidationError
Valid == coupon.there /\ coupon.active /\ coupon.used < UsageLimit

-----------------------------------------------------------------------------
(* Numbers.                                                                *)

Taken(seats) == {invoice[i].number : i \in {j \in Invs : invoice[j].seats = seats}} \ {0}
Rows == {i \in Invs : invoice[i].state # "NONE"}
\* A row is made by one request: no other is about to make it.
Unmade(i) == i \notin Rows /\ \A q \in Procs : stage[q] = "seats" => req[q].i # i

\* (mutant) Every row counts, also drafts, which have no number.
NextByCount == 1 + Cardinality(Rows)
\* nextInvoiceNumber: past the highest, and no less than the operator's floor.
Highest == CHOOSE n \in Taken(FALSE) \cup {0} : \A k \in Taken(FALSE) : k <= n
NextInvoiceNumber == IF Highest < floor THEN floor ELSE Highest + 1
\* updateSettings
SetFloor(p, n) ==
  /\ Once(p) /\ floor' = n /\ raised' = IF n > raised THEN n ELSE raised
  /\ UNCHANGED <<invoice, money, renumbered, outnumbered, coupons>>

\* createInvoice, and runSubscriptionLifecycleCheck without a coupon: a draft
\* redeems nothing yet.
Draft(p, i, discounted, t) ==
  /\ Unmade(i) /\ (discounted => Valid) /\ (t = 0 => discounted)
  /\ Once(p)
  /\ invoice' = [invoice EXCEPT ![i] =
       [NoInvoice EXCEPT !.state = "DRAFT", !.coupon = discounted, !.total = t]]
  /\ UNCHANGED <<money, numbering, renumbered, outnumbered, coupons>>

\* issueInvoice: a draft, then a number, then a transaction with that number,
\* again from the number if somebody took it meanwhile.
Issue(p, i) == invoice[i].state = "DRAFT" /\ Reads(p, "number", About(i))

TakeNumber(p) ==
  /\ At(p, "number")
  /\ Go(p, "issue", [req[p] EXCEPT !.n = NextInvoiceNumber, !.tries = @ + 1])
  /\ UNCHANGED <<books, coupons>>

\* (mutant) A coupon is redeemed without its counter.
RedeemedOnly(i) == coupon
\* The coupon of the invoice, redeemed once more.
Redeemed(i) == IF invoice[i].coupon THEN [coupon EXCEPT !.used = @ + 1] ELSE coupon
\* invoiceNumber @unique
Clash(i, n) == \E j \in Invs \ {i} : ~invoice[j].seats /\ invoice[j].number = n
IssueWrite(p) ==
  LET i == req[p].i IN
  /\ At(p, "issue") /\ ~Clash(i, req[p].n)
  /\ invoice[i].coupon => coupon.there
  /\ invoice' = [invoice EXCEPT ![i].state = "ISSUED", ![i].number = req[p].n]
  /\ renumbered' = (renumbered \/ invoice[i].number \notin {0, req[p].n})
  /\ coupon' = Redeemed(i)
  /\ redeemed' = IF invoice[i].coupon THEN redeemed + 1 ELSE redeemed
  /\ Finish(p) /\ UNCHANGED <<money, numbering, outnumbered>>
\* P2002 on invoiceNumber
IssueAgain(p) ==
  /\ At(p, "issue") /\ Clash(req[p].i, req[p].n)
  /\ IF req[p].tries < Attempts THEN Go(p, "number", req[p]) ELSE Finish(p)
  /\ UNCHANGED <<books, coupons>>

\* payAndAddLicenses and renewTenantSubscription number theirs by the count of
\* all invoices.  A purchase is paid, and goes on without an invoice if its number
\* is taken; a renewal, which fails with it, is paid, or not yet, or comes to
\* nothing after the credit in the wallet, and counts as paid.
SeatInvoice(p, i, kind, t, a) ==
  /\ Unmade(i) /\ (kind = "bought" => t > 0 /\ a = t)
  /\ Reads(p, "seats", [About(i) EXCEPT !.kind = kind, !.a = a, !.t = t, !.n = 1 + Cardinality(Rows)])
SeatInvoiceWrite(p) ==
  LET r == req[p]
      free == r.n \notin Taken(TRUE)
  IN /\ At(p, "seats")
     /\ outnumbered' = (outnumbered \/ (~free /\ r.kind = "bought"))
     /\ invoice' = IF free THEN [invoice EXCEPT ![r.i] =
          [NoInvoice EXCEPT !.state = IF r.a = r.t THEN "PAID" ELSE "ISSUED",
                            !.seats = TRUE, !.number = r.n, !.total = r.t, !.paid = r.a]] ELSE invoice
     /\ received' = IF free THEN [received EXCEPT ![r.i] = r.a] ELSE received
     /\ Finish(p) /\ UNCHANGED <<returned, numbering, renumbered, coupons>>

-----------------------------------------------------------------------------
(* Money.                                                                  *)

\* (mutant) Voided whatever was paid.
VoidableAlways(i) == invoice[i].state \notin {"NONE", "VOID"}
Voidable(i) == invoice[i].state \notin {"NONE", "VOID"} /\ received[i] = 0
\* voidInvoice
Void(p, i) == Voidable(i) /\ Reads(p, "void", About(i))
VoidWrite(p) ==
  /\ At(p, "void")
  /\ invoice' = [invoice EXCEPT ![req[p].i].state = "VOID"]
  /\ Finish(p) /\ UNCHANGED <<money, numbering, renumbered, outnumbered, coupons>>

\* recordPayment and recordRefund: no more than is owed, or can be returned, by
\* what the invoice says.
Minus(a, b) == IF a > b THEN a - b ELSE 0
Pay(p, i, a) ==
  /\ invoice[i].state \notin {"NONE", "DRAFT", "VOID"}
  /\ a <= Minus(invoice[i].total, invoice[i].paid)
  /\ Reads(p, "sum", [About(i) EXCEPT !.kind = "paid", !.a = a])
Refund(p, i, a) ==
  /\ invoice[i].paid > 0 /\ a <= Minus(invoice[i].paid, invoice[i].refunded)
  /\ Reads(p, "sum", [About(i) EXCEPT !.kind = "refunded", !.a = a])

\* stateForPayment
StateForPayment(state, paid, total) ==
  CASE state \in {"VOID", "DRAFT"} -> state
    [] state \notin {"VOID", "DRAFT"} /\ paid = 0 -> "ISSUED"
    [] state \notin {"VOID", "DRAFT"} /\ paid > 0 /\ paid >= total -> "PAID"
    [] OTHER -> "PARTIALLY_PAID"

\* (mutant) The payment is added to what the invoice said, as well.
Twice(r) == IF r.kind = "paid" THEN r.a + r.a ELSE 0
Of(r, kind) == IF r.kind = kind THEN r.a ELSE 0
OwnPayment(r) == Of(r, "paid")
\* syncInvoiceTotals: what is committed when the transaction looks, and its own.
Sum(p) ==
  LET r == req[p]
      paid == received[r.i] + OwnPayment(r)
      refunded == returned[r.i] + Of(r, "refunded")
  IN /\ At(p, "sum")
     /\ Go(p, "book", [r EXCEPT !.row = [invoice[r.i] EXCEPT
          !.paid = paid, !.refunded = refunded, !.state = StateForPayment(@, paid, invoice[r.i].total)]])
     /\ UNCHANGED <<books, coupons>>
\* The row of the payment or refund, and the three fields, committed.
Book(p) ==
  LET r == req[p] IN
  /\ At(p, "book")
  /\ received' = [received EXCEPT ![r.i] = @ + Of(r, "paid")]
  /\ returned' = [returned EXCEPT ![r.i] = @ + Of(r, "refunded")]
  /\ invoice' = [invoice EXCEPT ![r.i].paid = r.row.paid, ![r.i].refunded = r.row.refunded,
                                ![r.i].state = r.row.state]
  /\ Finish(p) /\ UNCHANGED <<numbering, renumbered, outnumbered, coupons>>

-----------------------------------------------------------------------------
(* The coupon.  attached: there is a registration with it.                 *)

\* remove; update of active
Deactivate(p) == coupon.there /\ Once(p) /\ coupon' = [coupon EXCEPT !.active = FALSE]
                 /\ UNCHANGED <<books, redeemed>>
Reactivate(p) == coupon.there /\ Once(p) /\ coupon' = [coupon EXCEPT !.active = TRUE]
                 /\ UNCHANGED <<books, redeemed>>

\* removePermanently: refused once used, by the counter or by a registration.
Unused(attached) == coupon.used = 0 /\ ~attached
Drop(p, attached) == coupon.there /\ Unused(attached) /\ Reads(p, "drop", NoReq)
\* The rows of redemptions hold the coupon.
DropWrite(p) ==
  /\ At(p, "drop") /\ coupon.there /\ redeemed = 0
  /\ coupon' = [coupon EXCEPT !.there = FALSE]
  /\ Finish(p) /\ UNCHANGED <<books, redeemed>>

-----------------------------------------------------------------------------
AskInvoice(p, i) ==
  \/ \E discounted \in BOOLEAN, t \in Totals : Draft(p, i, discounted, t)
  \/ Issue(p, i) \/ Void(p, i)
  \/ \E kind \in {"bought", "renewed"}, t \in Totals : \E a \in {0, t} : SeatInvoice(p, i, kind, t, a)
  \/ \E a \in Amounts : Pay(p, i, a)
  \/ \E a \in Refunds : Refund(p, i, a)
AskInvoices(p) ==
  \/ \E i \in Invs : AskInvoice(p, i)
  \/ \E n \in Floors : SetFloor(p, n)
AskCoupon(p, attached) == Deactivate(p) \/ Reactivate(p) \/ Drop(p, attached)
Answer(p) ==
  \/ TakeNumber(p) \/ IssueWrite(p) \/ IssueAgain(p) \/ VoidWrite(p)
  \/ SeatInvoiceWrite(p) \/ Sum(p) \/ Book(p) \/ DropWrite(p) \/ Fail(p)

Next == \E p \in Procs :
  \/ Counted(Idle) /\ (AskInvoices(p) \/ AskCoupon(p, FALSE))
  \/ Answer(p) /\ UNCHANGED overlaps
Spec == Init /\ [][Next]_vars

-----------------------------------------------------------------------------
(* Properties.                                                             *)

\* However requests overlap, an invoice never says that more was paid or
\* refunded than was, nor that it is paid when it is not (syncInvoiceTotals,
\* in the transaction of every payment and refund).
NeverOverstated == \A i \in Invs :
  /\ invoice[i].paid <= received[i] /\ invoice[i].refunded <= returned[i]
  /\ invoice[i].state = "PAID" => received[i] >= invoice[i].total

\* The one invoice whose state does not follow from its payments: a renewal that
\* credit covers is PAID and nothing was received for it (renewTenantSubscription
\* writes it so, although "payment state is never set by hand").
Covered(i) == invoice[i].seats /\ invoice[i].total = 0
StateByMoney(i) == StateForPayment("ISSUED", received[i], invoice[i].total)

\* Requests that do not overlap: an invoice repeats its payments and refunds and
\* has the state that follows from them, or PAID where credit covers it; no more
\* is paid than it comes to and no more returned than was paid; a draft or a void
\* has no money (recordPayment, recordRefund, voidInvoice, stateForPayment).
BooksBalance == overlaps = 0 => \A i \in Invs :
  /\ invoice[i].paid = received[i] /\ invoice[i].refunded = returned[i]
  /\ returned[i] <= received[i] /\ received[i] <= invoice[i].total
  /\ IF invoice[i].state \in {"NONE", "DRAFT", "VOID"} THEN received[i] = 0
     ELSE invoice[i].state = IF Covered(i) THEN "PAID" ELSE StateByMoney(i)

\* However requests overlap and whatever floor the operator sets, no two invoices
\* of a series have one number, and the platform's series has no gap from the
\* highest floor on, unless an invoice was issued twice, under two numbers.  For
\* that, and for a purchase to lose its invoice to a number that is taken, two
\* requests must overlap (nextInvoiceNumber and withInvoiceNumber: "a GST invoice
\* series must be unbroken"; payAndAddLicenses, which swallows any other failure
\* of the invoice as well: of such a purchase nothing is said).
Spent == Taken(FALSE) \cup 1 .. (raised - 1)
SeriesUnbroken ==
  /\ overlaps = 0 => ~renumbered /\ ~outnumbered
  /\ \A i, j \in Rows :
       i # j /\ invoice[i].seats = invoice[j].seats /\ invoice[i].number = invoice[j].number
         => invoice[i].number = 0
  /\ ~renumbered => Spent = 1 .. Cardinality(Spent)
=============================================================================
