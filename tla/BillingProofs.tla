--------------------------- MODULE BillingProofs ---------------------------
(***************************************************************************)
(* What Invoices and Registrations promise, proved of their composition    *)
(* RSpec for any number of requests, invoices, companies and overlaps.     *)
(***************************************************************************)
EXTENDS Registrations, FiniteSetTheorems, WellFoundedInduction, TLAPS

-----------------------------------------------------------------------------
(* The invariant of the books.                                             *)

\* The types of the state.
BooksN ==
  /\ invoice \in [Invs -> Invoice] /\ received \in [Invs -> Nat] /\ returned \in [Invs -> Nat]
  /\ floor \in Nat /\ raised \in Nat /\ renumbered \in BOOLEAN /\ outnumbered \in BOOLEAN
RequestsN == stage \in [Procs -> Stage] /\ req \in [Procs -> Req]

Opened(i) == invoice[i].state \notin {"NONE", "DRAFT"}

\* An invoice says no more than was paid and refunded; a draft has no number yet.
RowInv(i) ==
  /\ i \notin Rows => invoice[i] = NoInvoice /\ received[i] = 0 /\ returned[i] = 0
  /\ ~Opened(i) => invoice[i].number = 0 /\ ~invoice[i].seats
                   /\ invoice[i].paid = 0 /\ invoice[i].refunded = 0
  /\ invoice[i].paid <= received[i] /\ invoice[i].refunded <= returned[i]
  /\ invoice[i].state = "PAID" => received[i] >= invoice[i].total

\* What a request at a statement holds of what it is about.
Held(at_, r) ==
  /\ at_ \in {"number", "issue", "void", "sum", "book"} => r.i \in Rows
  /\ at_ \in {"number", "issue"} => ~invoice[r.i].seats
  /\ at_ = "issue" => r.n >= 1
  /\ at_ = "number" => r.tries < Attempts
  /\ at_ = "seats" => /\ r.i \in Invs \ Rows /\ r.a \in {0, r.t}
                      /\ r.n >= 1 /\ r.n <= 1 + Cardinality(Rows)
  /\ at_ \in {"sum", "book"} => Opened(r.i)
  /\ at_ = "book" =>
       /\ r.row.state \notin {"NONE", "DRAFT"}
       /\ r.row.paid <= received[r.i] + Of(r, "paid")
       /\ r.row.refunded <= returned[r.i] + Of(r, "refunded")
       /\ r.row.state = "PAID" => received[r.i] + Of(r, "paid") >= invoice[r.i].total
Apart == \A p, q \in Procs : p # q /\ stage[p] = "seats" /\ stage[q] = "seats" => req[p].i # req[q].i

BooksInv ==
  /\ BooksN /\ RequestsN /\ Apart
  /\ \A i \in Invs : RowInv(i)
  /\ \A p \in Procs : Held(stage[p], req[p])

-----------------------------------------------------------------------------
(* The invariant of the numbers.                                           *)

SeriesInv ==
  /\ floor <= raised /\ raised >= 1
  /\ \A i \in Invs : invoice[i].seats => invoice[i].number <= Cardinality(Rows)
  /\ \A i, j \in Invs :
       i # j /\ invoice[i].seats = invoice[j].seats /\ invoice[i].number = invoice[j].number
         => invoice[i].number = 0
  /\ ~renumbered => \E c \in Nat :
       /\ Spent = 1 .. c
       /\ \A p \in Procs : stage[p] = "issue" => req[p].n <= c + 1

-----------------------------------------------------------------------------
(* The invariant of the registrations and the coupon.                      *)

SignupN ==
  /\ coupon \in Coupon /\ redeemed \in Nat /\ overlaps \in Nat
  /\ reg \in [Regs -> Reg] /\ tenants \in [Regs -> Nat] /\ approved \in Nat
  /\ at \in [Procs -> {"idle", "register", "lookup", "approve", "activate"}]
  /\ form \in [Procs -> Form]
SignupInv ==
  /\ SignupN
  /\ redeemed <= coupon.used /\ (redeemed > 0 => coupon.there)
  /\ ~coupon.there => \A r \in Regs : ~reg[r].coupon
  /\ \A r \in Regs : tenants[r] <= 1

\* Without overlaps one request is in flight, and what it read is still so.
Busy(p) == ~Free(p)
Alone == \A p, q \in Procs : Busy(p) /\ Busy(q) => p = q
OneBody == \A p \in Procs : at[p] = "idle" \/ stage[p] = "idle"
Linked == {r \in Regs : reg[r].coupon}
FreshSignup(p) ==
  /\ at[p] \in {"lookup", "approve"} => reg[form[p].r].status = "PENDING_FINANCE_REVIEW"
  /\ at[p] = "approve" => form[p].used = coupon.used
  /\ at[p] = "activate" => reg[form[p].r].status = "PENDING_HR_ACTIVATION"
  /\ stage[p] = "drop" => coupon.used = 0 /\ Linked = {}
FreshBooks(p) ==
  LET r == req[p] IN
  /\ stage[p] \in {"number", "issue"} => invoice[r.i].state = "DRAFT"
  /\ stage[p] = "seats" => r.n = 1 + Cardinality(Rows)
  /\ stage[p] = "void" => received[r.i] = 0
  /\ stage[p] \in {"sum", "book"} =>
       /\ invoice[r.i].state # "VOID" /\ invoice[r.i].total # 0
       /\ r.kind = "paid" => received[r.i] + r.a <= invoice[r.i].total
       /\ r.kind = "refunded" => returned[r.i] + r.a <= received[r.i]
  /\ stage[p] = "book" =>
       /\ r.row.paid = received[r.i] + Of(r, "paid")
       /\ r.row.refunded = returned[r.i] + Of(r, "refunded")
       /\ r.row.state = StateForPayment(invoice[r.i].state, r.row.paid, invoice[r.i].total)
Balanced ==
  /\ ~renumbered /\ ~outnumbered
  /\ \A i \in Invs :
       /\ invoice[i].paid = received[i] /\ invoice[i].refunded = returned[i]
       /\ returned[i] <= received[i] /\ received[i] <= invoice[i].total
       /\ invoice[i].state \in {"NONE", "DRAFT", "VOID"} => received[i] = 0
       /\ invoice[i].state \notin {"NONE", "DRAFT", "VOID"} =>
            invoice[i].state = IF Covered(i) THEN "PAID" ELSE StateByMoney(i)
Exact ==
  /\ coupon.used = redeemed + approved /\ approved = Cardinality(Linked)
  /\ \A r \in Regs :
       /\ reg[r].coupon => reg[r].status \in {"PENDING_HR_ACTIVATION", "ACTIVE"}
       /\ reg[r].status = "ACTIVE" <=> tenants[r] = 1
Fresh == \A p \in Procs : FreshSignup(p) /\ FreshBooks(p)
AloneInv == overlaps = 0 => Alone /\ OneBody /\ Fresh /\ Balanced /\ Exact

-----------------------------------------------------------------------------
(* Lemmas.                                                                 *)

LEMMA NumberFacts ==
  /\ Totals \subseteq Nat /\ Amounts \subseteq Nat /\ Refunds \subseteq Nat /\ Floors \subseteq Nat
  /\ Attempts \in Nat /\ Attempts # 0 /\ Overlaps \in Nat
BY InvoiceConstants

LEMMA NoReqType == NoReq \in Req /\ NoInvoice \in Invoice
<1>1. NoInvoice \in Invoice
  BY DEF NoInvoice, Invoice, State
<1>2. 0 \in 0 .. Attempts
  BY NumberFacts
<1>. QED  BY <1>1, <1>2 DEF NoReq, Req, Kind

\* The rows can be counted.
LEMMA CountRows ==
  ASSUME NEW S \in SUBSET Invs
  PROVE  IsFiniteSet(S) /\ Cardinality(S) \in Nat
BY InvoiceConstants, FS_Subset, FS_CardinalityType

LEMMA CountGrows ==
  ASSUME NEW T \in SUBSET Invs, NEW S \in SUBSET T
  PROVE  /\ Cardinality(S) <= Cardinality(T)
         /\ S # T => Cardinality(S) + 1 <= Cardinality(T)
<1>1. IsFiniteSet(T) /\ Cardinality(T) \in Nat /\ Cardinality(S) \in Nat
  BY CountRows
<1>2. Cardinality(S) <= Cardinality(T) /\ (Cardinality(S) = Cardinality(T) => S = T)
  BY <1>1, FS_Subset
<1>. QED  BY <1>1, <1>2

LEMMA GoFacts ==
  ASSUME RequestsN, NEW p \in Procs, NEW w, NEW r, Go(p, w, r)
  PROVE  /\ stage'[p] = w /\ req'[p] = r
         /\ \A q \in Procs \ {p} : stage'[q] = stage[q] /\ req'[q] = req[q]
         /\ w \in Stage /\ r \in Req => RequestsN'
BY DEF Go, RequestsN

\* Nothing is taken from a row that a request in flight relies on.
Grows ==
  /\ \A i \in Rows : /\ i \in Rows' /\ invoice'[i].seats = invoice[i].seats
                     /\ invoice'[i].total = invoice[i].total
                     /\ Opened(i) => invoice'[i].state \notin {"NONE", "DRAFT"}
  /\ \A i \in Invs : received[i] <= received'[i] /\ returned[i] <= returned'[i]

\* What a request holds, another does not take away.
LEMMA HeldKept ==
  ASSUME BooksInv, BooksN', Grows, NEW w, NEW r \in Req, Held(w, r),
         w = "seats" => r.i \notin Rows'
  PROVE  Held(w, r)'
<1>1. Rows \in SUBSET Rows' /\ Rows' \in SUBSET Invs
  BY DEF Rows, Grows
<1>2. /\ Cardinality(Rows) <= Cardinality(Rows')
      /\ Cardinality(Rows) \in Nat /\ Cardinality(Rows') \in Nat
  BY <1>1, CountRows, CountGrows
<1>3. /\ r.n \in Nat /\ Of(r, "paid") \in Nat /\ Of(r, "refunded") \in Nat
      /\ r.row.paid \in Nat /\ r.row.refunded \in Nat
  BY DEF Req, Of, Invoice
<1>4. ASSUME r.i \in Rows
      PROVE  /\ received[r.i] <= received'[r.i] /\ returned[r.i] <= returned'[r.i]
             /\ received[r.i] \in Nat /\ returned[r.i] \in Nat
             /\ received'[r.i] \in Nat /\ returned'[r.i] \in Nat
             /\ invoice'[r.i].total = invoice[r.i].total /\ invoice[r.i].total \in Nat
  BY <1>4 DEF Grows, BooksInv, BooksN, Rows, Invoice
<1>5. w \in {"number", "issue", "void", "sum", "book"} =>
         /\ r.i \in Rows' /\ invoice'[r.i].seats = invoice[r.i].seats
         /\ Opened(r.i) => Opened(r.i)'
  BY DEF Grows, Held, Opened
<1>6. w \in {"number", "issue"} => ~invoice'[r.i].seats
  BY <1>5 DEF Held
<1>7. w = "seats" => r.n <= 1 + Cardinality(Rows')
  BY <1>2, <1>3 DEF Held
<1>8. w = "book" =>
       /\ r.row.paid <= received'[r.i] + Of(r, "paid")
       /\ r.row.refunded <= returned'[r.i] + Of(r, "refunded")
       /\ r.row.state = "PAID" => received'[r.i] + Of(r, "paid") >= invoice'[r.i].total
  BY <1>3, <1>4 DEF Held
<1>. QED  BY <1>5, <1>6, <1>7, <1>8 DEF Held

\* A step of one request: what it does to the rows, and what it holds after it.
LEMMA BooksMove ==
  ASSUME BooksInv, NEW p \in Procs, NEW w \in Stage, NEW r \in Req, Go(p, w, r),
         BooksN', Grows, \A i \in Invs : RowInv(i)', Held(w, r)',
         \A q \in Procs \ {p} : stage[q] = "seats" => req[q].i \notin Rows',
         w = "seats" => \A q \in Procs \ {p} : stage[q] = "seats" => req[q].i # r.i
  PROVE  BooksInv'
<1>1. /\ stage'[p] = w /\ req'[p] = r /\ RequestsN'
      /\ \A q \in Procs \ {p} : stage'[q] = stage[q] /\ req'[q] = req[q]
  BY GoFacts DEF BooksInv
<1>2. \A q \in Procs \ {p} : Held(stage[q], req[q])'
  <2>. TAKE q \in Procs \ {p}
  <2>1. PICK v, x : v = stage[q] /\ x = req[q]
    OBVIOUS
  <2>2. x \in Req /\ Held(v, x)
    BY <2>1 DEF BooksInv, RequestsN
  <2>3. Held(v, x)'
    BY <2>1, <2>2, HeldKept
  <2>4. stage'[q] = v /\ req'[q] = x
    BY <1>1, <2>1
  <2>. QED  BY <2>3, <2>4
<1>3. Held(stage[p], req[p])'
  BY <1>1
<1>4. Apart'
  BY <1>1 DEF Apart, BooksInv
<1>. QED  BY <1>1, <1>2, <1>3, <1>4 DEF BooksInv

\* A request that leaves the books alone.
LEMMA BooksQuiet ==
  ASSUME BooksInv, NEW p \in Procs, NEW w \in Stage, NEW r \in Req, Go(p, w, r),
         UNCHANGED books, Held(w, r),
         w = "seats" => \A q \in Procs \ {p} : stage[q] = "seats" => req[q].i # r.i
  PROVE  BooksInv'
<1>1. BooksN' /\ Rows' = Rows
  BY DEF BooksInv, BooksN, books, Rows, money, numbering
<1>2. Grows
  BY <1>1 DEF Grows, Opened, books, BooksInv, BooksN, Rows, money, numbering
<1>3. \A i \in Invs : RowInv(i)'
  BY <1>1 DEF BooksInv, RowInv, Opened, books, money, numbering
<1>4. Held(w, r)'
  BY <1>1 DEF Held, Opened, books, money, numbering
<1>5. \A q \in Procs \ {p} : stage[q] = "seats" => req[q].i \notin Rows'
  BY <1>1 DEF BooksInv, Held
<1>. QED  BY <1>1, <1>2, <1>3, <1>4, <1>5, BooksMove

LEMMA BooksFinish ==
  ASSUME BooksInv, NEW p \in Procs, Finish(p), BooksN', Grows, \A i \in Invs : RowInv(i)',
         \A q \in Procs \ {p} : stage[q] = "seats" => req[q].i \notin Rows'
  PROVE  BooksInv'
<1>1. Held("idle", NoReq)' /\ "idle" \in Stage
  BY DEF Held, Stage
<1>. QED  BY <1>1, NoReqType, BooksMove DEF Finish

-----------------------------------------------------------------------------
(* The books.                                                              *)

LEMMA BooksInit == RInit => BooksInv
<1>. SUFFICES ASSUME RInit PROVE BooksInv
  OBVIOUS
<1>1. /\ invoice = [i \in Invs |-> NoInvoice]
      /\ received = [i \in Invs |-> 0] /\ returned = [i \in Invs |-> 0]
      /\ floor = 1 /\ raised = 1 /\ renumbered = FALSE /\ outnumbered = FALSE
      /\ stage = [p \in Procs |-> "idle"] /\ req = [p \in Procs |-> NoReq]
  BY DEF RInit, Init
<1>2. BooksN /\ RequestsN
  BY <1>1, NoReqType DEF BooksN, RequestsN, Stage
<1>3. \A i \in Invs : RowInv(i)
  BY <1>1 DEF RowInv, NoInvoice, Opened
<1>4. Apart /\ \A p \in Procs : Held(stage[p], req[p])
  BY <1>1 DEF Apart, Held
<1>. QED  BY <1>2, <1>3, <1>4 DEF BooksInv

\* The requests about invoices, but a draft, only read.
LEMMA AskBooks ==
  ASSUME BooksInv, NEW p \in Procs, NEW i \in Invs,
         \/ Issue(p, i) \/ Void(p, i)
         \/ \E kind \in {"bought", "renewed"}, t \in Totals : \E a \in {0, t} : SeatInvoice(p, i, kind, t, a)
         \/ \E a \in Amounts : Pay(p, i, a)
         \/ \E a \in Refunds : Refund(p, i, a)
  PROVE  BooksInv'
<1>0. invoice[i] \in Invoice /\ About(i) \in Req
  BY NoReqType DEF About, Req, BooksInv, BooksN, NoReq
<1>1. CASE Issue(p, i) \/ Void(p, i)
  <2>1. PICK w \in {"number", "void"} :
          Go(p, w, About(i)) /\ UNCHANGED books /\ i \in Rows /\ (w = "number" => ~invoice[i].seats)
    BY <1>1 DEF Issue, Void, Voidable, Reads, BooksInv, RowInv, Opened, Rows
  <2>2. Held(w, About(i)) /\ w \in Stage
    BY <2>1, NumberFacts DEF Held, About, NoReq, Stage
  <2>. QED  BY <1>0, <2>1, <2>2, BooksQuiet
<1>2. ASSUME NEW kind \in {"bought", "renewed"}, NEW t \in Totals, NEW a \in {0, t}, SeatInvoice(p, i, kind, t, a)
      PROVE  BooksInv'
  <2>1. PICK r : r = [About(i) EXCEPT !.kind = kind, !.a = a, !.t = t, !.n = 1 + Cardinality(Rows)]
    OBVIOUS
  <2>2. Unmade(i) /\ Go(p, "seats", r) /\ UNCHANGED books
    BY <1>2, <2>1 DEF SeatInvoice, Reads
  <2>3. Cardinality(Rows) \in Nat
    BY CountRows DEF Rows
  <2>. DEFINE n == 1 + Cardinality(Rows)
  <2>4. r \in Req /\ r.i = i /\ r.a = a /\ r.t = t /\ r.n = n
    <3>1. a \in Nat /\ t \in Nat /\ n \in Nat /\ kind \in Kind
      BY <2>3, NumberFacts DEF Kind
    <3>. HIDE DEF n
    <3>2. r = [About(i) EXCEPT !.kind = kind, !.a = a, !.t = t, !.n = n]
      BY <2>1 DEF n
    <3>. QED  BY <1>0, <3>1, <3>2 DEF Req, About, NoReq
  <2>5. Held("seats", r) /\ "seats" \in Stage
    BY <2>2, <2>3, <2>4 DEF Held, Stage, Unmade
  <2>6. \A q \in Procs \ {p} : stage[q] = "seats" => req[q].i # r.i
    BY <2>2, <2>4 DEF Unmade
  <2>. QED  BY <2>2, <2>4, <2>5, <2>6, BooksQuiet
<1>3. ASSUME NEW a \in Amounts \cup Refunds, Pay(p, i, a) \/ Refund(p, i, a)
      PROVE  BooksInv'
  <2>0. PICK kind \in {"paid", "refunded"} :
          Go(p, "sum", [About(i) EXCEPT !.kind = kind, !.a = a]) /\ UNCHANGED books
    BY <1>3 DEF Pay, Refund, Reads
  <2>1. PICK r : r = [About(i) EXCEPT !.kind = kind, !.a = a] /\ Go(p, "sum", r) /\ UNCHANGED books
    BY <2>0
  <2>2. r \in Req /\ r.i = i
    BY <1>0, <2>1, NumberFacts DEF Req, About, NoReq, Kind
  <2>3. Opened(i)
    <3>1. CASE Pay(p, i, a)
      BY <3>1 DEF Pay, Opened
    <3>2. CASE Refund(p, i, a)
      <4>1. invoice[i].paid > 0 /\ RowInv(i)
        BY <3>2 DEF Refund, BooksInv
      <4>2. invoice[i].paid # 0
        BY <4>1
      <4>. QED  BY <4>1, <4>2 DEF RowInv
    <3>. QED  BY <1>3, <3>1, <3>2
  <2>4. Held("sum", r) /\ "sum" \in Stage
    BY <2>2, <2>3 DEF Held, Stage, Opened, Rows
  <2>. QED  BY <2>1, <2>2, <2>4, BooksQuiet
<1>. QED  BY <1>1, <1>2, <1>3

LEMMA DraftBooks ==
  ASSUME BooksInv, NEW p \in Procs, NEW i \in Invs, NEW discounted \in BOOLEAN, NEW t \in Totals,
         Draft(p, i, discounted, t)
  PROVE  BooksInv'
<1>1. /\ Unmade(i) /\ UNCHANGED <<stage, req, received, returned, floor, raised, renumbered, outnumbered>>
      /\ stage[p] = "idle"
      /\ invoice' = [invoice EXCEPT ![i] =
           [NoInvoice EXCEPT !.state = "DRAFT", !.coupon = discounted, !.total = t]]
  BY DEF Draft, Once, Begins, money, numbering
<1>2. PICK row : row = [NoInvoice EXCEPT !.state = "DRAFT", !.coupon = discounted, !.total = t]
  OBVIOUS
<1>3. /\ row \in Invoice /\ row.state = "DRAFT" /\ row.number = 0 /\ ~row.seats
      /\ row.paid = 0 /\ row.refunded = 0
  BY <1>2, NumberFacts DEF NoInvoice, Invoice, State
<1>4. invoice'[i] = row /\ \A j \in Invs \ {i} : invoice'[j] = invoice[j]
  BY <1>1, <1>2 DEF BooksInv, BooksN
<1>5. BooksN'
  BY <1>1, <1>2, <1>3 DEF BooksInv, BooksN
<1>6. Rows' = Rows \cup {i} /\ i \notin Rows
  BY <1>1, <1>3, <1>4 DEF Rows, Unmade
<1>7. Grows
  BY <1>1, <1>4, <1>6 DEF Grows, BooksInv, BooksN, Opened, Rows
<1>8. \A j \in Invs : RowInv(j)'
  <2>. TAKE j \in Invs
  <2>1. RowInv(j) /\ received[j] \in Nat /\ returned[j] \in Nat
    BY DEF BooksInv, BooksN
  <2>2. CASE j = i
    <3>1. invoice'[j] = row /\ received'[j] = received[j] /\ returned'[j] = returned[j] /\ j \in Rows'
      BY <1>1, <1>4, <1>6, <2>2
    <3>2. 0 <= received[j] /\ 0 <= returned[j]
      BY <2>1
    <3>. QED  BY <1>3, <3>1, <3>2 DEF RowInv
  <2>3. CASE j # i
    BY <1>1, <1>4, <1>6, <2>1, <2>3 DEF RowInv, Opened
  <2>. QED  BY <2>2, <2>3
<1>9. \A q \in Procs : stage[q] = "seats" => req[q].i \notin Rows'
  BY <1>1, <1>6 DEF BooksInv, Held, Unmade
<1>10. Go(p, stage[p], req[p])
  BY <1>1 DEF Go, BooksInv, RequestsN
<1>11. ASSUME NEW q \in Procs PROVE Held(stage[q], req[q])'
  <2>1. PICK v, x : v = stage[q] /\ x = req[q]
    OBVIOUS
  <2>2. x \in Req /\ Held(v, x)
    BY <2>1 DEF BooksInv, RequestsN
  <2>3. Held(v, x)'
    BY <1>5, <1>7, <1>9, <2>1, <2>2, HeldKept
  <2>. QED  BY <1>1, <2>1, <2>3
<1>12. RequestsN' /\ Apart'
  BY <1>1 DEF BooksInv, RequestsN, Apart
<1>. QED  BY <1>5, <1>8, <1>11, <1>12 DEF BooksInv

\* The statements that write the books.
LEMMA TakeNumberBooks ==
  ASSUME BooksInv, NEW p \in Procs, TakeNumber(p), NextInvoiceNumber \in Nat, NextInvoiceNumber >= 1
  PROVE  BooksInv'
<1>1. PICK r : r = [req[p] EXCEPT !.n = NextInvoiceNumber, !.tries = @ + 1]
  OBVIOUS
<1>2. stage[p] = "number" /\ Go(p, "issue", r) /\ UNCHANGED books
  BY <1>1 DEF TakeNumber, At
<1>3. req[p] \in Req /\ Held("number", req[p])
  BY <1>2 DEF BooksInv, RequestsN
<1>4. req[p].tries + 1 \in 0 .. Attempts
  BY <1>3, NumberFacts DEF Held, Req
<1>5. r \in Req /\ r.i = req[p].i /\ r.n = NextInvoiceNumber
  BY <1>1, <1>3, <1>4 DEF Req
<1>6. Held("issue", r) /\ "issue" \in Stage
  BY <1>3, <1>5 DEF Held, Stage
<1>. QED  BY <1>2, <1>5, <1>6, BooksQuiet

\* A statement that writes the row of one invoice, already there.
LEMMA RowWrite ==
  ASSUME BooksInv, NEW p \in Procs, Finish(p), NEW i \in Rows, NEW row \in Invoice,
         NEW paid \in Nat, NEW refunded \in Nat,
         invoice' = [invoice EXCEPT ![i] = row], BooksN',
         received' = [received EXCEPT ![i] = @ + paid],
         returned' = [returned EXCEPT ![i] = @ + refunded],
         row.state \notin {"NONE", "DRAFT"}, row.seats = invoice[i].seats, row.total = invoice[i].total,
         row.paid <= received[i] + paid, row.refunded <= returned[i] + refunded,
         row.state = "PAID" => received[i] + paid >= row.total
  PROVE  BooksInv' /\ Rows' = Rows
<1>0. i \in Invs /\ BooksN
  BY DEF Rows, BooksInv
<1>1. /\ invoice'[i] = row /\ received'[i] = received[i] + paid /\ returned'[i] = returned[i] + refunded
      /\ \A j \in Invs \ {i} : /\ invoice'[j] = invoice[j]
                               /\ received'[j] = received[j] /\ returned'[j] = returned[j]
  BY <1>0 DEF BooksN
<1>2. \A j \in Invs : received[j] \in Nat /\ returned[j] \in Nat
  BY <1>0 DEF BooksN
<1>3. Rows' = Rows
  BY <1>0, <1>1 DEF Rows
<1>4. Grows
  BY <1>1, <1>2, <1>3 DEF Grows, Opened, Rows
<1>5. \A j \in Invs : RowInv(j)'
  <2>. TAKE j \in Invs
  <2>1. CASE j = i
    BY <1>1, <1>3, <2>1 DEF RowInv, Opened
  <2>2. CASE j # i
    <3>1. RowInv(j)
      BY DEF BooksInv
    <3>. QED  BY <1>1, <1>3, <2>2, <3>1 DEF RowInv, Opened
  <2>. QED  BY <2>1, <2>2
<1>6. \A q \in Procs \ {p} : stage[q] = "seats" => req[q].i \notin Rows'
  BY <1>3 DEF BooksInv, Held
<1>. QED  BY <1>3, <1>4, <1>5, <1>6, BooksFinish

LEMMA IssueWriteBooks ==
  ASSUME BooksInv, NEW p \in Procs, IssueWrite(p)
  PROVE  BooksInv' /\ Rows' = Rows
<1>. DEFINE i == req[p].i
<1>1. /\ stage[p] = "issue" /\ Finish(p) /\ UNCHANGED <<received, returned, floor, raised, outnumbered>>
      /\ invoice' = [invoice EXCEPT ![i].state = "ISSUED", ![i].number = req[p].n]
      /\ renumbered' = (renumbered \/ invoice[i].number \notin {0, req[p].n})
  BY DEF IssueWrite, At, money, numbering
<1>2. i \in Rows /\ i \in Invs /\ req[p].n \in Nat /\ invoice[i] \in Invoice /\ RowInv(i)
  BY <1>1 DEF BooksInv, BooksN, RequestsN, Req, Held, Rows
<1>3. PICK row : row = [invoice[i] EXCEPT !.state = "ISSUED", !.number = req[p].n]
  OBVIOUS
<1>4. /\ row \in Invoice /\ row.state = "ISSUED" /\ row.seats = invoice[i].seats /\ row.total = invoice[i].total
      /\ row.paid = invoice[i].paid /\ row.refunded = invoice[i].refunded
  BY <1>2, <1>3 DEF Invoice, State
<1>5. invoice' = [invoice EXCEPT ![i] = row]
  BY <1>1, <1>2, <1>3 DEF BooksInv, BooksN
<1>6. BooksN'
  BY <1>1, <1>2, <1>4, <1>5 DEF BooksInv, BooksN
<1>7. /\ received' = [received EXCEPT ![i] = @ + 0] /\ returned' = [returned EXCEPT ![i] = @ + 0]
      /\ row.paid <= received[i] + 0 /\ row.refunded <= returned[i] + 0
  BY <1>1, <1>2, <1>4 DEF BooksInv, BooksN, RowInv
<1>. HIDE DEF i
<1>. QED  BY <1>1, <1>2, <1>4, <1>5, <1>6, <1>7, RowWrite

LEMMA VoidWriteBooks ==
  ASSUME BooksInv, NEW p \in Procs, VoidWrite(p)
  PROVE  BooksInv' /\ Rows' = Rows
<1>. DEFINE i == req[p].i
<1>1. /\ stage[p] = "void" /\ Finish(p) /\ UNCHANGED <<received, returned, floor, raised, renumbered, outnumbered>>
      /\ invoice' = [invoice EXCEPT ![i].state = "VOID"]
  BY DEF VoidWrite, At, money, numbering
<1>2. i \in Rows /\ i \in Invs /\ invoice[i] \in Invoice /\ RowInv(i)
  BY <1>1 DEF BooksInv, BooksN, RequestsN, Req, Held, Rows
<1>3. PICK row : row = [invoice[i] EXCEPT !.state = "VOID"]
  OBVIOUS
<1>4. /\ row \in Invoice /\ row.state = "VOID" /\ row.seats = invoice[i].seats /\ row.total = invoice[i].total
      /\ row.paid = invoice[i].paid /\ row.refunded = invoice[i].refunded
  BY <1>2, <1>3 DEF Invoice, State
<1>5. invoice' = [invoice EXCEPT ![i] = row]
  BY <1>1, <1>2, <1>3 DEF BooksInv, BooksN
<1>6. BooksN'
  BY <1>1, <1>2, <1>4, <1>5 DEF BooksInv, BooksN
<1>7. /\ received' = [received EXCEPT ![i] = @ + 0] /\ returned' = [returned EXCEPT ![i] = @ + 0]
      /\ row.paid <= received[i] + 0 /\ row.refunded <= returned[i] + 0
  BY <1>1, <1>2, <1>4 DEF BooksInv, BooksN, RowInv
<1>. HIDE DEF i
<1>. QED  BY <1>1, <1>2, <1>4, <1>5, <1>6, <1>7, RowWrite

LEMMA BookBooks ==
  ASSUME BooksInv, NEW p \in Procs, Book(p)
  PROVE  BooksInv' /\ Rows' = Rows
<1>. DEFINE r == req[p]
            i == r.i
<1>1. /\ stage[p] = "book" /\ Finish(p) /\ UNCHANGED <<floor, raised, renumbered, outnumbered>>
      /\ received' = [received EXCEPT ![i] = @ + Of(r, "paid")]
      /\ returned' = [returned EXCEPT ![i] = @ + Of(r, "refunded")]
      /\ invoice' = [invoice EXCEPT ![i].paid = r.row.paid, ![i].refunded = r.row.refunded,
                                    ![i].state = r.row.state]
  BY DEF Book, At, money, numbering
<1>2. /\ i \in Rows /\ i \in Invs /\ invoice[i] \in Invoice /\ r \in Req /\ r.row \in Invoice
      /\ Held("book", r)
  BY <1>1 DEF BooksInv, BooksN, RequestsN, Req, Held, Rows
<1>3. PICK row : row = [invoice[i] EXCEPT !.paid = r.row.paid, !.refunded = r.row.refunded,
                                          !.state = r.row.state]
  OBVIOUS
<1>4. /\ row \in Invoice /\ row.state = r.row.state /\ row.seats = invoice[i].seats /\ row.total = invoice[i].total
      /\ row.paid = r.row.paid /\ row.refunded = r.row.refunded
  BY <1>2, <1>3 DEF Invoice
<1>5. invoice' = [invoice EXCEPT ![i] = row]
  BY <1>1, <1>2, <1>3 DEF BooksInv, BooksN
<1>6. Of(r, "paid") \in Nat /\ Of(r, "refunded") \in Nat
  BY <1>2 DEF Of, Req
<1>7. BooksN'
  BY <1>1, <1>2, <1>4, <1>5, <1>6 DEF BooksInv, BooksN
<1>8. /\ row.state \notin {"NONE", "DRAFT"}
      /\ row.paid <= received[i] + Of(r, "paid") /\ row.refunded <= returned[i] + Of(r, "refunded")
      /\ row.state = "PAID" => received[i] + Of(r, "paid") >= row.total
  BY <1>2, <1>4 DEF Held
<1>. HIDE DEF i, r
<1>. QED  BY <1>1, <1>2, <1>4, <1>5, <1>6, <1>7, <1>8, RowWrite

LEMMA SeatInvoiceWriteBooks ==
  ASSUME BooksInv, NEW p \in Procs, SeatInvoiceWrite(p)
  PROVE  /\ BooksInv'
         /\ Rows' = IF req[p].n \notin Taken(TRUE) THEN Rows \cup {req[p].i} ELSE Rows
<1>. DEFINE r == req[p]
            i == r.i
<1>1. /\ stage[p] = "seats" /\ Finish(p) /\ UNCHANGED <<returned, floor, raised, renumbered>>
      /\ outnumbered' = (outnumbered \/ (~(r.n \notin Taken(TRUE)) /\ r.kind = "bought"))
  BY DEF SeatInvoiceWrite, At, money, numbering
<1>2. /\ i \in Invs /\ i \notin Rows /\ r \in Req /\ Held("seats", r) /\ RowInv(i)
      /\ r.a \in {0, r.t} /\ r.n \in Nat /\ r.t \in Nat
  BY <1>1 DEF BooksInv, RequestsN, Req, Held
<1>3. CASE r.n \in Taken(TRUE)
  <2>1. UNCHANGED <<invoice, received>>
    BY <1>3 DEF SeatInvoiceWrite, money, numbering
  <2>2. BooksN' /\ Rows' = Rows
    BY <1>1, <2>1 DEF BooksInv, BooksN, Rows
  <2>3. Grows
    BY <1>1, <2>1 DEF Grows, Opened, BooksInv, BooksN, Rows
  <2>4. \A j \in Invs : RowInv(j)'
    BY <1>1, <2>1, <2>2 DEF BooksInv, RowInv, Opened
  <2>5. \A q \in Procs \ {p} : stage[q] = "seats" => req[q].i \notin Rows'
    BY <2>2 DEF BooksInv, Held
  <2>. QED  BY <1>1, <1>3, <2>2, <2>3, <2>4, <2>5, BooksFinish
<1>4. CASE r.n \notin Taken(TRUE)
  <2>1. PICK row : row = [NoInvoice EXCEPT !.state = IF r.a = r.t THEN "PAID" ELSE "ISSUED", !.total = r.t,
                                           !.seats = TRUE, !.number = r.n, !.paid = r.a]
    OBVIOUS
  <2>2. invoice' = [invoice EXCEPT ![i] = row] /\ received' = [received EXCEPT ![i] = r.a]
    BY <1>4, <2>1 DEF SeatInvoiceWrite, money, numbering
  <2>3. r.a \in Nat /\ r.t \in Nat
    BY <1>2
  <2>4. /\ row \in Invoice /\ row.state \in {"PAID", "ISSUED"} /\ row.paid = r.a /\ row.refunded = 0
        /\ row.total = r.t /\ (row.state = "PAID" => r.a = r.t)
    BY <1>2, <2>1, <2>3 DEF NoInvoice, Invoice, State
  <2>5. /\ invoice'[i] = row /\ received'[i] = r.a /\ returned' = returned
        /\ \A j \in Invs \ {i} : invoice'[j] = invoice[j] /\ received'[j] = received[j]
    BY <1>1, <1>2, <2>2 DEF BooksInv, BooksN
  <2>6. BooksN'
    BY <1>1, <1>2, <2>2, <2>3, <2>4 DEF BooksInv, BooksN
  <2>7. Rows' = Rows \cup {i}
    BY <1>2, <2>4, <2>5 DEF Rows
  <2>8. received[i] = 0 /\ returned[i] = 0
    BY <1>2 DEF RowInv
  <2>9. Grows
    <3>1. \A j \in Rows : j # i /\ j \in Invs
      BY <1>2 DEF Rows
    <3>2. \A j \in Rows : /\ j \in Rows' /\ invoice'[j].seats = invoice[j].seats
                          /\ invoice'[j].total = invoice[j].total
                          /\ Opened(j) => invoice'[j].state \notin {"NONE", "DRAFT"}
      BY <2>5, <2>7, <3>1 DEF Opened
    <3>3. \A j \in Invs : received[j] <= received'[j] /\ returned[j] <= returned'[j]
      BY <2>3, <2>5, <2>8 DEF BooksInv, BooksN
    <3>. QED  BY <3>2, <3>3 DEF Grows
  <2>10. \A j \in Invs : RowInv(j)'
    <3>. TAKE j \in Invs
    <3>1. CASE j = i
      <4>1. 0 <= returned[i] /\ r.a <= r.a /\ 0 <= 0 /\ (r.a = r.t => r.a >= r.t)
        BY <2>3, <2>8
      <4>2. i \in Rows'
        BY <2>7
      <4>. QED  BY <2>4, <2>5, <2>8, <3>1, <4>1, <4>2 DEF RowInv, Opened
    <3>2. CASE j # i
      <4>1. RowInv(j)
        BY DEF BooksInv
      <4>. QED  BY <2>5, <2>7, <3>2, <4>1 DEF RowInv, Opened
    <3>. QED  BY <3>1, <3>2
  <2>11. \A q \in Procs \ {p} : stage[q] = "seats" => req[q].i \notin Rows'
    BY <1>1, <2>7 DEF BooksInv, Held, Apart
  <2>. QED  BY <1>1, <1>4, <2>6, <2>7, <2>9, <2>10, <2>11, BooksFinish
<1>. QED  BY <1>3, <1>4

LEMMA IssueAgainBooks ==
  ASSUME BooksInv, NEW p \in Procs, IssueAgain(p)
  PROVE  BooksInv'
<1>1. stage[p] = "issue" /\ UNCHANGED books /\ req[p] \in Req /\ Held("issue", req[p])
  BY DEF IssueAgain, At, BooksInv, RequestsN
<1>2. CASE req[p].tries < Attempts
  <2>1. Go(p, "number", req[p])
    BY <1>2 DEF IssueAgain
  <2>2. Held("number", req[p]) /\ "number" \in Stage
    BY <1>1, <1>2 DEF Held, Stage
  <2>. QED  BY <1>1, <2>1, <2>2, BooksQuiet
<1>3. CASE ~(req[p].tries < Attempts)
  <2>1. Go(p, "idle", NoReq)
    BY <1>3 DEF IssueAgain, Finish
  <2>2. Held("idle", NoReq) /\ "idle" \in Stage
    BY DEF Held, Stage
  <2>. QED  BY <1>1, <2>1, <2>2, NoReqType, BooksQuiet
<1>. QED  BY <1>2, <1>3

\* An invoice that is neither a draft nor void stays so; PAID means paid in full.
LEMMA StateFacts ==
  ASSUME NEW s \in State \ {"NONE", "DRAFT"}, NEW paid \in Nat, NEW total \in Nat
  PROVE  /\ StateForPayment(s, paid, total) \in State \ {"NONE", "DRAFT"}
         /\ StateForPayment(s, paid, total) = "PAID" => paid >= total
BY DEF StateForPayment, State

LEMMA SumBooks ==
  ASSUME BooksInv, NEW p \in Procs, Sum(p)
  PROVE  BooksInv'
<1>. DEFINE r == req[p]
            paid == received[r.i] + Of(r, "paid")
            refunded == returned[r.i] + Of(r, "refunded")
<1>1. PICK row : row = [invoice[r.i] EXCEPT !.paid = paid, !.refunded = refunded,
                                            !.state = StateForPayment(@, paid, invoice[r.i].total)]
  OBVIOUS
<1>2. PICK x : x = [r EXCEPT !.row = row]
  OBVIOUS
<1>3. stage[p] = "sum" /\ Go(p, "book", x) /\ UNCHANGED books
  BY <1>1, <1>2 DEF Sum, At, OwnPayment
<1>4. r \in Req /\ r.i \in Invs /\ r.i \in Rows /\ Opened(r.i) /\ invoice[r.i] \in Invoice
  BY <1>3 DEF BooksInv, BooksN, RequestsN, Held, Rows
<1>5. Of(r, "paid") \in Nat /\ Of(r, "refunded") \in Nat
  BY <1>4 DEF Req, Of
<1>6. received[r.i] \in Nat /\ returned[r.i] \in Nat
  BY <1>4 DEF BooksInv, BooksN
<1>7. paid \in Nat /\ refunded \in Nat
  BY <1>5, <1>6
<1>8. invoice[r.i].state \in State \ {"NONE", "DRAFT"}
  BY <1>4 DEF Opened, Invoice
<1>9. /\ row \in Invoice /\ row.paid = paid /\ row.refunded = refunded
      /\ row.state \in State \ {"NONE", "DRAFT"} /\ (row.state = "PAID" => paid >= invoice[r.i].total)
  <2>. HIDE DEF r, paid, refunded
  <2>1. row.paid = paid /\ row.refunded = refunded /\ row.state = StateForPayment(invoice[r.i].state, paid, invoice[r.i].total)
    BY <1>1, <1>4 DEF Invoice
  <2>2. PICK s : s = StateForPayment(invoice[r.i].state, paid, invoice[r.i].total)
    OBVIOUS
  <2>3. s \in State \ {"NONE", "DRAFT"} /\ (s = "PAID" => paid >= invoice[r.i].total)
    BY <1>4, <1>7, <1>8, <2>2, StateFacts DEF Invoice
  <2>4. row = [invoice[r.i] EXCEPT !.paid = paid, !.refunded = refunded, !.state = s]
    BY <1>1, <2>2
  <2>5. row \in Invoice
    BY <1>4, <1>7, <2>3, <2>4 DEF Invoice
  <2>. QED  BY <2>1, <2>2, <2>3, <2>5
<1>10. /\ x \in Req /\ x.i = r.i /\ x.row = row
       /\ Of(x, "paid") = Of(r, "paid") /\ Of(x, "refunded") = Of(r, "refunded")
  BY <1>2, <1>4, <1>9 DEF Req, Of
<1>11. paid <= paid /\ refunded <= refunded
  BY <1>7
<1>12. Held("book", x) /\ "book" \in Stage
  BY <1>4, <1>9, <1>10, <1>11 DEF Held, Stage
<1>. QED  BY <1>3, <1>10, <1>12, BooksQuiet

\* What leaves the books alone, and only ends, if anything.
LEMMA IdleBooks ==
  ASSUME BooksInv, NEW p \in Procs, UNCHANGED books, Finish(p) \/ UNCHANGED <<stage, req>>
  PROVE  BooksInv'
<1>1. CASE Finish(p)
  <2>1. Held("idle", NoReq) /\ "idle" \in Stage
    BY DEF Held, Stage
  <2>. QED  BY <1>1, <2>1, NoReqType, BooksQuiet DEF Finish
<1>2. CASE UNCHANGED <<stage, req>>
  <2>1. Rows' = Rows
    BY DEF Rows, books, money, numbering
  <2>2. BooksN' /\ RequestsN' /\ Apart'
    BY <1>2 DEF BooksInv, BooksN, RequestsN, Apart, books, money, numbering
  <2>3. \A i \in Invs : RowInv(i)'
    BY <2>1 DEF BooksInv, RowInv, Opened, books, money, numbering
  <2>4. \A q \in Procs : Held(stage[q], req[q])'
    BY <1>2, <2>1 DEF BooksInv, Held, Opened, books, money, numbering
  <2>. QED  BY <2>2, <2>3, <2>4 DEF BooksInv
<1>. QED  BY <1>1, <1>2

\* The requests about the coupon and about registrations have nothing of the books.
LEMMA OtherBooks ==
  ASSUME BooksInv, NEW p \in Procs,
         \/ AskSignup(p) \/ AnswerSignup(p)
         \/ \E attached \in BOOLEAN : AskCoupon(p, attached)
         \/ DropWrite(p) \/ Fail(p)
  PROVE  BooksInv'
<1>1. CASE AskSignup(p) \/ AnswerSignup(p)
  <2>1. UNCHANGED books /\ UNCHANGED <<stage, req>>
    BY <1>1 DEF AskSignup, AnswerSignup, Register, Activate, Approve, Opens, On, RegisterWrite, Lookup,
                ApproveWrite, ActivateWrite, Abandon
  <2>. QED  BY <2>1, IdleBooks
<1>2. ASSUME NEW attached \in BOOLEAN, AskCoupon(p, attached)
      PROVE  BooksInv'
  <2>1. CASE Deactivate(p) \/ Reactivate(p)
    BY <2>1, IdleBooks DEF Deactivate, Reactivate, Once
  <2>2. CASE Drop(p, attached)
    <3>1. Held("drop", NoReq) /\ "drop" \in Stage
      BY DEF Held, Stage
    <3>2. Go(p, "drop", NoReq) /\ UNCHANGED books
      BY <2>2 DEF Drop, Reads
    <3>. QED  BY <3>1, <3>2, NoReqType, BooksQuiet
  <2>. QED  BY <1>2, <2>1, <2>2 DEF AskCoupon
<1>3. CASE DropWrite(p) \/ Fail(p)
  <2>1. UNCHANGED books /\ Finish(p)
    BY <1>3 DEF DropWrite, Fail
  <2>. QED  BY <2>1, IdleBooks
<1>. QED  BY <1>1, <1>2, <1>3

-----------------------------------------------------------------------------
(* The next number.                                                        *)

\* There is an upper bound of the numbers.
Bounded == \E b \in Nat : \A i \in Invs : invoice[i].number <= b

\* nextInvoiceNumber is past every number of its series.
LEMMA NextIsPast ==
  ASSUME BooksN, Bounded
  PROVE  /\ NextInvoiceNumber \in Nat /\ NextInvoiceNumber >= 1
         /\ \A k \in Taken(FALSE) : k < NextInvoiceNumber
         /\ NextInvoiceNumber = floor \/ \E n \in Taken(FALSE) \cup {0} : NextInvoiceNumber = n + 1
<1>. DEFINE T == Taken(FALSE) \cup {0}
            Bounds == {b \in Nat : \A k \in T : k <= b}
<1>1. \A i \in Invs : invoice[i].number \in Nat
  BY DEF BooksN, Invoice
<1>2. T \subseteq Nat /\ 0 \in T
  BY <1>1 DEF Taken
<1>3. Bounds # {}
  <2>1. PICK b \in Nat : \A i \in Invs : invoice[i].number <= b
    BY DEF Bounded
  <2>2. \A k \in T : k <= b
    BY <2>1 DEF Taken
  <2>. QED  BY <2>1, <2>2
<1>4. PICK m \in Bounds : \A b \in Bounds : ~(<<b, m>> \in OpToRel(<, Nat))
  <2>1. Bounds \subseteq Nat
    OBVIOUS
  <2>. QED  BY <1>3, <2>1, NatLessThanWellFounded, WFMin
<1>5. m \in Nat /\ \A k \in T : k <= m
  OBVIOUS
<1>6. m \in T
  <2>. SUFFICES ASSUME m \notin T PROVE FALSE
    OBVIOUS
  <2>1. \A k \in T : k \in Nat /\ k < m
    <3>. TAKE k \in T
    <3>1. k \in Nat /\ k <= m /\ k # m
      BY <1>2, <1>5
    <3>. QED  BY <1>5, <3>1
  <2>2. m > 0
    BY <1>2, <2>1
  <2>3. m - 1 \in Nat /\ \A k \in T : k <= m - 1
    <3>. HIDE DEF T, Bounds
    <3>1. m \in Nat
      BY <1>5
    <3>. QED  BY <2>1, <2>2, <3>1
  <2>4. m - 1 \in Bounds /\ <<m - 1, m>> \in OpToRel(<, Nat)
    <3>1. m - 1 < m
      BY <1>5
    <3>. QED  BY <1>5, <2>3, <3>1 DEF OpToRel
  <2>. QED  BY <1>4, <2>4
<1>7. PICK n : n = Highest
  OBVIOUS
<1>8. n \in T /\ \A k \in Taken(FALSE) : k <= n
  BY <1>5, <1>6, <1>7 DEF Highest
<1>9. n \in Nat /\ floor \in Nat
  BY <1>2, <1>8 DEF BooksN
<1>10. NextInvoiceNumber = IF n < floor THEN floor ELSE n + 1
  BY <1>7 DEF NextInvoiceNumber
<1>. HIDE DEF T, Bounds
<1>11. NextInvoiceNumber \in Nat /\ n < NextInvoiceNumber
  BY <1>9, <1>10
<1>12. \A k \in Taken(FALSE) : k < NextInvoiceNumber
  <2>. TAKE k \in Taken(FALSE)
  <2>1. k \in Nat /\ k <= n
    BY <1>2, <1>8 DEF T
  <2>. QED  BY <1>9, <1>11, <2>1
<1>13. NextInvoiceNumber >= 1
  BY <1>9, <1>11
<1>14. n \in Taken(FALSE) \cup {0}
  BY <1>8 DEF T
<1>15. NextInvoiceNumber = floor \/ NextInvoiceNumber = n + 1
  BY <1>10
<1>. QED  BY <1>11, <1>12, <1>13, <1>14, <1>15

-----------------------------------------------------------------------------
(* The steps together.                                                     *)

\* The operator sets the floor of the numbers.
LEMMA FloorBooks ==
  ASSUME BooksInv, NEW p \in Procs, NEW n \in Floors, SetFloor(p, n)
  PROVE  BooksInv' /\ UNCHANGED <<invoice, received, returned, renumbered, outnumbered, stage, req>>
<1>1. /\ UNCHANGED <<invoice, received, returned, renumbered, outnumbered, stage, req>>
      /\ floor' \in Nat /\ raised' \in Nat /\ Rows' = Rows
  BY NumberFacts DEF SetFloor, Once, money, Rows, BooksInv, BooksN
<1>2. BooksN' /\ RequestsN' /\ Apart'
  BY <1>1 DEF BooksInv, BooksN, RequestsN, Apart
<1>3. \A i \in Invs : RowInv(i)'
  BY <1>1 DEF BooksInv, RowInv, Opened
<1>4. \A q \in Procs : Held(stage[q], req[q])'
  BY <1>1 DEF BooksInv, Held, Opened
<1>. QED  BY <1>1, <1>2, <1>3, <1>4 DEF BooksInv

\* What one step does to the rows: nothing, or one invoice in or further.
LEMMA AskInvoicesBooks ==
  ASSUME BooksInv, NEW p \in Procs, AskInvoices(p)
  PROVE  BooksInv'
<1>1. CASE \E i \in Invs, discounted \in BOOLEAN, t \in Totals : Draft(p, i, discounted, t)
  BY <1>1, DraftBooks
<1>2. CASE \E n \in Floors : SetFloor(p, n)
  BY <1>2, FloorBooks
<1>. QED  BY <1>1, <1>2, AskBooks DEF AskInvoices, AskInvoice

\* The parts of a step of RNext.
LEMMA Parts ==
  ASSUME NEW p \in Procs,
         \/ Counted(Quiet) /\ AskSignup(p)
         \/ AnswerSignup(p) /\ UNCHANGED overlaps
         \/ /\ \/ Counted(Quiet) /\ AskBilling(p)
               \/ Answer(p) /\ UNCHANGED overlaps
            /\ Unlinked /\ UNCHANGED <<tenants, approved, at, form>>
  PROVE  \/ AskSignup(p) \/ AnswerSignup(p) \/ AskInvoices(p)
         \/ \E attached \in BOOLEAN : AskCoupon(p, attached)
         \/ Answer(p)
BY DEF AskBilling

LEMMA BooksStep ==
  ASSUME BooksInv, Bounded, [RNext]_rvars
  PROVE  BooksInv'
<1>1. CASE UNCHANGED rvars
  <2>1. UNCHANGED books /\ UNCHANGED <<stage, req>>
    BY <1>1 DEF rvars, vars
  <2>2. Rows' = Rows
    BY <2>1 DEF Rows, books, money, numbering
  <2>3. BooksN' /\ RequestsN' /\ Apart'
    BY <2>1 DEF BooksInv, BooksN, RequestsN, Apart, books, money, numbering
  <2>4. \A i \in Invs : RowInv(i)'
    BY <2>1, <2>2 DEF BooksInv, RowInv, Opened, books, money, numbering
  <2>5. \A q \in Procs : Held(stage[q], req[q])'
    BY <2>1, <2>2 DEF BooksInv, Held, Opened, books, money, numbering
  <2>. QED  BY <2>3, <2>4, <2>5 DEF BooksInv
<1>2. ASSUME NEW p \in Procs,
             \/ AskSignup(p) \/ AnswerSignup(p) \/ AskInvoices(p)
             \/ \E attached \in BOOLEAN : AskCoupon(p, attached)
             \/ Answer(p)
      PROVE  BooksInv'
  <2>1. CASE AskInvoices(p)
    BY <2>1, AskInvoicesBooks
  <2>2. CASE TakeNumber(p)
    BY <2>2, TakeNumberBooks, NextIsPast DEF BooksInv
  <2>3. CASE IssueWrite(p)
    BY <2>3, IssueWriteBooks
  <2>4. CASE IssueAgain(p)
    BY <2>4, IssueAgainBooks
  <2>5. CASE VoidWrite(p)
    BY <2>5, VoidWriteBooks
  <2>6. CASE SeatInvoiceWrite(p)
    BY <2>6, SeatInvoiceWriteBooks
  <2>7. CASE Sum(p)
    BY <2>7, SumBooks
  <2>8. CASE Book(p)
    BY <2>8, BookBooks
  <2>9. CASE \/ AskSignup(p) \/ AnswerSignup(p)
             \/ \E attached \in BOOLEAN : AskCoupon(p, attached)
             \/ DropWrite(p) \/ Fail(p)
    BY <2>9, OtherBooks
  <2>. QED  BY <1>2, <2>1, <2>2, <2>3, <2>4, <2>5, <2>6, <2>7, <2>8, <2>9 DEF Answer
<1>. QED  BY <1>1, <1>2, Parts DEF RNext

\* The only statement that gives an invoice a number gives it the one in hand;
\* all others leave the numbers and the series of the rows alone.
LEMMA Renumbering ==
  ASSUME BooksInv, NEW p \in Procs,
         \/ AskSignup(p) \/ AnswerSignup(p) \/ AskInvoices(p)
         \/ \E attached \in BOOLEAN : AskCoupon(p, attached)
         \/ Answer(p)
  PROVE  \/ /\ \A i \in Invs : invoice'[i].number = invoice[i].number /\ invoice'[i].seats = invoice[i].seats
            /\ UNCHANGED <<floor, raised, renumbered>>
         \/ \E n \in Floors : SetFloor(p, n)
         \/ IssueWrite(p)
         \/ SeatInvoiceWrite(p) /\ req[p].n \notin Taken(TRUE)
<1>0. BooksN
  BY DEF BooksInv
<1>1. CASE AskInvoices(p)
  <2>1. CASE \E i \in Invs, discounted \in BOOLEAN, t \in Totals : Draft(p, i, discounted, t)
    <3>1. PICK i \in Invs, discounted \in BOOLEAN, t \in Totals : Draft(p, i, discounted, t)
      BY <2>1
    <3>2. /\ i \notin Rows /\ UNCHANGED <<floor, raised, renumbered>>
          /\ invoice' = [invoice EXCEPT ![i] =
               [NoInvoice EXCEPT !.state = "DRAFT", !.coupon = discounted, !.total = t]]
      BY <3>1 DEF Draft, Unmade, numbering
    <3>3. invoice[i] = NoInvoice
      BY <3>2 DEF BooksInv, RowInv
    <3>4. invoice'[i].number = invoice[i].number /\ invoice'[i].seats = invoice[i].seats
      BY <1>0, <3>2, <3>3 DEF BooksN, NoInvoice
    <3>5. \A j \in Invs \ {i} : invoice'[j] = invoice[j]
      BY <1>0, <3>2 DEF BooksN
    <3>. QED  BY <3>2, <3>4, <3>5
  <2>2. CASE UNCHANGED books
    BY <2>2 DEF books, money, numbering
  <2>. QED  BY <1>1, <2>1, <2>2 DEF AskInvoices, AskInvoice, Issue, Void, SeatInvoice, Pay, Refund, Reads
<1>2. CASE VoidWrite(p) \/ Book(p)
  <2>1. req[p].i \in Invs /\ UNCHANGED <<floor, raised, renumbered>>
    BY <1>2 DEF BooksInv, RequestsN, Held, Rows, At, VoidWrite, Book, money, numbering
  <2>2. invoice[req[p].i] \in Invoice
    BY <1>0, <2>1 DEF BooksN
  <2>3. /\ \A j \in Invs \ {req[p].i} : invoice'[j] = invoice[j]
        /\ invoice'[req[p].i].number = invoice[req[p].i].number
        /\ invoice'[req[p].i].seats = invoice[req[p].i].seats
    BY <1>0, <1>2, <2>1, <2>2 DEF BooksN, VoidWrite, Book, Invoice, money, numbering
  <2>. QED  BY <2>1, <2>3
<1>3. CASE SeatInvoiceWrite(p) /\ req[p].n \in Taken(TRUE)
  BY <1>3 DEF SeatInvoiceWrite, money, numbering
<1>4. CASE TakeNumber(p) \/ IssueAgain(p) \/ Sum(p) \/ DropWrite(p) \/ Fail(p)
  BY <1>4 DEF TakeNumber, IssueAgain, Sum, DropWrite, Fail, books, money, numbering
<1>5. CASE AskSignup(p) \/ AnswerSignup(p) \/ \E attached \in BOOLEAN : AskCoupon(p, attached)
  BY <1>5 DEF books, AskSignup, AnswerSignup, Register, Activate, Approve, Opens, On, RegisterWrite, Lookup,
              ApproveWrite, ActivateWrite, Abandon, AskCoupon, Deactivate, Reactivate, Drop, Reads, money, numbering
<1>. QED  BY <1>1, <1>2, <1>3, <1>4, <1>5 DEF Answer

LEMMA BoundedStep ==
  ASSUME BooksInv, Bounded, [RNext]_rvars
  PROVE  Bounded'
<1>1. PICK b \in Nat : \A i \in Invs : invoice[i].number <= b
  BY DEF Bounded
<1>2. ASSUME NEW n \in Nat,
             \A i \in Invs : invoice'[i].number \in {invoice[i].number, n}
      PROVE  Bounded'
  <2>1. \A i \in Invs : invoice[i].number \in Nat
    BY DEF BooksInv, BooksN, Invoice
  <2>2. \A i \in Invs : invoice'[i].number <= b + n
    BY <1>1, <1>2, <2>1
  <2>. QED  BY <2>2 DEF Bounded
<1>3. CASE UNCHANGED rvars
  BY <1>2, <1>3 DEF rvars, vars, books, money, numbering
<1>4. ASSUME NEW p \in Procs,
             \/ AskSignup(p) \/ AnswerSignup(p) \/ AskInvoices(p)
             \/ \E attached \in BOOLEAN : AskCoupon(p, attached)
             \/ Answer(p)
      PROVE  Bounded'
  <2>0. req[p].n \in Nat /\ BooksN
    BY DEF BooksInv, RequestsN, Req
  <2>1. CASE \A i \in Invs : invoice'[i].number = invoice[i].number
    BY <1>2, <2>1
  <2>a. CASE \E n \in Floors : SetFloor(p, n)
    BY <2>1, <2>a, FloorBooks
  <2>2. CASE IssueWrite(p)
    <3>1. \A i \in Invs : invoice'[i].number \in {invoice[i].number, req[p].n}
      BY <2>0, <2>2 DEF IssueWrite, BooksN, Invoice, money, numbering
    <3>. QED  BY <1>2, <2>0, <3>1
  <2>3. CASE SeatInvoiceWrite(p) /\ req[p].n \notin Taken(TRUE)
    <3>1. \A i \in Invs : invoice'[i].number \in {invoice[i].number, req[p].n}
      BY <2>0, <2>3 DEF SeatInvoiceWrite, BooksN, Invoice, NoInvoice, money, numbering
    <3>. QED  BY <1>2, <2>0, <3>1
  <2>. QED  BY <1>4, <2>1, <2>a, <2>2, <2>3, Renumbering
<1>. QED  BY <1>3, <1>4, Parts DEF RNext

LEMMA BoundedInit == RInit => Bounded
<1>. SUFFICES ASSUME RInit PROVE Bounded
  OBVIOUS
<1>1. \A i \in Invs : invoice[i].number <= 0
  BY DEF RInit, Init, NoInvoice
<1>. QED  BY <1>1 DEF Bounded

\* The books hold however requests overlap.
LEMMA BooksHold == RSpec => [](BooksInv /\ Bounded)
BY BooksInit, BoundedInit, BooksStep, BoundedStep, PTL DEF RSpec

\* However requests overlap, no invoice says that more was paid or refunded than
\* was, nor that it is paid when it is not (Invoices.NeverOverstated).
THEOREM NeverOverstatedAlways == RSpec => []NeverOverstated
<1>1. BooksInv => NeverOverstated
  BY DEF BooksInv, RowInv, NeverOverstated
<1>. QED  BY BooksHold, <1>1, PTL

-----------------------------------------------------------------------------
(* The numbers.                                                            *)

\* Rows stay, and only a number just taken gets to a transaction that issues.
LEMMA Onward ==
  ASSUME BooksInv, NEW p \in Procs,
         \/ AskSignup(p) \/ AnswerSignup(p) \/ AskInvoices(p)
         \/ \E attached \in BOOLEAN : AskCoupon(p, attached)
         \/ Answer(p)
  PROVE  /\ Rows \subseteq Rows'
         /\ \A q \in Procs : stage'[q] = "issue" =>
              \/ stage[q] = "issue" /\ req'[q].n = req[q].n
              \/ req'[q].n = NextInvoiceNumber
<1>0. BooksN /\ RequestsN
  BY DEF BooksInv
<1>1. ASSUME NEW w, NEW r, Go(p, w, r), w # "issue" \/ r.n = NextInvoiceNumber
      PROVE  \A q \in Procs : stage'[q] = "issue" =>
               \/ stage[q] = "issue" /\ req'[q].n = req[q].n
               \/ req'[q].n = NextInvoiceNumber
  BY <1>0, <1>1, GoFacts
<1>2. CASE TakeNumber(p)
  <2>1. PICK r : r = [req[p] EXCEPT !.n = NextInvoiceNumber, !.tries = @ + 1]
    OBVIOUS
  <2>2. Go(p, "issue", r) /\ UNCHANGED books
    BY <1>2, <2>1 DEF TakeNumber
  <2>3. r.n = NextInvoiceNumber
    BY <1>0, <2>1 DEF RequestsN, Req
  <2>. QED  BY <1>1, <2>2, <2>3 DEF Rows, books, money, numbering
<1>3. CASE IssueWrite(p) \/ VoidWrite(p) \/ Book(p) \/ SeatInvoiceWrite(p)
  <2>1. Rows \subseteq Rows'
    BY <1>3, IssueWriteBooks, VoidWriteBooks, BookBooks, SeatInvoiceWriteBooks
  <2>2. Go(p, "idle", NoReq)
    BY <1>3 DEF IssueWrite, VoidWrite, Book, SeatInvoiceWrite, Finish, money, numbering
  <2>. QED  BY <1>1, <2>1, <2>2
<1>4. CASE IssueAgain(p) \/ Sum(p) \/ DropWrite(p) \/ Fail(p)
  <2>1. \E w, r : Go(p, w, r) /\ w # "issue"
    <3>1. CASE IssueAgain(p)
      <4>1. Go(p, "number", req[p]) \/ Go(p, "idle", NoReq)
        BY <3>1 DEF IssueAgain, Finish
      <4>. QED  BY <4>1
    <3>2. CASE Sum(p)
      <4>1. \E r : Go(p, "book", r)
        BY <3>2 DEF Sum
      <4>. QED  BY <4>1
    <3>3. CASE DropWrite(p) \/ Fail(p)
      <4>1. Go(p, "idle", NoReq)
        BY <3>3 DEF DropWrite, Fail, Finish
      <4>. QED  BY <4>1
    <3>. QED  BY <1>4, <3>1, <3>2, <3>3
  <2>2. UNCHANGED books
    BY <1>4 DEF IssueAgain, Sum, DropWrite, Fail
  <2>. QED  BY <1>1, <2>1, <2>2 DEF Rows, books, money, numbering
<1>5. CASE AskInvoices(p)
  <2>1. CASE \E i \in Invs, discounted \in BOOLEAN, t \in Totals : Draft(p, i, discounted, t)
    <3>1. PICK i \in Invs, discounted \in BOOLEAN, t \in Totals : Draft(p, i, discounted, t)
      BY <2>1
    <3>2. /\ UNCHANGED <<stage, req>>
          /\ invoice' = [invoice EXCEPT ![i] =
               [NoInvoice EXCEPT !.state = "DRAFT", !.coupon = discounted, !.total = t]]
      BY <3>1 DEF Draft, Once
    <3>3. \A j \in Invs : invoice'[j] = invoice[j] \/ invoice'[j].state = "DRAFT"
      BY <1>0, <3>2 DEF BooksN, NoInvoice
    <3>. QED  BY <3>2, <3>3 DEF Rows
  <2>2. CASE \E n \in Floors : SetFloor(p, n)
    BY <2>2, FloorBooks DEF Rows
  <2>3. CASE \E w \in {"number", "void", "seats", "sum"} : (\E r : Go(p, w, r)) /\ UNCHANGED books
    BY <1>1, <2>3 DEF Rows, books
  <2>. QED
    BY <1>5, <2>1, <2>2, <2>3 DEF AskInvoices, AskInvoice, Issue, Void, SeatInvoice, Pay, Refund, Reads
<1>6. CASE AskSignup(p) \/ AnswerSignup(p)
  BY <1>6 DEF books, Rows, AskSignup, AnswerSignup, Register, Activate, Approve, Opens, On, RegisterWrite,
              Lookup, ApproveWrite, ActivateWrite, Abandon, money, numbering
<1>7. CASE \E attached \in BOOLEAN : AskCoupon(p, attached)
  <2>1. CASE Deactivate(p) \/ Reactivate(p)
    BY <2>1 DEF Deactivate, Reactivate, Once, Rows, books, money, numbering
  <2>2. CASE Go(p, "drop", NoReq) /\ UNCHANGED books
    BY <1>1, <2>2 DEF Rows, books, money, numbering
  <2>. QED  BY <1>7, <2>1, <2>2 DEF AskCoupon, Drop, Reads
<1>. QED  BY <1>2, <1>3, <1>4, <1>5, <1>6, <1>7 DEF Answer

\* The floor is no further than the next number of a series without gaps.
LEMMA FloorBelow ==
  ASSUME BooksN, SeriesInv, NEW c \in Nat, Spent = 1 .. c
  PROVE  floor <= c + 1
<1>1. floor \in Nat /\ raised \in Nat /\ floor <= raised /\ raised >= 1
  BY DEF BooksN, SeriesInv
<1>2. CASE raised = 1
  BY <1>1, <1>2
<1>3. CASE raised # 1
  <2>1. raised - 1 \in 1 .. (raised - 1)
    BY <1>1, <1>3
  <2>2. raised - 1 \in 1 .. c
    BY <2>1 DEF Spent
  <2>. QED  BY <1>1, <2>2
<1>. QED  BY <1>2, <1>3

LEMMA SeriesInit == RInit => SeriesInv
<1>. SUFFICES ASSUME RInit PROVE SeriesInv
  OBVIOUS
<1>1. /\ \A i \in Invs : invoice[i].number = 0 /\ ~invoice[i].seats
      /\ \A p \in Procs : stage[p] = "idle"
      /\ floor = 1 /\ raised = 1
  BY DEF RInit, Init, NoInvoice
<1>2. Spent = {}
  <2>1. Taken(FALSE) = {}
    BY <1>1 DEF Taken
  <2>2. raised - 1 = 0 /\ 1 .. 0 = {}
    BY <1>1
  <2>. QED  BY <2>1, <2>2 DEF Spent
<1>3. 1 .. 0 = {} /\ 0 \in Nat
  OBVIOUS
<1>. QED  BY <1>1, <1>2, <1>3 DEF SeriesInv

\* Steps that give no number.
LEMMA SeriesSame ==
  ASSUME BooksInv, BooksInv', Bounded, SeriesInv, Rows \subseteq Rows',
         \A i \in Invs : invoice'[i].number = invoice[i].number /\ invoice'[i].seats = invoice[i].seats,
         UNCHANGED <<floor, raised, renumbered>>,
         \A q \in Procs : stage'[q] = "issue" =>
              \/ stage[q] = "issue" /\ req'[q].n = req[q].n
              \/ req'[q].n = NextInvoiceNumber
  PROVE  SeriesInv'
<1>1. Cardinality(Rows) <= Cardinality(Rows') /\ Cardinality(Rows) \in Nat /\ Cardinality(Rows') \in Nat
  <2>1. Rows' \in SUBSET Invs /\ Rows \in SUBSET Rows'
    BY DEF Rows
  <2>. QED  BY <2>1, CountRows, CountGrows
<1>2. \A i \in Invs : invoice[i].number \in Nat
  BY DEF BooksInv, BooksN, Invoice
<1>3. \A i \in Invs : invoice'[i].seats => invoice'[i].number <= Cardinality(Rows')
  BY <1>1, <1>2 DEF SeriesInv
<1>4. Spent' = Spent
  BY DEF Spent, Taken
<1>5. ASSUME ~renumbered
      PROVE  \E c \in Nat :
               /\ Spent' = 1 .. c
               /\ \A q \in Procs : stage'[q] = "issue" => req'[q].n <= c + 1
  <2>1. PICK c \in Nat : /\ Spent = 1 .. c
                         /\ \A q \in Procs : stage[q] = "issue" => req[q].n <= c + 1
    BY <1>5 DEF SeriesInv
  <2>2. NextInvoiceNumber <= c + 1
    <3>1. CASE \E n \in Taken(FALSE) \cup {0} : NextInvoiceNumber = n + 1
      <4>1. PICK n \in Taken(FALSE) \cup {0} : NextInvoiceNumber = n + 1
        BY <3>1
      <4>2. n \in 1 .. c \/ n = 0
        BY <2>1 DEF Spent
      <4>3. n \in Nat /\ n <= c
        BY <4>2
      <4>. QED  BY <4>1, <4>3
    <3>2. CASE NextInvoiceNumber = floor
      <4>1. floor <= c + 1
        BY <2>1, FloorBelow DEF BooksInv
      <4>. QED  BY <3>2, <4>1
    <3>. QED  BY <3>1, <3>2, NextIsPast DEF BooksInv
  <2>3. \A q \in Procs : stage'[q] = "issue" => req'[q].n <= c + 1
    BY <2>1, <2>2
  <2>. QED  BY <1>4, <2>1, <2>3
<1>6. \A i, j \in Invs :
       i # j /\ invoice'[i].seats = invoice'[j].seats /\ invoice'[i].number = invoice'[j].number
         => invoice'[i].number = 0
  BY DEF SeriesInv
<1>. QED  BY <1>3, <1>5, <1>6 DEF SeriesInv

\* What the transaction of an issue does to the rows.
LEMMA IssueRow ==
  ASSUME BooksInv, NEW p \in Procs, IssueWrite(p)
  PROVE  LET i == req[p].i IN
         /\ i \in Invs /\ req[p].n \in Nat /\ req[p].n >= 1 /\ ~Clash(i, req[p].n)
         /\ ~invoice[i].seats /\ invoice'[i].seats = FALSE /\ invoice'[i].number = req[p].n
         /\ invoice'[i].state = "ISSUED"
         /\ invoice'[i].paid = invoice[i].paid /\ invoice'[i].refunded = invoice[i].refunded
         /\ invoice'[i].total = invoice[i].total
         /\ \A j \in Invs \ {i} : invoice'[j] = invoice[j]
         /\ \A q \in Procs \ {p} : stage'[q] = stage[q] /\ req'[q] = req[q]
         /\ stage'[p] = "idle"
<1>. DEFINE i == req[p].i
<1>1. stage[p] = "issue" /\ Go(p, "idle", NoReq)
  BY DEF IssueWrite, At, Finish, money, numbering
<1>2. i \in Invs /\ req[p].n \in Nat /\ req[p].n >= 1 /\ ~invoice[i].seats /\ invoice[i] \in Invoice
  BY <1>1 DEF BooksInv, BooksN, RequestsN, Req, Held, Rows
<1>3. /\ ~Clash(i, req[p].n)
      /\ invoice' = [invoice EXCEPT ![i].state = "ISSUED", ![i].number = req[p].n]
  BY DEF IssueWrite, money, numbering
<1>4. /\ invoice'[i].seats = FALSE /\ invoice'[i].number = req[p].n
      /\ invoice'[i].state = "ISSUED" /\ invoice'[i].total = invoice[i].total
      /\ invoice'[i].paid = invoice[i].paid /\ invoice'[i].refunded = invoice[i].refunded
      /\ \A j \in Invs \ {i} : invoice'[j] = invoice[j]
  BY <1>2, <1>3 DEF BooksInv, BooksN, Invoice
<1>5. /\ \A q \in Procs \ {p} : stage'[q] = stage[q] /\ req'[q] = req[q]
      /\ stage'[p] = "idle"
  BY <1>1, GoFacts DEF BooksInv
<1>. QED  BY <1>2, <1>3, <1>4, <1>5

LEMMA SeriesIssue ==
  ASSUME BooksInv, BooksInv', SeriesInv, NEW p \in Procs, IssueWrite(p)
  PROVE  SeriesInv'
<1>. DEFINE i == req[p].i
            n == req[p].n
<1>1. /\ i \in Invs /\ n \in Nat /\ n >= 1 /\ ~Clash(i, n)
      /\ ~invoice[i].seats /\ ~invoice'[i].seats /\ invoice'[i].number = n
      /\ \A j \in Invs \ {i} : invoice'[j] = invoice[j]
      /\ \A q \in Procs \ {p} : stage'[q] = stage[q] /\ req'[q] = req[q]
      /\ stage'[p] = "idle" /\ stage[p] = "issue"
      /\ renumbered' = (renumbered \/ invoice[i].number \notin {0, n})
      /\ UNCHANGED <<floor, raised>>
  BY IssueRow DEF IssueWrite, At, money, numbering
<1>2. Rows' = Rows /\ BooksN /\ \A j \in Invs : invoice[j].seats \in BOOLEAN
  BY IssueWriteBooks DEF BooksInv, BooksN, Invoice
<1>. HIDE DEF i, n
<1>3. \A j \in Invs : invoice'[j].seats => invoice'[j].number <= Cardinality(Rows')
  BY <1>1, <1>2 DEF SeriesInv
<1>4. \A j \in Invs : j # i /\ ~invoice[j].seats => invoice[j].number # n
  BY <1>1 DEF Clash
<1>5. ASSUME NEW j \in Invs, NEW k \in Invs, j # k, invoice'[j].seats = invoice'[k].seats,
             invoice'[j].number = invoice'[k].number
      PROVE  invoice'[j].number = 0
  <2>1. CASE j = i
    BY <1>1, <1>4, <1>5, <2>1
  <2>2. CASE k = i
    BY <1>1, <1>4, <1>5, <2>2
  <2>3. CASE j # i /\ k # i
    BY <1>1, <1>5, <2>3 DEF SeriesInv
  <2>. QED  BY <2>1, <2>2, <2>3
<1>6. ASSUME ~renumbered'
      PROVE  \E c \in Nat :
               /\ Spent' = 1 .. c
               /\ \A q \in Procs : stage'[q] = "issue" => req'[q].n <= c + 1
  <2>1. ~renumbered /\ invoice[i].number \in {0, n}
    BY <1>1, <1>6
  <2>2. PICK c \in Nat : /\ Spent = 1 .. c
                         /\ \A q \in Procs : stage[q] = "issue" => req[q].n <= c + 1
    BY <2>1 DEF SeriesInv
  <2>3. n <= c + 1
    BY <1>1, <2>2 DEF n
  <2>4. Taken(FALSE)' = Taken(FALSE) \cup {n}
    <3>1. n # 0 /\ invoice'[i].seats = FALSE
      BY <1>1, BooksInv' DEF BooksInv, BooksN, Invoice
    <3>2. \A j \in Invs \ {i} : invoice'[j] = invoice[j]
      BY <1>1
    <3>3. n \in Taken(FALSE)'
      BY <1>1, <3>1 DEF Taken
    <3>4. ASSUME NEW k \in Taken(FALSE) PROVE k \in Taken(FALSE)'
      <4>1. PICK j \in Invs : invoice[j].seats = FALSE /\ k = invoice[j].number /\ k # 0
        BY DEF Taken
      <4>. QED  BY <2>1, <3>2, <3>3, <4>1 DEF Taken
    <3>5. ASSUME NEW k \in Taken(FALSE)' PROVE k \in Taken(FALSE) \cup {n}
      <4>1. PICK j \in Invs : invoice'[j].seats = FALSE /\ k = invoice'[j].number /\ k # 0
        BY DEF Taken
      <4>. QED  BY <1>1, <3>2, <4>1 DEF Taken
    <3>. QED  BY <3>3, <3>4, <3>5
  <2>5. Spent' = Spent \cup {n}
    BY <1>1, <2>4 DEF Spent
  <2>6. PICK d \in Nat : d >= c /\ Spent' = 1 .. d
    <3>1. CASE n <= c
      <4>1. n \in 1 .. c
        BY <1>1, <3>1
      <4>2. Spent' = 1 .. c
        BY <2>2, <2>5, <4>1
      <4>. QED  BY <4>2
    <3>2. CASE n = c + 1
      <4>1. (1 .. c) \cup {c + 1} = 1 .. c + 1
        OBVIOUS
      <4>2. Spent' = 1 .. c + 1
        BY <2>2, <2>5, <3>2, <4>1
      <4>. QED  BY <4>2
    <3>. QED  BY <1>1, <2>3, <3>1, <3>2
  <2>7. \A q \in Procs : stage'[q] = "issue" => req'[q].n <= d + 1
    <3>. TAKE q \in Procs
    <3>1. CASE q = p
      BY <1>1, <3>1
    <3>2. CASE q # p
      <4>1. req[q].n \in Nat
        BY DEF BooksInv, RequestsN, Req
      <4>. QED  BY <1>1, <2>2, <2>6, <3>2, <4>1
    <3>. QED  BY <3>1, <3>2
  <2>. QED  BY <2>6, <2>7
<1>7. floor' <= raised' /\ raised' >= 1
  BY <1>1 DEF SeriesInv
<1>. QED  BY <1>3, <1>5, <1>6, <1>7 DEF SeriesInv

\* Two runs of numbers from 1 are the longer of them.
LEMMA LongerRun ==
  ASSUME NEW a \in Nat, NEW b \in Nat, b <= a
  PROVE  (1 .. a) \cup (1 .. b) = 1 .. a /\ (1 .. b) \cup (1 .. a) = 1 .. a
OBVIOUS

\* A floor set further on leaves out numbers below it only.
LEMMA SeriesFloor ==
  ASSUME BooksInv, SeriesInv, NEW p \in Procs, NEW n \in Floors, SetFloor(p, n)
  PROVE  SeriesInv'
<1>1. UNCHANGED <<invoice, renumbered, stage, req>>
  BY FloorBooks
<1>2. /\ floor' = n /\ raised' = IF n > raised THEN n ELSE raised
      /\ n \in Nat /\ n # 0 /\ raised \in Nat /\ raised >= 1
  BY InvoiceConstants DEF SetFloor, SeriesInv, BooksInv, BooksN
<1>3. floor' <= raised' /\ raised' >= 1 /\ raised <= raised' /\ raised' \in Nat
  BY <1>2
<1>4. Taken(FALSE)' = Taken(FALSE) /\ Rows' = Rows
  BY <1>1 DEF Taken, Rows
<1>5. ASSUME ~renumbered
      PROVE  \E c \in Nat :
               /\ Spent' = 1 .. c
               /\ \A q \in Procs : stage[q] = "issue" => req[q].n <= c + 1
  <2>1. PICK c \in Nat : /\ Spent = 1 .. c
                         /\ \A q \in Procs : stage[q] = "issue" => req[q].n <= c + 1
    BY <1>5 DEF SeriesInv
  <2>2. Spent' = (1 .. c) \cup (1 .. (raised' - 1))
    <3>1. 1 .. (raised - 1) \subseteq 1 .. (raised' - 1)
      BY <1>2, <1>3
    <3>. QED  BY <1>4, <2>1, <3>1 DEF Spent
  <2>a. PICK e \in Nat : e = raised' - 1
    BY <1>2, <1>3
  <2>3. PICK d \in Nat : d >= c /\ Spent' = 1 .. d
    <3>1. CASE raised' - 1 <= c
      <4>1. Spent' = 1 .. c
        BY <2>2, <2>a, <3>1, LongerRun
      <4>. QED  BY <4>1
    <3>2. CASE ~(raised' - 1 <= c)
      <4>1. c <= e
        BY <2>a, <3>2
      <4>2. Spent' = 1 .. e
        BY <2>2, <2>a, <4>1, LongerRun
      <4>. QED  BY <4>1, <4>2
    <3>. QED  BY <3>1, <3>2
  <2>4. \A q \in Procs : stage[q] = "issue" => req[q].n <= d + 1
    <3>1. \A q \in Procs : req[q].n \in Nat
      BY DEF BooksInv, RequestsN, Req
    <3>. QED  BY <2>1, <2>3, <3>1
  <2>. QED  BY <2>3, <2>4
<1>. QED  BY <1>1, <1>3, <1>4, <1>5 DEF SeriesInv

\* What the invoice of a purchase or a renewal does to the rows.
LEMMA SeatRow ==
  ASSUME BooksInv, NEW p \in Procs, SeatInvoiceWrite(p), req[p].n \notin Taken(TRUE)
  PROVE  LET i == req[p].i IN
         /\ i \in Invs /\ i \notin Rows /\ req[p].n \in Nat /\ req[p].n >= 1
         /\ req[p].n <= 1 + Cardinality(Rows)
         /\ invoice[i] = NoInvoice /\ received[i] = 0 /\ returned[i] = 0
         /\ invoice'[i].seats = TRUE /\ invoice'[i].number = req[p].n
         /\ invoice'[i].state = IF req[p].a = req[p].t THEN "PAID" ELSE "ISSUED"
         /\ invoice'[i].total = req[p].t /\ req[p].t \in Nat
         /\ req[p].a \in {0, req[p].t} /\ ~invoice'[i].coupon
         /\ invoice'[i].paid = req[p].a /\ invoice'[i].refunded = 0
         /\ received'[i] = req[p].a /\ returned' = returned
         /\ \A j \in Invs \ {i} : invoice'[j] = invoice[j] /\ received'[j] = received[j]
         /\ Rows' = Rows \cup {i}
         /\ \A q \in Procs \ {p} : stage'[q] = stage[q] /\ req'[q] = req[q]
         /\ stage'[p] = "idle"
<1>. DEFINE r == req[p]
            i == r.i
<1>1. stage[p] = "seats" /\ Go(p, "idle", NoReq) /\ returned' = returned
  BY DEF SeatInvoiceWrite, At, Finish, money, numbering
<1>2. /\ i \in Invs /\ i \notin Rows /\ r.n \in Nat /\ r.n >= 1 /\ r.n <= 1 + Cardinality(Rows)
      /\ r.a \in {0, r.t} /\ r.t \in Nat
  BY <1>1 DEF BooksInv, RequestsN, Req, Held
<1>3. invoice[i] = NoInvoice /\ received[i] = 0 /\ returned[i] = 0
  BY <1>2 DEF BooksInv, RowInv
<1>4. PICK row : row = [NoInvoice EXCEPT !.state = IF r.a = r.t THEN "PAID" ELSE "ISSUED", !.total = r.t,
                                         !.seats = TRUE, !.number = r.n, !.paid = r.a]
  OBVIOUS
<1>5. invoice' = [invoice EXCEPT ![i] = row] /\ received' = [received EXCEPT ![i] = r.a]
  BY <1>4 DEF SeatInvoiceWrite, money, numbering
<1>6. /\ row.seats = TRUE /\ row.number = r.n /\ row.paid = r.a /\ row.refunded = 0
      /\ row.state = IF r.a = r.t THEN "PAID" ELSE "ISSUED"
      /\ row.coupon = FALSE /\ row.total = r.t
  BY <1>4 DEF NoInvoice
<1>7. /\ invoice'[i] = row /\ received'[i] = r.a
      /\ \A j \in Invs \ {i} : invoice'[j] = invoice[j] /\ received'[j] = received[j]
  BY <1>2, <1>5 DEF BooksInv, BooksN
<1>8. /\ \A q \in Procs \ {p} : stage'[q] = stage[q] /\ req'[q] = req[q]
      /\ stage'[p] = "idle"
  BY <1>1, GoFacts DEF BooksInv
<1>9. Rows' = Rows \cup {i}
  BY SeatInvoiceWriteBooks
<1>. QED  BY <1>1, <1>2, <1>3, <1>6, <1>7, <1>8, <1>9

LEMMA SeriesSeats ==
  ASSUME BooksInv, BooksInv', SeriesInv, NEW p \in Procs, SeatInvoiceWrite(p),
         req[p].n \notin Taken(TRUE)
  PROVE  SeriesInv'
<1>. DEFINE i == req[p].i
            n == req[p].n
<1>1. /\ i \in Invs /\ i \notin Rows /\ n \in Nat /\ n >= 1 /\ n <= 1 + Cardinality(Rows)
      /\ invoice[i] = NoInvoice /\ invoice'[i].seats = TRUE /\ invoice'[i].number = n
      /\ \A j \in Invs \ {i} : invoice'[j] = invoice[j]
      /\ Rows' = Rows \cup {i} /\ n \notin Taken(TRUE)
      /\ \A q \in Procs \ {p} : stage'[q] = stage[q] /\ req'[q] = req[q]
      /\ stage'[p] = "idle" /\ UNCHANGED <<floor, raised, renumbered>>
  BY SeatRow DEF SeatInvoiceWrite, money, numbering
<1>2. \A j \in Invs : invoice[j].seats \in BOOLEAN /\ invoice[j].number \in Nat
  BY DEF BooksInv, BooksN, Invoice
<1>. HIDE DEF i, n
<1>3. /\ Cardinality(Rows) + 1 <= Cardinality(Rows')
      /\ Cardinality(Rows) \in Nat /\ Cardinality(Rows') \in Nat
  <2>1. Rows' \in SUBSET Invs /\ Rows \in SUBSET Rows' /\ Rows # Rows'
    BY <1>1 DEF Rows
  <2>. QED  BY <2>1, CountRows, CountGrows
<1>4. \A j \in Invs : invoice'[j].seats => invoice'[j].number <= Cardinality(Rows')
  <2>. TAKE j \in Invs
  <2>1. CASE j = i
    BY <1>1, <1>3, <2>1
  <2>2. CASE j # i
    BY <1>1, <1>2, <1>3, <2>2 DEF SeriesInv
  <2>. QED  BY <2>1, <2>2
<1>5. \A j \in Invs : j # i /\ invoice[j].seats = TRUE => invoice[j].number # n
  <2>1. n # 0
    BY <1>1
  <2>. QED  BY <1>1, <2>1 DEF Taken
<1>6. ASSUME NEW j \in Invs, NEW k \in Invs, j # k, invoice'[j].seats = invoice'[k].seats,
             invoice'[j].number = invoice'[k].number
      PROVE  invoice'[j].number = 0
  <2>1. CASE j = i
    BY <1>1, <1>5, <1>6, <2>1
  <2>2. CASE k = i
    BY <1>1, <1>5, <1>6, <2>2
  <2>3. CASE j # i /\ k # i
    BY <1>1, <1>6, <2>3 DEF SeriesInv
  <2>. QED  BY <2>1, <2>2, <2>3
<1>7. Spent' = Spent
  <2>1. invoice[i].number = 0
    BY <1>1 DEF NoInvoice
  <2>2. ASSUME NEW k \in Taken(FALSE) PROVE k \in Taken(FALSE)'
    <3>1. PICK j \in Invs : invoice[j].seats = FALSE /\ k = invoice[j].number /\ k # 0
      BY DEF Taken
    <3>. QED  BY <1>1, <2>1, <3>1 DEF Taken
  <2>3. ASSUME NEW k \in Taken(FALSE)' PROVE k \in Taken(FALSE)
    <3>1. PICK j \in Invs : invoice'[j].seats = FALSE /\ k = invoice'[j].number /\ k # 0
      BY DEF Taken
    <3>. QED  BY <1>1, <3>1 DEF Taken
  <2>4. Taken(FALSE)' = Taken(FALSE)
    BY <2>2, <2>3
  <2>. QED  BY <1>1, <2>4 DEF Spent
<1>8. ~renumbered => \E c \in Nat :
               /\ Spent' = 1 .. c
               /\ \A q \in Procs : stage'[q] = "issue" => req'[q].n <= c + 1
  BY <1>1, <1>7 DEF SeriesInv
<1>. QED  BY <1>1, <1>4, <1>6, <1>8 DEF SeriesInv

LEMMA SeriesStep ==
  ASSUME BooksInv, BooksInv', Bounded, SeriesInv, [RNext]_rvars
  PROVE  SeriesInv'
<1>1. CASE UNCHANGED rvars
  <2>1. UNCHANGED <<invoice, floor, raised, renumbered, stage, req>>
    BY <1>1 DEF rvars, vars, books, money, numbering
  <2>2. Rows' = Rows
    BY <2>1 DEF Rows
  <2>. QED  BY <2>1, <2>2, SeriesSame
<1>2. ASSUME NEW p \in Procs,
             \/ AskSignup(p) \/ AnswerSignup(p) \/ AskInvoices(p)
             \/ \E attached \in BOOLEAN : AskCoupon(p, attached)
             \/ Answer(p)
      PROVE  SeriesInv'
  <2>1. CASE IssueWrite(p)
    BY <2>1, SeriesIssue
  <2>2. CASE SeatInvoiceWrite(p) /\ req[p].n \notin Taken(TRUE)
    BY <2>2, SeriesSeats
  <2>3. CASE /\ \A i \in Invs : invoice'[i].number = invoice[i].number /\ invoice'[i].seats = invoice[i].seats
             /\ UNCHANGED <<floor, raised, renumbered>>
    BY <1>2, <2>3, Onward, SeriesSame
  <2>4. CASE \E n \in Floors : SetFloor(p, n)
    BY <2>4, SeriesFloor
  <2>. QED  BY <1>2, <2>1, <2>2, <2>3, <2>4, Renumbering
<1>. QED  BY <1>1, <1>2, Parts DEF RNext

LEMMA SeriesHolds == RSpec => [](BooksInv /\ Bounded /\ SeriesInv)
BY BooksHold, SeriesInit, SeriesStep, PTL DEF RSpec

-----------------------------------------------------------------------------
(* Registrations and the coupon, however requests overlap.                 *)

LEMMA NoFormType == NoForm \in Form
<1>1. (CHOOSE r \in Regs : TRUE) \in Regs
  BY RegistrationConstants
<1>. QED  BY <1>1 DEF NoForm, Form

LEMMA TurnFacts ==
  ASSUME SignupN, NEW p \in Procs, NEW w, NEW f, Turn(p, w, f)
  PROVE  /\ at'[p] = w /\ form'[p] = f
         /\ \A q \in Procs \ {p} : at'[q] = at[q] /\ form'[q] = form[q]
         /\ w \in {"idle", "register", "lookup", "approve", "activate"} /\ f \in Form =>
              /\ at' \in [Procs -> {"idle", "register", "lookup", "approve", "activate"}]
              /\ form' \in [Procs -> Form]
BY DEF Turn, SignupN

\* What a request about invoices or the coupon does to the coupon.
Kept == coupon'.there = coupon.there /\ coupon'.used = coupon.used /\ redeemed' = redeemed
Used == coupon.there /\ coupon'.there /\ coupon'.used = coupon.used + 1 /\ redeemed' = redeemed + 1
Gone == coupon.there /\ ~coupon'.there /\ coupon'.used = coupon.used /\ redeemed = 0 /\ redeemed' = 0
LEMMA CouponMoves ==
  ASSUME SignupN, NEW p \in Procs, AskBilling(p) \/ Answer(p)
  PROVE  /\ coupon' \in Coupon /\ redeemed' \in Nat
         /\ Kept \/ Used \/ (DropWrite(p) /\ Gone)
<1>1. coupon \in Coupon /\ redeemed \in Nat
  BY DEF SignupN
<1>2. CASE UNCHANGED coupons
  BY <1>1, <1>2 DEF coupons, Kept
<1>3. CASE Deactivate(p) \/ Reactivate(p)
  <2>1. PICK active \in BOOLEAN : coupon' = [coupon EXCEPT !.active = active] /\ redeemed' = redeemed
    BY <1>3 DEF Deactivate, Reactivate
  <2>. QED  BY <1>1, <2>1 DEF Kept, Coupon
<1>4. CASE IssueWrite(p)
  <2>1. CASE invoice[req[p].i].coupon
    <3>1. coupon' = [coupon EXCEPT !.used = @ + 1] /\ redeemed' = redeemed + 1 /\ coupon.there
      BY <1>4, <2>1 DEF IssueWrite, Redeemed, money, numbering
    <3>. QED  BY <1>1, <3>1 DEF Used, Coupon
  <2>2. CASE ~invoice[req[p].i].coupon
    <3>1. coupon' = coupon /\ redeemed' = redeemed
      BY <1>4, <2>2 DEF IssueWrite, Redeemed, money, numbering
    <3>. QED  BY <1>1, <3>1 DEF Kept
  <2>. QED  BY <2>1, <2>2
<1>5. CASE DropWrite(p)
  <2>1. coupon' = [coupon EXCEPT !.there = FALSE] /\ redeemed' = redeemed /\ coupon.there /\ redeemed = 0
    BY <1>5 DEF DropWrite
  <2>. QED  BY <1>1, <1>5, <2>1 DEF Gone, Coupon
<1>. QED
  BY <1>2, <1>3, <1>4, <1>5 DEF AskBilling, AskInvoices, AskInvoice, SetFloor, AskCoupon, Answer, Draft, Issue, Void, SeatInvoice, Pay,
     Refund, Reads, Drop, TakeNumber, IssueAgain, VoidWrite, SeatInvoiceWrite, Sum, Book, Fail, money, numbering

\* What becomes of the registrations meanwhile.
LEMMA UnlinkedFacts ==
  ASSUME SignupN, coupon' \in Coupon, Unlinked
  PROVE  /\ reg' \in [Regs -> Reg]
         /\ \A r \in Regs : /\ reg'[r].status = reg[r].status
                            /\ reg'[r].coupon <=> reg[r].coupon /\ coupon'.there
<1>1. \A r \in Regs : reg'[r] = [reg[r] EXCEPT !.coupon = @ /\ coupon'.there]
  BY DEF Unlinked
<1>2. \A r \in Regs : reg[r] \in Reg /\ coupon'.there \in BOOLEAN
  BY DEF SignupN, Coupon
<1>3. ASSUME NEW r \in Regs
      PROVE  /\ reg'[r] \in Reg /\ reg'[r].status = reg[r].status
             /\ reg'[r].coupon <=> reg[r].coupon /\ coupon'.there
  <2>1. PICK b \in BOOLEAN : b = (reg[r].coupon /\ coupon'.there)
    OBVIOUS
  <2>2. reg'[r] = [reg[r] EXCEPT !.coupon = b]
    BY <1>1, <2>1
  <2>3. reg'[r] \in Reg /\ reg'[r].status = reg[r].status /\ reg'[r].coupon = b
    BY <1>2, <2>2 DEF Reg
  <2>. QED  BY <2>1, <2>3
<1>4. reg' \in [Regs -> Reg]
  BY <1>3 DEF Unlinked
<1>. QED  BY <1>3, <1>4

\* The row a registration becomes.
LEMMA RegWrite ==
  ASSUME SignupN, NEW r \in Regs, NEW row \in Reg, reg' = [reg EXCEPT ![r] = row]
  PROVE  /\ reg' \in [Regs -> Reg] /\ reg'[r] = row
         /\ \A s \in Regs \ {r} : reg'[s] = reg[s]
BY DEF SignupN

LEMMA SignupInit == RInit => SignupInv
<1>. SUFFICES ASSUME RInit PROVE SignupInv
  OBVIOUS
<1>1. /\ reg = [r \in Regs |-> [status |-> "NONE", coupon |-> FALSE]]
      /\ tenants = [r \in Regs |-> 0] /\ approved = 0
      /\ at = [p \in Procs |-> "idle"] /\ form = [p \in Procs |-> NoForm]
      /\ coupon = [there |-> TRUE, active |-> TRUE, used |-> 0] /\ redeemed = 0 /\ overlaps = 0
  BY DEF RInit, Init
<1>2. coupon \in Coupon /\ coupon.there /\ coupon.used = 0
  BY <1>1 DEF Coupon
<1>3. SignupN
  BY <1>1, <1>2, NoFormType DEF SignupN, Reg
<1>. QED  BY <1>1, <1>2, <1>3 DEF SignupInv

LEMMA OverlapsType ==
  ASSUME SignupN, [RNext]_rvars
  PROVE  overlaps' \in Nat
BY DEF SignupN, RNext, Counted, rvars, vars

LEMMA SignupBilling ==
  ASSUME SignupInv, NEW p \in Procs, AskBilling(p) \/ Answer(p), Unlinked,
         UNCHANGED <<tenants, approved, at, form>>, overlaps' \in Nat
  PROVE  SignupInv'
<1>1. SignupN /\ coupon' \in Coupon /\ redeemed' \in Nat /\ (Kept \/ Used \/ Gone)
  BY CouponMoves DEF SignupInv
<1>2. /\ reg' \in [Regs -> Reg]
      /\ \A r \in Regs : /\ reg'[r].status = reg[r].status
                         /\ reg'[r].coupon <=> reg[r].coupon /\ coupon'.there
  BY <1>1, UnlinkedFacts
<1>3. SignupN'
  BY <1>1, <1>2 DEF SignupN
<1>4. redeemed \in Nat /\ coupon.used \in Nat /\ redeemed <= coupon.used /\ (redeemed > 0 => coupon.there)
  BY <1>1 DEF SignupInv, SignupN, Coupon
<1>5. redeemed' <= coupon'.used /\ (redeemed' > 0 => coupon'.there)
  BY <1>1, <1>4 DEF Kept, Used, Gone
<1>6. ~coupon'.there => \A r \in Regs : ~reg'[r].coupon
  BY <1>2
<1>7. \A r \in Regs : tenants'[r] <= 1
  BY DEF SignupInv
<1>. QED  BY <1>3, <1>5, <1>6, <1>7 DEF SignupInv

\* What each statement of a registration or an approval writes.
LEMMA SignupReads ==
  ASSUME SignupInv, NEW p \in Procs, AskSignup(p) \/ Lookup(p) \/ Abandon(p), overlaps' \in Nat
  PROVE  SignupInv' /\ UNCHANGED <<reg, tenants, approved, coupons>>
<1>1. UNCHANGED <<reg, tenants, approved, coupons>>
  BY DEF AskSignup, Register, Activate, Approve, Opens, signup, Lookup, Abandon, On, coupons
<1>2. PICK w \in {"idle", "register", "lookup", "approve", "activate"}, f \in Form : Turn(p, w, f)
  <2>1. ASSUME NEW r \in Regs, Register(p, r) \/ Activate(p, r)
        PROVE  \E w \in {"idle", "register", "lookup", "approve", "activate"}, f \in Form : Turn(p, w, f)
    <3>1. [NoForm EXCEPT !.r = r] \in Form
      BY NoFormType DEF Form
    <3>. QED  BY <2>1, <3>1 DEF Register, Activate, Opens
  <2>2. ASSUME NEW r \in Regs, NEW discounted \in BOOLEAN, Approve(p, r, discounted)
        PROVE  \E w \in {"idle", "register", "lookup", "approve", "activate"}, f \in Form : Turn(p, w, f)
    <3>1. [NoForm EXCEPT !.r = r, !.coupon = discounted] \in Form
      BY NoFormType DEF Form
    <3>. QED  BY <2>2, <3>1 DEF Approve, Opens
  <2>3. CASE Lookup(p)
    <3>1. form[p] \in Form /\ coupon.used \in Nat
      BY DEF SignupInv, SignupN, Coupon
    <3>2. [form[p] EXCEPT !.used = coupon.used] \in Form
      BY <3>1 DEF Form
    <3>. QED  BY <2>3, <3>2 DEF Lookup
  <2>4. CASE Abandon(p)
    BY <2>4, NoFormType DEF Abandon, Close
  <2>. QED  BY <2>1, <2>2, <2>3, <2>4 DEF AskSignup
<1>3. SignupN'
  BY <1>1, <1>2, TurnFacts DEF SignupInv, SignupN, coupons
<1>. QED  BY <1>1, <1>3 DEF SignupInv, coupons

LEMMA SignupRegister ==
  ASSUME SignupInv, NEW p \in Procs, RegisterWrite(p), overlaps' \in Nat
  PROVE  /\ SignupInv' /\ UNCHANGED <<tenants, approved, coupons>>
         /\ \E r \in Regs : /\ reg[r].status = "NONE" /\ reg'[r].status = "PENDING_FINANCE_REVIEW"
                            /\ reg'[r].coupon = reg[r].coupon
                            /\ \A s \in Regs \ {r} : reg'[s] = reg[s]
<1>1. form[p].r \in Regs /\ SignupN /\ reg[form[p].r] \in Reg
  BY DEF SignupInv, SignupN, Form
<1>2. PICK r \in Regs : r = form[p].r
  BY <1>1
<1>3. PICK row : row = [reg[r] EXCEPT !.status = "PENDING_FINANCE_REVIEW"]
  OBVIOUS
<1>4. row \in Reg /\ row.status = "PENDING_FINANCE_REVIEW" /\ row.coupon = reg[r].coupon
  BY <1>1, <1>2, <1>3 DEF Reg
<1>5. reg' = [reg EXCEPT ![r] = row] /\ reg[r].status = "NONE"
  BY <1>2, <1>3 DEF RegisterWrite
<1>6. UNCHANGED <<tenants, approved, coupons>> /\ Turn(p, "idle", NoForm)
  BY DEF RegisterWrite, On, coupons, Close
<1>7. SignupN'
  BY <1>1, <1>4, <1>5, <1>6, RegWrite, TurnFacts, NoFormType DEF SignupN, coupons
<1>8. reg'[r] = row /\ \A s \in Regs \ {r} : reg'[s] = reg[s]
  BY <1>1, <1>4, <1>5, RegWrite
<1>9. ~coupon'.there => \A s \in Regs : ~reg'[s].coupon
  BY <1>4, <1>6, <1>8 DEF SignupInv, coupons
<1>. QED  BY <1>4, <1>5, <1>6, <1>7, <1>8, <1>9 DEF SignupInv, coupons

LEMMA SignupApprove ==
  ASSUME SignupInv, NEW p \in Procs, ApproveWrite(p), overlaps' \in Nat
  PROVE  /\ SignupInv' /\ UNCHANGED <<tenants, redeemed>>
         /\ LET f == form[p] IN
            /\ f.r \in Regs /\ (f.coupon => coupon.there) /\ coupon'.there = coupon.there
            /\ reg'[f.r].status = "PENDING_HR_ACTIVATION" /\ reg'[f.r].coupon = f.coupon
            /\ \A s \in Regs \ {f.r} : reg'[s] = reg[s]
            /\ approved' = IF f.coupon THEN approved + 1 ELSE approved
            /\ f.coupon /\ f.used = coupon.used => coupon'.used = coupon.used + 1
            /\ ~f.coupon => coupon'.used = coupon.used
<1>. DEFINE f == form[p]
<1>1. f \in Form /\ f.r \in Regs /\ f.coupon \in BOOLEAN /\ SignupN
  BY DEF SignupInv, SignupN, Form
<1>2. PICK row : row = [status |-> "PENDING_HR_ACTIVATION", coupon |-> f.coupon]
  OBVIOUS
<1>3. row \in Reg /\ row.status = "PENDING_HR_ACTIVATION" /\ row.coupon = f.coupon
  BY <1>1, <1>2 DEF Reg
<1>4. /\ reg' = [reg EXCEPT ![f.r] = row] /\ (f.coupon => coupon.there)
      /\ approved' = IF f.coupon THEN approved + 1 ELSE approved
      /\ coupon' = IF f.coupon THEN Counts(f.used) ELSE coupon
  BY <1>2 DEF ApproveWrite
<1>5. UNCHANGED <<tenants, redeemed>> /\ Turn(p, "idle", NoForm)
  BY DEF ApproveWrite, On, Close
<1>. HIDE DEF f
<1>6. coupon \in Coupon /\ redeemed \in Nat /\ redeemed <= coupon.used /\ coupon.used \in Nat
  BY DEF SignupInv, SignupN, Coupon
<1>7. /\ coupon' \in Coupon /\ coupon'.there = coupon.there
      /\ coupon'.used \in {coupon.used, coupon.used + 1}
      /\ f.coupon /\ f.used = coupon.used => coupon'.used = coupon.used + 1
      /\ ~f.coupon => coupon'.used = coupon.used
  <2>1. CASE f.coupon /\ f.used = coupon.used
    <3>1. coupon' = [coupon EXCEPT !.used = @ + 1]
      BY <1>4, <2>1 DEF Counts
    <3>. QED  BY <1>6, <2>1, <3>1 DEF Coupon
  <2>2. CASE ~(f.coupon /\ f.used = coupon.used)
    <3>1. coupon' = coupon
      BY <1>4, <2>2 DEF Counts
    <3>. QED  BY <1>6, <2>2, <3>1
  <2>. QED  BY <2>1, <2>2
<1>8. reg' \in [Regs -> Reg] /\ reg'[f.r] = row /\ \A s \in Regs \ {f.r} : reg'[s] = reg[s]
  BY <1>1, <1>3, <1>4, RegWrite
<1>9. SignupN'
  <2>1. approved' \in Nat
    BY <1>1, <1>4 DEF SignupN
  <2>2. /\ at' \in [Procs -> {"idle", "register", "lookup", "approve", "activate"}]
        /\ form' \in [Procs -> Form]
    BY <1>1, <1>5, TurnFacts, NoFormType
  <2>. QED  BY <1>1, <1>5, <1>7, <1>8, <2>1, <2>2 DEF SignupN
<1>10. redeemed' <= coupon'.used /\ (redeemed' > 0 => coupon'.there)
  BY <1>5, <1>6, <1>7 DEF SignupInv
<1>11. ~coupon'.there => \A s \in Regs : ~reg'[s].coupon
  BY <1>3, <1>4, <1>7, <1>8 DEF SignupInv
<1>12. SignupInv'
  BY <1>5, <1>9, <1>10, <1>11 DEF SignupInv
<1>. QED  BY <1>1, <1>3, <1>4, <1>5, <1>7, <1>8, <1>12 DEF f

LEMMA SignupActivate ==
  ASSUME SignupInv, NEW p \in Procs, ActivateWrite(p), overlaps' \in Nat
  PROVE  /\ SignupInv' /\ UNCHANGED <<approved, coupons>>
         /\ LET r == form[p].r IN
            /\ r \in Regs /\ tenants[r] = 0 /\ tenants'[r] = 1
            /\ reg'[r].status = "ACTIVE" /\ reg'[r].coupon = reg[r].coupon
            /\ \A s \in Regs \ {r} : reg'[s] = reg[s] /\ tenants'[s] = tenants[s]
<1>1. form[p].r \in Regs /\ SignupN /\ reg[form[p].r] \in Reg
  BY DEF SignupInv, SignupN, Form
<1>2. PICK r \in Regs : r = form[p].r
  BY <1>1
<1>3. PICK row : row = [reg[r] EXCEPT !.status = "ACTIVE"]
  OBVIOUS
<1>4. row \in Reg /\ row.status = "ACTIVE" /\ row.coupon = reg[r].coupon
  BY <1>1, <1>2, <1>3 DEF Reg
<1>5. /\ reg' = [reg EXCEPT ![r] = row] /\ tenants[r] = 0
      /\ tenants' = [tenants EXCEPT ![r] = @ + 1]
  BY <1>2, <1>3 DEF ActivateWrite, NoTenant, Activated
<1>6. UNCHANGED <<approved, coupons>> /\ Turn(p, "idle", NoForm)
  BY DEF ActivateWrite, On, coupons, Close
<1>7. /\ tenants' \in [Regs -> Nat] /\ tenants'[r] = 1
      /\ \A s \in Regs \ {r} : tenants'[s] = tenants[s]
  BY <1>1, <1>5 DEF SignupN
<1>8. reg' \in [Regs -> Reg] /\ reg'[r] = row /\ \A s \in Regs \ {r} : reg'[s] = reg[s]
  BY <1>1, <1>4, <1>5, RegWrite
<1>9. SignupN'
  <2>1. /\ at' \in [Procs -> {"idle", "register", "lookup", "approve", "activate"}]
        /\ form' \in [Procs -> Form]
    BY <1>1, <1>6, TurnFacts, NoFormType
  <2>. QED  BY <1>1, <1>6, <1>7, <1>8, <2>1 DEF SignupN, coupons
<1>10. ~coupon'.there => \A s \in Regs : ~reg'[s].coupon
  BY <1>4, <1>6, <1>8 DEF SignupInv, coupons
<1>11. \A s \in Regs : tenants'[s] <= 1
  <2>. TAKE s \in Regs
  <2>1. CASE s = r
    BY <1>7, <2>1
  <2>2. CASE s # r
    BY <1>7, <2>2 DEF SignupInv
  <2>. QED  BY <2>1, <2>2
<1>12. SignupInv'
  BY <1>6, <1>9, <1>10, <1>11 DEF SignupInv, coupons
<1>. QED  BY <1>2, <1>4, <1>5, <1>6, <1>7, <1>8, <1>12

LEMMA SignupStep ==
  ASSUME SignupInv, [RNext]_rvars
  PROVE  SignupInv'
<1>0. overlaps' \in Nat
  BY OverlapsType DEF SignupInv
<1>1. CASE UNCHANGED rvars
  BY <1>1 DEF rvars, vars, coupons, SignupInv, SignupN
<1>2. ASSUME NEW p \in Procs, AskSignup(p) \/ AnswerSignup(p)
      PROVE  SignupInv'
  BY <1>0, <1>2, SignupReads, SignupRegister, SignupApprove, SignupActivate DEF AnswerSignup
<1>3. ASSUME NEW p \in Procs, AskBilling(p) \/ Answer(p), Unlinked,
             UNCHANGED <<tenants, approved, at, form>>
      PROVE  SignupInv'
  BY <1>0, <1>3, SignupBilling
<1>. QED  BY <1>1, <1>2, <1>3 DEF RNext

LEMMA SignupHolds == RSpec => []SignupInv
BY SignupInit, SignupStep, PTL DEF RSpec

-----------------------------------------------------------------------------
(* Requests that do not overlap.                                           *)

LEMMA AloneInit == RInit => AloneInv
<1>. SUFFICES ASSUME RInit PROVE AloneInv
  OBVIOUS
<1>1. /\ invoice = [i \in Invs |-> NoInvoice]
      /\ received = [i \in Invs |-> 0] /\ returned = [i \in Invs |-> 0]
      /\ coupon = [there |-> TRUE, active |-> TRUE, used |-> 0] /\ redeemed = 0
      /\ renumbered = FALSE /\ outnumbered = FALSE
      /\ stage = [p \in Procs |-> "idle"]
      /\ reg = [r \in Regs |-> [status |-> "NONE", coupon |-> FALSE]]
      /\ tenants = [r \in Regs |-> 0] /\ approved = 0
      /\ at = [p \in Procs |-> "idle"]
  BY DEF RInit, Init
<1>2. Linked = {} /\ Cardinality({}) = 0
  BY <1>1, FS_EmptySet DEF Linked
<1>3. Exact
  BY <1>1, <1>2 DEF Exact
<1>4. Balanced
  BY <1>1 DEF Balanced, NoInvoice
<1>5. Alone /\ OneBody /\ Fresh
  BY <1>1 DEF Alone, OneBody, Fresh, Busy, Free, FreshSignup, FreshBooks
<1>. QED  BY <1>3, <1>4, <1>5 DEF AloneInv

\* A step without overlaps is of the one request in flight, or begins one.
LEMMA Solo ==
  ASSUME BooksInv, SignupInv, AloneInv, overlaps' = 0, NEW p \in Procs,
         \/ Counted(Quiet) /\ AskSignup(p)
         \/ AnswerSignup(p) /\ UNCHANGED overlaps
         \/ /\ \/ Counted(Quiet) /\ AskBilling(p)
               \/ Answer(p) /\ UNCHANGED overlaps
            /\ Unlinked /\ UNCHANGED <<tenants, approved, at, form>>
  PROVE  /\ overlaps = 0 /\ Alone /\ OneBody /\ Fresh /\ Balanced /\ Exact
         /\ \A q \in Procs \ {p} : /\ stage[q] = "idle" /\ stage'[q] = "idle"
                                   /\ at[q] = "idle" /\ at'[q] = "idle"
         /\ at'[p] = "idle" \/ stage'[p] = "idle"
<1>1. overlaps \in Nat /\ SignupN /\ RequestsN
  BY DEF SignupInv, SignupN, BooksInv
<1>2. /\ overlaps = 0
      /\ \/ Quiet
         \/ AnswerSignup(p)
         \/ Answer(p) /\ UNCHANGED at
  <2>1. CASE Counted(Quiet)
    BY <1>1, <2>1 DEF Counted
  <2>2. CASE UNCHANGED overlaps
    BY <2>2 DEF Counted
  <2>. QED  BY <2>1, <2>2
<1>3. Alone /\ OneBody /\ Fresh /\ Balanced /\ Exact
  BY <1>2 DEF AloneInv
<1>4. Busy(p) \/ Quiet
  BY <1>2 DEF Busy, Free, AnswerSignup, Answer, TakeNumber, IssueWrite, IssueAgain, VoidWrite, SeatInvoiceWrite,
              Sum, Book, DropWrite, Fail, At, RegisterWrite, Lookup, ApproveWrite, ActivateWrite, Abandon, On, money, numbering
<1>5. \A q \in Procs \ {p} : stage[q] = "idle" /\ at[q] = "idle"
  BY <1>3, <1>4 DEF Alone, Busy, Free, Quiet, Idle
<1>6. \A q \in Procs \ {p} : stage'[q] = stage[q]
  <2>1. CASE UNCHANGED stage
    BY <2>1
  <2>2. CASE \E w, r : Go(p, w, r)
    BY <1>1, <2>2 DEF Go, RequestsN
  <2>3. CASE AskSignup(p) \/ AnswerSignup(p)
    BY <2>1, <2>3 DEF AskSignup, AnswerSignup, Register, Activate, Approve, Opens, On, RegisterWrite,
                Lookup, ApproveWrite, ActivateWrite, Abandon
  <2>4. CASE AskBilling(p)
    BY <2>1, <2>2, <2>4 DEF AskBilling, AskInvoices, AskInvoice, SetFloor, AskCoupon, Draft, Once, Issue, Void, SeatInvoice, Pay, Refund,
                Reads, Deactivate, Reactivate, Drop, money, numbering
  <2>5. CASE TakeNumber(p) \/ Sum(p) \/ IssueAgain(p)
    BY <2>2, <2>5 DEF TakeNumber, Sum, IssueAgain, Finish
  <2>6. CASE IssueWrite(p) \/ VoidWrite(p) \/ SeatInvoiceWrite(p) \/ Book(p) \/ DropWrite(p) \/ Fail(p)
    BY <2>2, <2>6 DEF IssueWrite, VoidWrite, SeatInvoiceWrite, Book, DropWrite, Fail, Finish, money, numbering
  <2>. QED  BY <2>3, <2>4, <2>5, <2>6 DEF Answer
<1>7. \A q \in Procs \ {p} : at'[q] = at[q]
  <2>1. CASE \E w, f : Turn(p, w, f)
    BY <1>1, <2>1, TurnFacts
  <2>2. CASE AskSignup(p) \/ AnswerSignup(p)
    BY <2>1, <2>2 DEF AskSignup, AnswerSignup, Register, Activate, Approve, Opens, RegisterWrite,
                Lookup, ApproveWrite, ActivateWrite, Abandon, Close
  <2>. QED  BY <2>2
<1>8. at'[p] = "idle" \/ stage'[p] = "idle"
  <2>1. CASE AskSignup(p) \/ AnswerSignup(p)
    <3>1. stage'[p] = stage[p]
      BY <2>1 DEF AskSignup, AnswerSignup, Register, Activate, Approve, Opens, On, RegisterWrite,
                  Lookup, ApproveWrite, ActivateWrite, Abandon
    <3>2. stage[p] = "idle"
      BY <1>3, <2>1 DEF OneBody, AskSignup, AnswerSignup, Register, Activate, Approve, Opens, Free, On, RegisterWrite,
                  Lookup, ApproveWrite, ActivateWrite, Abandon
    <3>. QED  BY <3>1, <3>2
  <2>2. CASE AskBilling(p) /\ UNCHANGED at
    BY <2>2 DEF AskBilling
  <2>3. CASE Answer(p) /\ UNCHANGED at
    <3>1. stage[p] # "idle"
      BY <2>3 DEF Answer, TakeNumber, IssueWrite, IssueAgain, VoidWrite, SeatInvoiceWrite,
              Sum, Book, DropWrite, Fail, At, money, numbering
    <3>. QED  BY <1>3, <2>3, <3>1 DEF OneBody
  <2>. QED  BY <2>1, <2>2, <2>3
<1>. QED  BY <1>2, <1>3, <1>5, <1>6, <1>7, <1>8

\* With others idle, what has to be fresh is what the one request has read.
LEMMA SoloFresh ==
  ASSUME NEW p \in Procs,
         \A q \in Procs \ {p} : stage'[q] = "idle" /\ at'[q] = "idle",
         at'[p] = "idle" \/ stage'[p] = "idle",
         FreshSignup(p)', FreshBooks(p)'
  PROVE  Alone' /\ OneBody' /\ Fresh'
<1>1. \A q \in Procs \ {p} : FreshSignup(q)' /\ FreshBooks(q)'
  BY DEF FreshSignup, FreshBooks
<1>. QED  BY <1>1 DEF Alone, OneBody, Fresh, Busy, Free

\* Statements of registrations and approvals.
LEMMA AloneSignup ==
  ASSUME BooksInv, SignupInv, AloneInv, overlaps' = 0, NEW p \in Procs,
         \/ Counted(Quiet) /\ AskSignup(p)
         \/ AnswerSignup(p) /\ UNCHANGED overlaps
  PROVE  AloneInv'
<1>1. /\ Fresh /\ Balanced /\ Exact /\ OneBody
      /\ \A q \in Procs \ {p} : stage'[q] = "idle" /\ at'[q] = "idle"
      /\ at'[p] = "idle" \/ stage'[p] = "idle"
  BY Solo
<1>2. SignupN /\ coupon.used \in Nat /\ approved \in Nat /\ redeemed \in Nat /\ overlaps' \in Nat
  BY DEF SignupInv, SignupN, Coupon
<1>3. UNCHANGED books /\ UNCHANGED <<stage, req, redeemed>>
  BY DEF AskSignup, AnswerSignup, Register, Activate, Approve, Opens, On, RegisterWrite, Lookup,
         ApproveWrite, ActivateWrite, Abandon, coupons
<1>4. Balanced'
  BY <1>1, <1>3 DEF Balanced, Covered, StateByMoney, books, money, numbering
<1>5. stage[p] = "idle"
  BY <1>1 DEF OneBody, AskSignup, AnswerSignup, Register, Activate, Approve, Opens, Free, On, RegisterWrite,
              Lookup, ApproveWrite, ActivateWrite, Abandon
<1>6. FreshBooks(p)' /\ stage'[p] = "idle"
  BY <1>3, <1>5 DEF FreshBooks
<1>7. ASSUME FreshSignup(p)', Exact' PROVE AloneInv'
  <2>1. Alone' /\ OneBody' /\ Fresh'
    BY <1>1, <1>6, <1>7, SoloFresh
  <2>. QED  BY <1>4, <1>7, <2>1 DEF AloneInv
<1>8. CASE AskSignup(p) \/ Lookup(p) \/ Abandon(p)
  <2>1. UNCHANGED <<reg, tenants, approved, coupons>>
    BY <1>2, <1>8, SignupReads
  <2>2. Exact'
    BY <1>1, <2>1 DEF Exact, Linked, coupons
  <2>3. FreshSignup(p)'
    <3>1. ASSUME NEW r \in Regs, Register(p, r) PROVE FreshSignup(p)'
      <4>1. Turn(p, "register", [NoForm EXCEPT !.r = r])
        BY <3>1 DEF Register, Opens
      <4>2. at'[p] = "register"
        BY <1>2, <4>1, TurnFacts
      <4>. QED  BY <1>6, <4>2 DEF FreshSignup
    <3>2. ASSUME NEW r \in Regs, Activate(p, r) PROVE FreshSignup(p)'
      <4>1. PICK f : f = [NoForm EXCEPT !.r = r]
        OBVIOUS
      <4>2. Turn(p, "activate", f) /\ reg[r].status = "PENDING_HR_ACTIVATION"
        BY <3>2, <4>1 DEF Activate, Opens
      <4>3. at'[p] = "activate" /\ form'[p].r = r
        BY <1>2, <4>1, <4>2, TurnFacts, NoFormType DEF Form
      <4>. QED  BY <1>6, <2>1, <4>2, <4>3 DEF FreshSignup
    <3>3. ASSUME NEW r \in Regs, NEW discounted \in BOOLEAN, Approve(p, r, discounted)
          PROVE  FreshSignup(p)'
      <4>1. PICK f : f = [NoForm EXCEPT !.r = r, !.coupon = discounted]
        OBVIOUS
      <4>2. Turn(p, "lookup", f) /\ reg[r].status = "PENDING_FINANCE_REVIEW"
        BY <3>3, <4>1 DEF Approve, Opens
      <4>3. f.r = r
        BY <4>1, NoFormType DEF Form
      <4>4. at'[p] = "lookup" /\ form'[p] = f
        BY <1>2, <4>2, TurnFacts
      <4>. QED  BY <1>6, <2>1, <4>2, <4>3, <4>4 DEF FreshSignup
    <3>4. CASE Lookup(p)
      <4>1. PICK f : f = [form[p] EXCEPT !.used = coupon.used]
        OBVIOUS
      <4>2. Turn(p, "approve", f) /\ at[p] = "lookup"
        BY <3>4, <4>1 DEF Lookup, On
      <4>3. form[p] \in Form
        BY <1>2 DEF SignupN
      <4>4. at'[p] = "approve" /\ form'[p].r = form[p].r /\ form'[p].used = coupon.used
        BY <1>2, <4>1, <4>2, <4>3, TurnFacts DEF Form
      <4>5. reg[form[p].r].status = "PENDING_FINANCE_REVIEW"
        BY <1>1, <4>2 DEF Fresh, FreshSignup
      <4>. QED  BY <1>6, <2>1, <4>4, <4>5 DEF FreshSignup, coupons
    <3>5. CASE Abandon(p)
      <4>1. at'[p] = "idle"
        BY <1>2, <3>5, TurnFacts DEF Abandon, Close
      <4>. QED  BY <1>6, <4>1 DEF FreshSignup
    <3>. QED  BY <1>8, <3>1, <3>2, <3>3, <3>4, <3>5 DEF AskSignup
  <2>. QED  BY <1>7, <2>2, <2>3
<1>9. ASSUME RegisterWrite(p) \/ ApproveWrite(p) \/ ActivateWrite(p) PROVE FreshSignup(p)'
  <2>1. at'[p] = "idle"
    BY <1>2, <1>9, TurnFacts DEF RegisterWrite, ApproveWrite, ActivateWrite, Close
  <2>. QED  BY <1>6, <2>1 DEF FreshSignup
<1>10. CASE RegisterWrite(p)
  <2>1. PICK r \in Regs :
          /\ reg[r].status = "NONE" /\ reg'[r].status = "PENDING_FINANCE_REVIEW"
          /\ reg'[r].coupon = reg[r].coupon
          /\ \A s \in Regs \ {r} : reg'[s] = reg[s]
          /\ UNCHANGED <<tenants, approved, coupons>>
    BY <1>2, <1>10, SignupRegister
  <2>2. Linked' = Linked
    BY <2>1 DEF Linked
  <2>3. ~reg[r].coupon /\ tenants[r] # 1
    BY <1>1, <2>1 DEF Exact
  <2>4. Exact'
    BY <1>1, <2>1, <2>2, <2>3 DEF Exact, coupons
  <2>. QED  BY <1>7, <1>9, <1>10, <2>4
<1>11. CASE ActivateWrite(p)
  <2>1. PICK r \in Regs :
          /\ tenants[r] = 0 /\ tenants'[r] = 1 /\ r = form[p].r
          /\ reg'[r].status = "ACTIVE" /\ reg'[r].coupon = reg[r].coupon
          /\ \A s \in Regs \ {r} : reg'[s] = reg[s] /\ tenants'[s] = tenants[s]
          /\ UNCHANGED <<approved, coupons>>
    BY <1>2, <1>11, SignupActivate
  <2>2. Linked' = Linked
    BY <2>1 DEF Linked
  <2>3. Exact'
    BY <1>1, <2>1, <2>2 DEF Exact, coupons
  <2>. QED  BY <1>7, <1>9, <1>11, <2>3
<1>12. CASE ApproveWrite(p)
  <2>1. PICK f : f = form[p]
    OBVIOUS
  <2>2. /\ f.r \in Regs /\ reg'[f.r].status = "PENDING_HR_ACTIVATION" /\ reg'[f.r].coupon = f.coupon
        /\ \A s \in Regs \ {f.r} : reg'[s] = reg[s]
        /\ approved' = IF f.coupon THEN approved + 1 ELSE approved
        /\ f.coupon /\ f.used = coupon.used => coupon'.used = coupon.used + 1
        /\ ~f.coupon => coupon'.used = coupon.used
        /\ UNCHANGED tenants
    BY <1>2, <1>12, <2>1, SignupApprove
  <2>3. reg[f.r].status = "PENDING_FINANCE_REVIEW" /\ f.used = coupon.used
    BY <1>1, <1>12, <2>1 DEF Fresh, FreshSignup, ApproveWrite, On
  <2>4. ~reg[f.r].coupon /\ tenants[f.r] # 1
    BY <1>1, <2>2, <2>3 DEF Exact
  <2>5. approved' = Cardinality(Linked')
    <3>1. CASE f.coupon
      <4>1. Linked' = Linked \cup {f.r} /\ f.r \notin Linked
        BY <2>2, <2>4, <3>1 DEF Linked
      <4>2. IsFiniteSet(Linked)
        BY RegistrationConstants, FS_Subset DEF Linked
      <4>3. Cardinality(Linked') = Cardinality(Linked) + 1
        BY <4>1, <4>2, FS_AddElement
      <4>. QED  BY <1>1, <2>2, <3>1, <4>3 DEF Exact
    <3>2. CASE ~f.coupon
      <4>1. Linked' = Linked
        BY <2>2, <2>4, <3>2 DEF Linked
      <4>. QED  BY <1>1, <2>2, <3>2, <4>1 DEF Exact
    <3>. QED  BY <3>1, <3>2
  <2>6. coupon'.used = redeemed' + approved'
    BY <1>1, <1>2, <1>3, <2>2, <2>3 DEF Exact
  <2>7. \A s \in Regs :
       /\ reg'[s].coupon => reg'[s].status \in {"PENDING_HR_ACTIVATION", "ACTIVE"}
       /\ reg'[s].status = "ACTIVE" <=> tenants'[s] = 1
    BY <1>1, <2>2, <2>4 DEF Exact
  <2>8. Exact'
    BY <2>5, <2>6, <2>7 DEF Exact
  <2>. QED  BY <1>7, <1>9, <1>12, <2>8
<1>. QED  BY <1>8, <1>10, <1>11, <1>12 DEF AnswerSignup

\* Statements about the coupon keep what is exact.
LEMMA ExactBilling ==
  ASSUME SignupInv, NEW p \in Procs, AskBilling(p) \/ Answer(p), Unlinked,
         UNCHANGED <<tenants, approved, at, form>>, Exact, Fresh
  PROVE  Exact' /\ \A r \in Regs : reg'[r].status = reg[r].status
<1>1. SignupN /\ coupon' \in Coupon /\ redeemed' \in Nat /\ (Kept \/ Used \/ (DropWrite(p) /\ Gone))
  BY CouponMoves DEF SignupInv
<1>2. \A r \in Regs : /\ reg'[r].status = reg[r].status
                      /\ reg'[r].coupon <=> reg[r].coupon /\ coupon'.there
  BY <1>1, UnlinkedFacts
<1>3. Gone /\ DropWrite(p) => coupon.used = 0 /\ Linked = {}
  BY DEF DropWrite, At, Fresh, FreshSignup
<1>4. Linked' = Linked
  <2>1. CASE coupon'.there
    BY <1>2, <2>1 DEF Linked
  <2>2. CASE ~coupon'.there
    <3>1. Linked = {}
      BY <1>1, <1>3, <2>2 DEF Kept, Used, SignupInv, Linked
    <3>. QED  BY <1>2, <2>2, <3>1 DEF Linked
  <2>. QED  BY <2>1, <2>2
<1>5. coupon.used \in Nat /\ redeemed \in Nat /\ approved \in Nat
  BY <1>1 DEF SignupN, Coupon
<1>6. coupon'.used = redeemed' + approved'
  <2>1. CASE Kept
    BY <2>1 DEF Kept, Exact
  <2>2. CASE Used
    BY <1>5, <2>2 DEF Used, Exact
  <2>3. CASE Gone
    BY <2>3 DEF Gone, Exact
  <2>. QED  BY <1>1, <2>1, <2>2, <2>3
<1>7. \A r \in Regs :
       /\ reg'[r].coupon => reg'[r].status \in {"PENDING_HR_ACTIVATION", "ACTIVE"}
       /\ reg'[r].status = "ACTIVE" <=> tenants'[r] = 1
  BY <1>2 DEF Exact
<1>8. approved' = Cardinality(Linked')
  BY <1>4 DEF Exact
<1>. QED  BY <1>2, <1>6, <1>7, <1>8 DEF Exact

\* What is said of an invoice while requests do not overlap.
Balance(i) ==
  /\ invoice[i].paid = received[i] /\ invoice[i].refunded = returned[i]
  /\ returned[i] <= received[i] /\ received[i] <= invoice[i].total
  /\ invoice[i].state \in {"NONE", "DRAFT", "VOID"} => received[i] = 0
  /\ invoice[i].state \notin {"NONE", "DRAFT", "VOID"} =>
       invoice[i].state = IF Covered(i) THEN "PAID" ELSE StateByMoney(i)

LEMMA BalanceAll ==
  Balanced <=> ~renumbered /\ ~outnumbered /\ \A i \in Invs : Balance(i)
BY DEF Balanced, Balance

\* Requests that only read leave the balance alone.
LEMMA ReadsFresh ==
  ASSUME BooksInv, BooksInv', NEW p \in Procs, NEW w \in Stage, NEW r \in Req, Go(p, w, r),
         UNCHANGED books, Balanced,
         w \in {"number", "issue"} => invoice[r.i].state = "DRAFT",
         w = "seats" => r.n = 1 + Cardinality(Rows),
         w = "void" => received[r.i] = 0,
         w \in {"sum", "book"} =>
           /\ invoice[r.i].state # "VOID" /\ invoice[r.i].total # 0
           /\ r.kind = "paid" => received[r.i] + r.a <= invoice[r.i].total
           /\ r.kind = "refunded" => returned[r.i] + r.a <= received[r.i],
         w = "book" =>
           /\ r.row.paid = received[r.i] + Of(r, "paid")
           /\ r.row.refunded = returned[r.i] + Of(r, "refunded")
           /\ r.row.state = StateForPayment(invoice[r.i].state, r.row.paid, invoice[r.i].total)
  PROVE  FreshBooks(p)' /\ Balanced'
<1>1. stage'[p] = w /\ req'[p] = r
  BY GoFacts DEF BooksInv
<1>2. UNCHANGED <<invoice, received, returned, renumbered, outnumbered>> /\ Rows' = Rows
  BY DEF books, Rows, money, numbering
<1>3. Balanced'
  BY <1>2 DEF Balanced, Covered, StateByMoney
<1>4. FreshBooks(p)'
  BY <1>1, <1>2 DEF FreshBooks
<1>. QED  BY <1>3, <1>4

\* A request that ends leaves nothing to be fresh.
LEMMA EndsFresh ==
  ASSUME BooksInv, NEW p \in Procs, stage'[p] = "idle"
  PROVE  FreshBooks(p)'
BY DEF FreshBooks

\* A statement that writes one invoice, as it balances.
LEMMA BalanceWrite ==
  ASSUME Balanced, NEW i \in Invs, Balance(i)', UNCHANGED <<renumbered, outnumbered>>,
         \A j \in Invs \ {i} : /\ invoice'[j] = invoice[j]
                               /\ received'[j] = received[j] /\ returned'[j] = returned[j]
  PROVE  Balanced'
<1>1. \A j \in Invs \ {i} : Balance(j)'
  BY DEF Balanced, Balance, Covered, StateByMoney
<1>2. \A j \in Invs : Balance(j)'
  BY <1>1
<1>. QED  BY <1>2 DEF Balanced, Balance

LEMMA AloneAskInvoice ==
  ASSUME BooksInv, BooksInv', NEW p \in Procs, NEW i \in Invs, AskInvoice(p, i), Balanced
  PROVE  FreshBooks(p)' /\ Balanced'
<1>0. /\ BooksN /\ \A j \in Invs : Balance(j) /\ RowInv(j)
      /\ ~renumbered /\ ~outnumbered
  BY BalanceAll DEF BooksInv
<1>2. /\ About(i) \in Req /\ About(i).i = i /\ Balance(i) /\ invoice[i] \in Invoice
      /\ invoice[i].total \in Nat
  BY <1>0, NoReqType DEF About, Req, BooksN, NoReq, Invoice
<1>3. ASSUME NEW discounted \in BOOLEAN, NEW t \in Totals, Draft(p, i, discounted, t)
      PROVE  FreshBooks(p)' /\ Balanced'
  <2>1. /\ i \notin Rows /\ stage'[p] = "idle"
        /\ UNCHANGED <<received, returned, renumbered, outnumbered>>
        /\ invoice' = [invoice EXCEPT ![i] =
             [NoInvoice EXCEPT !.state = "DRAFT", !.coupon = discounted, !.total = t]]
    BY <1>3 DEF Draft, Unmade, Once, Begins, money, numbering
  <2>2. received[i] = 0 /\ returned[i] = 0 /\ t \in Nat
    BY <1>0, <2>1, NumberFacts DEF RowInv
  <2>3. /\ invoice'[i].state = "DRAFT" /\ invoice'[i].paid = 0 /\ invoice'[i].refunded = 0
        /\ invoice'[i].total = t
        /\ \A j \in Invs \ {i} : invoice'[j] = invoice[j]
    BY <1>0, <2>1 DEF BooksN, NoInvoice
  <2>4. Balance(i)'
    BY <2>1, <2>2, <2>3 DEF Balance
  <2>. QED  BY <2>1, <2>3, <2>4, BalanceWrite, EndsFresh
<1>4. CASE Issue(p, i)
  <2>1. Go(p, "number", About(i)) /\ UNCHANGED books /\ invoice[i].state = "DRAFT" /\ "number" \in Stage
    BY <1>4 DEF Issue, Reads, Stage
  <2>. QED  BY <1>2, <2>1, ReadsFresh
<1>5. CASE Void(p, i)
  <2>1. Go(p, "void", About(i)) /\ UNCHANGED books /\ received[i] = 0 /\ "void" \in Stage
    BY <1>5 DEF Void, Voidable, Reads, Stage
  <2>. QED  BY <1>2, <2>1, ReadsFresh
<1>6. ASSUME NEW kind \in {"bought", "renewed"}, NEW t \in Totals, NEW a \in {0, t}, SeatInvoice(p, i, kind, t, a)
      PROVE  FreshBooks(p)' /\ Balanced'
  <2>. DEFINE n == 1 + Cardinality(Rows)
  <2>1. n \in Nat /\ a \in Nat /\ t \in Nat /\ kind \in Kind
    BY CountRows, NumberFacts DEF Rows, Kind
  <2>2. PICK r : r = [About(i) EXCEPT !.kind = kind, !.a = a, !.t = t, !.n = n]
    OBVIOUS
  <2>3. Go(p, "seats", r) /\ UNCHANGED books /\ "seats" \in Stage
    BY <1>6, <2>2 DEF SeatInvoice, Reads, Stage
  <2>. HIDE DEF n
  <2>4. r \in Req /\ r.n = n
    BY <1>2, <2>1, <2>2 DEF Req
  <2>. QED  BY <2>3, <2>4, ReadsFresh DEF n
<1>7. ASSUME NEW a \in Amounts \cup Refunds, Pay(p, i, a) \/ Refund(p, i, a)
      PROVE  FreshBooks(p)' /\ Balanced'
  <2>0. /\ a \in Nat /\ a # 0 /\ invoice[i].total \in Nat
        /\ received[i] \in Nat /\ returned[i] \in Nat
    BY <1>0, <1>2, InvoiceConstants DEF BooksN
  <2>a. PICK kind \in {"paid", "refunded"} :
          /\ Go(p, "sum", [About(i) EXCEPT !.kind = kind, !.a = a]) /\ UNCHANGED books
          /\ kind = "paid" => Pay(p, i, a)
          /\ kind = "refunded" => Refund(p, i, a)
    BY <1>7 DEF Pay, Refund, Reads
  <2>1. PICK r : r = [About(i) EXCEPT !.kind = kind, !.a = a] /\ Go(p, "sum", r)
    BY <2>a
  <2>2. r \in Req /\ r.i = i /\ r.kind = kind /\ r.a = a /\ "sum" \in Stage
    BY <1>2, <2>0, <2>1 DEF Req, Stage, Kind
  <2>3. CASE kind = "paid"
    <3>1. invoice[i].state # "VOID" /\ a <= Minus(invoice[i].total, received[i])
      BY <1>2, <2>a, <2>3 DEF Pay, Balance
    <3>2. received[i] + a <= invoice[i].total /\ invoice[i].total # 0
      BY <2>0, <3>1 DEF Minus
    <3>. QED  BY <2>1, <2>2, <2>3, <2>a, <3>1, <3>2, ReadsFresh
  <2>4. CASE kind = "refunded"
    <3>1. received[i] > 0 /\ a <= Minus(received[i], returned[i])
      BY <1>2, <2>a, <2>4 DEF Refund, Balance
    <3>2. returned[i] + a <= received[i]
      BY <2>0, <3>1 DEF Minus
    <3>3. invoice[i].state # "VOID" /\ invoice[i].total # 0
      BY <1>2, <2>0, <3>1 DEF Balance
    <3>. QED  BY <2>1, <2>2, <2>4, <2>a, <3>2, <3>3, ReadsFresh
  <2>. QED  BY <2>3, <2>4
<1>. QED  BY <1>3, <1>4, <1>5, <1>6, <1>7 DEF AskInvoice

LEMMA AloneAsk ==
  ASSUME BooksInv, BooksInv', NEW p \in Procs, AskInvoices(p), Balanced
  PROVE  FreshBooks(p)' /\ Balanced'
<1>1. CASE \E n \in Floors : SetFloor(p, n)
  <2>1. /\ UNCHANGED <<invoice, received, returned, renumbered, outnumbered, stage, req>>
        /\ stage[p] = "idle"
    BY <1>1, FloorBooks DEF SetFloor, Once, Begins
  <2>2. Balanced'
    BY <2>1 DEF Balanced, Covered, StateByMoney
  <2>. QED  BY <2>1, <2>2, EndsFresh
<1>. QED  BY <1>1, AloneAskInvoice DEF AskInvoices

\* The statements and transactions that follow, each on what is still so.
LEMMA AloneReads ==
  ASSUME BooksInv, BooksInv', NEW p \in Procs, TakeNumber(p) \/ IssueAgain(p) \/ Sum(p) \/ DropWrite(p) \/ Fail(p),
         Balanced, FreshBooks(p), NextInvoiceNumber \in Nat
  PROVE  FreshBooks(p)' /\ Balanced'
<1>0. /\ BooksN /\ req[p] \in Req /\ Held(stage[p], req[p])
      /\ UNCHANGED books
  BY DEF BooksInv, RequestsN, Req, TakeNumber, IssueAgain, Sum, DropWrite, Fail
<1>1. ASSUME Finish(p) PROVE FreshBooks(p)' /\ Balanced'
  <2>1. "idle" \in Stage
    BY DEF Stage
  <2>. QED  BY <1>0, <1>1, <2>1, NoReqType, ReadsFresh DEF Finish
<1>2. CASE TakeNumber(p)
  <2>1. PICK r : r = [req[p] EXCEPT !.n = NextInvoiceNumber, !.tries = @ + 1]
    OBVIOUS
  <2>2. stage[p] = "number" /\ Go(p, "issue", r) /\ "issue" \in Stage
    BY <1>2, <2>1 DEF TakeNumber, At, Stage
  <2>3. req[p].tries + 1 \in 0 .. Attempts
    BY <1>0, <2>2, NumberFacts DEF Held, Req
  <2>4. r \in Req /\ r.i = req[p].i
    BY <1>0, <2>1, <2>3 DEF Req
  <2>5. invoice[r.i].state = "DRAFT"
    BY <2>2, <2>4 DEF FreshBooks
  <2>. QED  BY <1>0, <2>2, <2>4, <2>5, ReadsFresh
<1>3. CASE IssueAgain(p)
  <2>1. CASE req[p].tries < Attempts
    <3>1. Go(p, "number", req[p]) /\ "number" \in Stage /\ stage[p] = "issue"
      BY <1>3, <2>1 DEF IssueAgain, At, Stage
    <3>2. invoice[req[p].i].state = "DRAFT"
      BY <3>1 DEF FreshBooks
    <3>. QED  BY <1>0, <3>1, <3>2, ReadsFresh
  <2>2. CASE ~(req[p].tries < Attempts)
    BY <1>1, <1>3, <2>2 DEF IssueAgain
  <2>. QED  BY <2>1, <2>2
<1>4. CASE Sum(p)
  <2>. DEFINE r == req[p]
              paid == received[r.i] + Of(r, "paid")
              refunded == returned[r.i] + Of(r, "refunded")
  <2>1. PICK row : row = [invoice[r.i] EXCEPT !.paid = paid, !.refunded = refunded,
                                              !.state = StateForPayment(@, paid, invoice[r.i].total)]
    OBVIOUS
  <2>2. PICK x : x = [r EXCEPT !.row = row]
    OBVIOUS
  <2>3. stage[p] = "sum" /\ Go(p, "book", x) /\ "book" \in Stage
    BY <1>4, <2>1, <2>2 DEF Sum, At, OwnPayment, Stage
  <2>4. req'[p] = x /\ x \in Req
    BY <2>3, GoFacts, BooksInv' DEF BooksInv, RequestsN
  <2>5. /\ invoice[r.i] \in Invoice /\ invoice[r.i].state # "VOID"
        /\ invoice[r.i].total # 0
        /\ r.kind = "paid" => received[r.i] + r.a <= invoice[r.i].total
        /\ r.kind = "refunded" => returned[r.i] + r.a <= received[r.i]
    BY <1>0, <2>3 DEF FreshBooks, BooksN, Held, Rows
  <2>. HIDE DEF r, paid, refunded
  <2>6. row.paid = paid /\ row.refunded = refunded /\ row.state = StateForPayment(invoice[r.i].state, paid, invoice[r.i].total)
    BY <2>1, <2>5 DEF Invoice
  <2>7. x.row = row /\ x.i = r.i /\ x.kind = r.kind /\ x.a = r.a
    BY <1>0, <2>2 DEF Req, r
  <2>8. paid = received[x.i] + Of(x, "paid") /\ refunded = returned[x.i] + Of(x, "refunded")
    BY <2>7 DEF paid, refunded, Of
  <2>. QED  BY <1>0, <2>3, <2>4, <2>5, <2>6, <2>7, <2>8, ReadsFresh
<1>5. CASE DropWrite(p) \/ Fail(p)
  BY <1>1, <1>5 DEF DropWrite, Fail
<1>. QED  BY <1>2, <1>3, <1>4, <1>5

LEMMA AloneIssue ==
  ASSUME BooksInv, NEW p \in Procs, IssueWrite(p), Balanced, FreshBooks(p)
  PROVE  FreshBooks(p)' /\ Balanced'
<1>1. PICK i \in Invs :
        /\ i = req[p].i /\ invoice'[i].state = "ISSUED" /\ stage'[p] = "idle"
        /\ invoice'[i].paid = invoice[i].paid /\ invoice'[i].refunded = invoice[i].refunded
        /\ invoice'[i].total = invoice[i].total /\ invoice'[i].seats = FALSE
        /\ \A j \in Invs \ {i} : invoice'[j] = invoice[j]
  BY IssueRow
<1>2. UNCHANGED <<received, returned, floor, raised, outnumbered>> /\ invoice[i].state = "DRAFT"
  BY <1>1 DEF IssueWrite, At, FreshBooks, money, numbering
<1>3. invoice[i].number = 0 /\ received[i] = 0
  BY <1>2 DEF BooksInv, RowInv, Opened, Balanced
<1>4. UNCHANGED renumbered
  BY <1>1, <1>3 DEF IssueWrite, BooksInv, BooksN, money, numbering
<1>5. StateForPayment("ISSUED", 0, invoice[i].total) = "ISSUED"
  BY DEF StateForPayment
<1>6. Balance(i)'
  BY <1>1, <1>2, <1>3, <1>5 DEF Balance, Balanced, Covered, StateByMoney
<1>. QED  BY <1>1, <1>2, <1>4, <1>6, BalanceWrite, EndsFresh

LEMMA AloneVoid ==
  ASSUME BooksInv, NEW p \in Procs, VoidWrite(p), Balanced, FreshBooks(p)
  PROVE  FreshBooks(p)' /\ Balanced'
<1>1. PICK i \in Invs : i = req[p].i
  BY DEF BooksInv, VoidWrite, At, Held, Rows
<1>2. /\ invoice' = [invoice EXCEPT ![i].state = "VOID"] /\ Go(p, "idle", NoReq)
      /\ UNCHANGED <<received, returned, floor, raised, renumbered, outnumbered>> /\ received[i] = 0
  BY <1>1 DEF VoidWrite, At, FreshBooks, Finish, money, numbering
<1>3. BooksN /\ invoice[i] \in Invoice
  BY DEF BooksInv, BooksN
<1>4. /\ invoice'[i].state = "VOID" /\ \A j \in Invs \ {i} : invoice'[j] = invoice[j]
      /\ invoice'[i].paid = invoice[i].paid /\ invoice'[i].refunded = invoice[i].refunded
      /\ invoice'[i].total = invoice[i].total
  BY <1>2, <1>3 DEF BooksN, Invoice
<1>5. Balance(i)'
  BY <1>2, <1>4 DEF Balance, Balanced
<1>6. stage'[p] = "idle"
  BY <1>2, GoFacts DEF BooksInv
<1>. QED  BY <1>2, <1>4, <1>5, <1>6, BalanceWrite, EndsFresh

LEMMA AloneSeats ==
  ASSUME BooksInv, SeriesInv, NEW p \in Procs, SeatInvoiceWrite(p), Balanced, FreshBooks(p)
  PROVE  FreshBooks(p)' /\ Balanced'
<1>1. stage[p] = "seats" /\ req[p].n = 1 + Cardinality(Rows) /\ Cardinality(Rows) \in Nat
  <2>1. Rows \in SUBSET Invs
    BY DEF Rows
  <2>. QED  BY <2>1, CountRows DEF SeatInvoiceWrite, At, FreshBooks, money, numbering
<1>2. req[p].n \notin Taken(TRUE)
  <2>. SUFFICES ASSUME req[p].n \in Taken(TRUE) PROVE FALSE
    OBVIOUS
  <2>1. PICK j \in Invs : invoice[j].seats = TRUE /\ req[p].n = invoice[j].number
    BY DEF Taken
  <2>2. invoice[j].number <= Cardinality(Rows)
    BY <2>1 DEF SeriesInv
  <2>. QED  BY <1>1, <2>1, <2>2
<1>3. PICK i \in Invs, t \in Nat, a \in Nat :
        /\ a \in {0, t}
        /\ invoice'[i].state = IF a = t THEN "PAID" ELSE "ISSUED"
        /\ invoice'[i].total = t /\ invoice'[i].seats = TRUE
        /\ invoice'[i].paid = a /\ invoice'[i].refunded = 0
        /\ received'[i] = a /\ returned' = returned /\ returned[i] = 0
        /\ \A j \in Invs \ {i} : invoice'[j] = invoice[j] /\ received'[j] = received[j]
        /\ stage'[p] = "idle"
  <2>1. /\ req[p].i \in Invs /\ req[p].t \in Nat /\ req[p].a \in {0, req[p].t}
        /\ returned[req[p].i] = 0
    BY <1>2, SeatRow
  <2>2. req[p].a \in Nat
    BY <2>1
  <2>3. LET i == req[p].i
            a == req[p].a
            t == req[p].t
        IN /\ invoice'[i].state = IF a = t THEN "PAID" ELSE "ISSUED"
           /\ invoice'[i].total = t /\ invoice'[i].seats = TRUE
           /\ invoice'[i].paid = a /\ invoice'[i].refunded = 0
           /\ received'[i] = a /\ returned' = returned
           /\ \A j \in Invs \ {i} : invoice'[j] = invoice[j] /\ received'[j] = received[j]
           /\ stage'[p] = "idle"
    BY <1>2, SeatRow
  <2>. QED  BY <2>1, <2>2, <2>3
<1>4. UNCHANGED <<renumbered, outnumbered>>
  BY <1>2 DEF SeatInvoiceWrite, BooksInv, BooksN
<1>5. a \in Nat /\ a <= t /\ 0 <= a
  BY <1>3
<1>6. invoice'[i].state = IF t = 0 THEN "PAID" ELSE StateForPayment("ISSUED", a, t)
  BY <1>3, <1>5 DEF StateForPayment
<1>7. Covered(i)' = (t = 0) /\ StateByMoney(i)' = StateForPayment("ISSUED", a, t)
  BY <1>3 DEF Covered, StateByMoney
<1>8. invoice'[i].state \notin {"NONE", "DRAFT", "VOID"}
  BY <1>3
<1>9. Balance(i)'
  BY <1>3, <1>5, <1>6, <1>7, <1>8 DEF Balance
<1>. QED  BY <1>3, <1>4, <1>9, BalanceWrite, EndsFresh

LEMMA SamePayment ==
  ASSUME NEW s \in State \ {"NONE", "DRAFT", "VOID"}, NEW paid \in Nat, NEW total \in Nat
  PROVE  /\ StateForPayment(s, paid, total) = StateForPayment("ISSUED", paid, total)
         /\ StateForPayment(s, paid, total) \notin {"NONE", "DRAFT", "VOID"}
BY DEF StateForPayment, State

LEMMA AloneBook ==
  ASSUME BooksInv, NEW p \in Procs, Book(p), Balanced, FreshBooks(p)
  PROVE  FreshBooks(p)' /\ Balanced'
<1>1. PICK r : r = req[p]
  OBVIOUS
<1>2. PICK i \in Invs : i = r.i
  BY <1>1 DEF BooksInv, Book, At, Held, Rows
<1>3. /\ received' = [received EXCEPT ![i] = @ + Of(r, "paid")]
      /\ returned' = [returned EXCEPT ![i] = @ + Of(r, "refunded")]
      /\ invoice' = [invoice EXCEPT ![i].paid = r.row.paid, ![i].refunded = r.row.refunded,
                                    ![i].state = r.row.state]
      /\ Go(p, "idle", NoReq) /\ UNCHANGED <<floor, raised, renumbered, outnumbered>> /\ stage[p] = "book"
  BY <1>1, <1>2 DEF Book, At, Finish, money, numbering
<1>4. BooksN /\ invoice[i] \in Invoice /\ r \in Req /\ r.row \in Invoice /\ Held("book", r)
  BY <1>1, <1>3 DEF BooksInv, BooksN, RequestsN, Req
<1>5. /\ r.row.paid = received[i] + Of(r, "paid") /\ r.row.refunded = returned[i] + Of(r, "refunded")
      /\ r.row.state = StateForPayment(invoice[i].state, r.row.paid, invoice[i].total)
      /\ invoice[i].state # "VOID" /\ invoice[i].total # 0
      /\ r.kind = "paid" => received[i] + r.a <= invoice[i].total
      /\ r.kind = "refunded" => returned[i] + r.a <= received[i]
  BY <1>1, <1>2, <1>3 DEF FreshBooks
<1>6. /\ received[i] \in Nat /\ returned[i] \in Nat /\ r.a \in Nat /\ r.row.paid \in Nat
      /\ returned[i] <= received[i] /\ received[i] <= invoice[i].total /\ invoice[i].total \in Nat
  BY <1>4 DEF BooksN, Req, Invoice, Balanced
<1>7. /\ received'[i] = r.row.paid /\ returned'[i] = r.row.refunded
      /\ invoice'[i].paid = r.row.paid /\ invoice'[i].refunded = r.row.refunded
      /\ invoice'[i].state = r.row.state /\ invoice'[i].total = invoice[i].total
  BY <1>3, <1>4, <1>5 DEF BooksN, Invoice
<1>8. r.row.refunded <= r.row.paid /\ r.row.paid <= invoice[i].total
  BY <1>5, <1>6 DEF Of
<1>9. invoice[i].state \in State \ {"NONE", "DRAFT", "VOID"}
  BY <1>2, <1>4, <1>5 DEF Held, Opened, Invoice
<1>10. /\ r.row.state = StateForPayment("ISSUED", r.row.paid, invoice[i].total)
       /\ r.row.state \notin {"NONE", "DRAFT", "VOID"}
  BY <1>5, <1>6, <1>9, SamePayment
<1>11. Balance(i)'
  BY <1>5, <1>7, <1>8, <1>10 DEF Balance, Covered, StateByMoney
<1>12. \A j \in Invs \ {i} : /\ invoice'[j] = invoice[j]
                             /\ received'[j] = received[j] /\ returned'[j] = returned[j]
  BY <1>3, <1>4 DEF BooksN
<1>13. stage'[p] = "idle"
  BY <1>3, GoFacts DEF BooksInv
<1>. QED  BY <1>3, <1>11, <1>12, <1>13, BalanceWrite, EndsFresh

\* Requests about invoices and the coupon.
LEMMA AloneBilling ==
  ASSUME BooksInv, BooksInv', Bounded, SeriesInv, SignupInv, AloneInv, overlaps' = 0, NEW p \in Procs,
         \/ Counted(Quiet) /\ AskBilling(p)
         \/ Answer(p) /\ UNCHANGED overlaps,
         Unlinked, UNCHANGED <<tenants, approved, at, form>>
  PROVE  AloneInv'
<1>1. /\ Fresh /\ Balanced /\ Exact /\ OneBody
      /\ \A q \in Procs \ {p} : stage'[q] = "idle" /\ at'[q] = "idle"
      /\ at'[p] = "idle" \/ stage'[p] = "idle"
  BY Solo
<1>2. Exact' /\ \A r \in Regs : reg'[r].status = reg[r].status
  BY <1>1, ExactBilling
<1>3. FreshBooks(p) /\ NextInvoiceNumber \in Nat
  BY <1>1, NextIsPast DEF Fresh, BooksInv
<1>4. FreshBooks(p)' /\ Balanced'
  <2>1. CASE AskInvoices(p)
    BY <1>1, <2>1, AloneAsk
  <2>2. ASSUME NEW attached \in BOOLEAN, AskCoupon(p, attached) PROVE FreshBooks(p)' /\ Balanced'
    <3>1. UNCHANGED books /\ stage'[p] \in {"idle", "drop"}
      <4>1. CASE Drop(p, attached)
        <5>1. Go(p, "drop", NoReq) /\ UNCHANGED books
          BY <4>1 DEF Drop, Reads
        <5>. QED  BY <5>1, GoFacts DEF BooksInv
      <4>2. CASE Deactivate(p) \/ Reactivate(p)
        BY <4>2 DEF Deactivate, Reactivate, Once, Begins
      <4>. QED  BY <2>2, <4>1, <4>2 DEF AskCoupon
    <3>. QED  BY <1>1, <3>1 DEF FreshBooks, Balanced, Covered, StateByMoney, books, money, numbering
  <2>3. CASE TakeNumber(p) \/ IssueAgain(p) \/ Sum(p) \/ DropWrite(p) \/ Fail(p)
    BY <1>1, <1>3, <2>3, AloneReads
  <2>4. CASE IssueWrite(p)
    BY <1>1, <1>3, <2>4, AloneIssue
  <2>5. CASE VoidWrite(p)
    BY <1>1, <1>3, <2>5, AloneVoid
  <2>6. CASE SeatInvoiceWrite(p)
    BY <1>1, <1>3, <2>6, AloneSeats
  <2>7. CASE Book(p)
    BY <1>1, <1>3, <2>7, AloneBook
  <2>. QED  BY <2>1, <2>2, <2>3, <2>4, <2>5, <2>6, <2>7 DEF AskBilling, Answer
<1>5. FreshSignup(p)'
  <2>1. at[p] = "idle"
    <3>1. CASE AskBilling(p)
      BY <3>1 DEF AskBilling
    <3>2. CASE Answer(p)
      BY <1>1, <3>2 DEF OneBody, Answer, TakeNumber, IssueWrite, IssueAgain, VoidWrite, SeatInvoiceWrite,
              Sum, Book, DropWrite, Fail, At, money, numbering
    <3>. QED  BY <3>1, <3>2
  <2>2. stage'[p] = "drop" => coupon'.used = 0 /\ Linked' = {}
    <3>. SUFFICES ASSUME stage'[p] = "drop" PROVE coupon'.used = 0 /\ Linked' = {}
      OBVIOUS
    <3>1. AskBilling(p)
      <4>. SUFFICES ASSUME Answer(p) PROVE FALSE
        OBVIOUS
      <4>1. ASSUME NEW w, NEW r, Go(p, w, r), w # "drop" PROVE FALSE
        BY <4>1, GoFacts DEF BooksInv
      <4>2. CASE TakeNumber(p) \/ Sum(p) \/ IssueAgain(p)
        BY <4>1, <4>2 DEF TakeNumber, Sum, IssueAgain, Finish
      <4>3. CASE IssueWrite(p) \/ VoidWrite(p) \/ SeatInvoiceWrite(p) \/ Book(p) \/ DropWrite(p) \/ Fail(p)
        BY <4>1, <4>3 DEF IssueWrite, VoidWrite, SeatInvoiceWrite, Book, DropWrite, Fail, Finish, money, numbering
      <4>. QED  BY <4>2, <4>3 DEF Answer
    <3>2. Drop(p, \E r \in Regs : reg[r].coupon)
      <4>1. ASSUME NEW w, NEW r, Go(p, w, r), w # "drop" PROVE FALSE
        BY <4>1, GoFacts DEF BooksInv
      <4>2. ASSUME Once(p) PROVE FALSE
        BY <4>2 DEF Once, Begins
      <4>3. ~AskInvoices(p)
        BY <4>1, <4>2 DEF AskInvoices, AskInvoice, SetFloor, Draft, Issue, Void, SeatInvoice, Pay, Refund, Reads, money, numbering
      <4>. QED  BY <3>1, <4>2, <4>3 DEF AskBilling, AskCoupon, Deactivate, Reactivate
    <3>3. coupon' = coupon /\ coupon.used = 0 /\ Linked = {}
      BY <3>2 DEF Drop, Unused, Reads, coupons, Linked
    <3>4. SignupN /\ coupon \in Coupon
      BY DEF SignupInv, SignupN
    <3>5. Linked' = {}
      BY <3>3, <3>4, UnlinkedFacts DEF Linked
    <3>. QED  BY <3>3, <3>5
  <2>. QED  BY <2>1, <2>2 DEF FreshSignup
<1>6. Alone' /\ OneBody' /\ Fresh'
  BY <1>1, <1>4, <1>5, SoloFresh
<1>. QED  BY <1>2, <1>4, <1>6 DEF AloneInv

LEMMA AloneStep ==
  ASSUME BooksInv, BooksInv', Bounded, SeriesInv, SignupInv, AloneInv, [RNext]_rvars
  PROVE  AloneInv'
<1>1. CASE UNCHANGED rvars
  <2>1. Rows' = Rows /\ Linked' = Linked
    BY <1>1 DEF rvars, vars, books, signup, Rows, Linked, money, numbering
  <2>. QED
    BY <1>1, <2>1 DEF rvars, vars, books, coupons, AloneInv, Alone, OneBody, Fresh, Balanced, Covered, StateByMoney, Exact, Busy, Free,
       FreshSignup, FreshBooks, money, numbering
<1>2. CASE overlaps' # 0
  BY <1>2 DEF AloneInv
<1>3. ASSUME NEW p \in Procs, overlaps' = 0,
             \/ Counted(Quiet) /\ AskSignup(p)
             \/ AnswerSignup(p) /\ UNCHANGED overlaps
      PROVE  AloneInv'
  BY <1>3, AloneSignup
<1>4. ASSUME NEW p \in Procs, overlaps' = 0,
             \/ Counted(Quiet) /\ AskBilling(p)
             \/ Answer(p) /\ UNCHANGED overlaps,
             Unlinked, UNCHANGED <<tenants, approved, at, form>>
      PROVE  AloneInv'
  BY <1>4, AloneBilling
<1>. QED  BY <1>1, <1>2, <1>3, <1>4 DEF RNext

\* All of it holds of every execution.
BillingInv == BooksInv /\ Bounded /\ SeriesInv /\ SignupInv /\ AloneInv
LEMMA BillingHolds == RSpec => []BillingInv
<1>1. RInit => AloneInv
  BY AloneInit
<1>. QED  BY SeriesHolds, SignupHolds, <1>1, AloneStep, PTL DEF RSpec, BillingInv

-----------------------------------------------------------------------------
(* The theorems.                                                           *)

\* However requests overlap, a number is given once in its series, and without
\* an invoice issued twice, under two numbers, the platform's series has no gap
\* from the highest floor on; that, and a purchase that loses its invoice to a
\* number that is taken, need overlaps (Invoices.SeriesUnbroken).
THEOREM SeriesUnbrokenAlways == RSpec => []SeriesUnbroken
<1>1. BillingInv => SeriesUnbroken
  <2>. SUFFICES ASSUME BillingInv PROVE SeriesUnbroken
    OBVIOUS
  <2>1. overlaps = 0 => ~renumbered /\ ~outnumbered
    BY DEF BillingInv, AloneInv, Balanced
  <2>2. \A i, j \in Rows :
       i # j /\ invoice[i].seats = invoice[j].seats /\ invoice[i].number = invoice[j].number
         => invoice[i].number = 0
    BY DEF BillingInv, SeriesInv, Rows
  <2>3. ASSUME ~renumbered PROVE Spent = 1 .. Cardinality(Spent)
    <3>1. PICK c \in Nat : Spent = 1 .. c
      BY <2>3 DEF BillingInv, SeriesInv
    <3>2. Cardinality(1 .. c) = c
      BY FS_Interval
    <3>. QED  BY <3>1, <3>2
  <2>. QED  BY <2>1, <2>2, <2>3 DEF SeriesUnbroken
<1>. QED  BY BillingHolds, <1>1, PTL

\* Without overlaps every invoice repeats its payments and refunds and has the
\* state that follows from them, but for a renewal that credit covers, which is
\* PAID without a payment (Invoices.BooksBalance).
THEOREM BooksBalanceAlways == RSpec => []BooksBalance
<1>1. BillingInv => BooksBalance
  BY DEF BillingInv, AloneInv, Balanced, BooksBalance
<1>. QED  BY BillingHolds, <1>1, PTL

\* The coupon counts every invoice issued with it, and without overlaps exactly
\* these and the registrations it is attached to (Registrations.CouponCounted).
THEOREM CouponCountedAlways == RSpec => []CouponCounted
<1>1. BillingInv => CouponCounted
  BY DEF BillingInv, SignupInv, AloneInv, Exact, Linked, CouponCounted
<1>. QED  BY BillingHolds, <1>1, PTL

\* A registration becomes one company at most, and without overlaps exactly when
\* it is ACTIVE (Registrations.OneCompany).
THEOREM OneCompanyAlways == RSpec => []OneCompany
<1>1. BillingInv => OneCompany
  BY DEF BillingInv, SignupInv, AloneInv, Exact, OneCompany
<1>. QED  BY BillingHolds, <1>1, PTL

\* Rows, sums, the coupon and the requests always have their types, and the
\* requests that overlapped keep to their bound (Registrations.RTypeOK).
THEOREM BillingTypeCorrect == RSpec => []RTypeOK
<1>. DEFINE Few == overlaps <= Overlaps
<1>1. RInit => Few
  BY InvoiceConstants DEF RInit, Init
<1>2. Few /\ [RNext]_rvars => Few'
  BY DEF RNext, Counted, rvars, vars
<1>3. BillingInv /\ Few => RTypeOK
  BY InvoiceConstants DEF BillingInv, BooksInv, BooksN, RequestsN, SignupInv, SignupN, RTypeOK, TypeOK, BooksTypeOK
<1>. QED  BY BillingHolds, <1>1, <1>2, <1>3, PTL DEF RSpec
=============================================================================
