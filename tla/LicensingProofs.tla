-------------------------- MODULE LicensingProofs --------------------------
(***************************************************************************)
(* Theorems about Licensing, for every number of users, requests, seats    *)
(* and concurrent handlers: types, and that renewing opens no subscription *)
(* beside another, under every interleaving; for companies whose seats are *)
(* taken and paid for through one request at a time each (Lanes), that     *)
(* seats stay within the limit and that the handlers implement SeatPool;   *)
(* and, for requests that come one at a time, that the wallet is the sum   *)
(* of its ledger, that the one subscription in force sells what the tenant *)
(* row grants, and that the limit is what was bought less what was handed  *)
(* back.                                                                   *)
(***************************************************************************)
EXTENDS Licensing, FiniteSetTheorems, SequenceTheorems, WellFoundedInduction, TLAPS

-----------------------------------------------------------------------------
(* Counting seats.                                                         *)

\* The seats in use are a finite set, so their number is a natural number.
LEMMA ConsumersFinite ==
  /\ IsFiniteSet(Consumers) /\ Used \in Nat
  /\ \A S \in SUBSET Users : IsFiniteSet(S) /\ Cardinality(S) \in Nat
<1>1. \A S \in SUBSET Users : IsFiniteSet(S) /\ Cardinality(S) \in Nat
  BY LicensingConstants, FS_Subset, FS_CardinalityType
<1>2. Consumers \in SUBSET Users
  BY DEF Consumers
<1>. QED  BY <1>1, <1>2 DEF Used

\* Fewer occupied seats are not more seats.
LEMMA SubsetSmaller ==
  ASSUME NEW S \in SUBSET Users, NEW T \in SUBSET S
  PROVE  Cardinality(T) <= Cardinality(S)
BY LicensingConstants, FS_Subset

\* Adding a set of users adds at most its size.
LEMMA UnionBound ==
  ASSUME NEW S \in SUBSET Users, NEW T \in SUBSET Users
  PROVE  Cardinality(S \cup T) <= Cardinality(S) + Cardinality(T)
<1>1. IsFiniteSet(S) /\ IsFiniteSet(T) /\ IsFiniteSet(S \cap T)
  BY LicensingConstants, FS_Subset
<1>2. Cardinality(S \cup T) = Cardinality(S) + Cardinality(T) - Cardinality(S \cap T)
  BY <1>1, FS_Union
<1>3. Cardinality(S \cap T) \in Nat /\ Cardinality(S) \in Nat /\ Cardinality(T) \in Nat
  BY <1>1, FS_CardinalityType
<1>. QED  BY <1>2, <1>3

-----------------------------------------------------------------------------
(* Types.  A retraction in flight never holds more seats than it read.     *)

FlightOK ==
  /\ pc \in [Procs -> Stage] /\ arg \in [Procs -> Arg] /\ seen \in [Procs -> Seen]
  /\ \A p \in Procs : pc[p] = "retractWrite" => arg[p].n <= seen[p].limit

RowsOK ==
  /\ status \in [Users -> UserStatus] /\ deleted \in [Users -> BOOLEAN]
  /\ limit \in Nat /\ credit \in Nat /\ terms \in Seq(Term)
  /\ request \in [Requests -> RequestStatus]
  /\ ledger \in [credited : Nat, redeemed : Nat, seats : Nat]

TypeInv == TypeOK /\ RowsOK /\ FlightOK

\* The newest active term is one of the terms, or 0.
LEMMA LatestType ==
  ASSUME TypeOK
  PROVE  Latest(terms) \in Nat
<1>1. DOMAIN terms = 1..Len(terms) /\ Len(terms) \in Nat
  BY DEF TypeOK
<1>2. CASE \E i \in DOMAIN terms : Newest(terms, i)
  BY <1>1, <1>2 DEF Latest
<1>3. CASE ~ \E i \in DOMAIN terms : Newest(terms, i)
  BY <1>3 DEF Latest
<1>. QED  BY <1>2, <1>3

\* Changing the seats, or the state, of one term leaves a list of terms.
LEMMA TermsType ==
  ASSUME NEW ts \in Seq(Term), NEW i \in Nat, NEW n \in Nat
  PROVE  WithSeats(ts, i, n) \in Seq(Term) /\ Expire(ts, i) \in Seq(Term)
<1>1. CASE i = 0
  BY <1>1 DEF WithSeats, Expire
<1>2. CASE i # 0
  <2>1. ts \in [1..Len(ts) -> Term] /\ Len(ts) \in Nat
    OBVIOUS
  <2>2. /\ [ts EXCEPT ![i].seats = n] \in [1..Len(ts) -> Term]
        /\ [ts EXCEPT ![i].active = FALSE] \in [1..Len(ts) -> Term]
    BY <2>1 DEF Term
  <2>. QED  BY <1>2, <2>1, <2>2, SeqDef DEF WithSeats, Expire
<1>. QED  BY <1>1, <1>2

\* The helpers the handlers are written with keep the requests in flight typed.
LEMMA BeginType ==
  ASSUME TypeInv, NEW p \in Procs, NEW stage \in Stage, NEW a \in Arg,
         Begin(p, stage, a), stage # "retractWrite"
  PROVE  FlightOK'
<1>1. [limit |-> limit, used |-> 0, credit |-> credit, term |-> Latest(terms)] \in Seen
  BY LatestType DEF TypeInv, TypeOK, Seen
<1>. QED  BY <1>1 DEF TypeInv, FlightOK, Begin

LEMMA CountedType ==
  ASSUME TypeInv, NEW p \in Procs, NEW stage \in Stage, Counted(p, stage),
         stage = "retractWrite" => arg[p].n <= seen[p].limit
  PROVE  FlightOK'
<1>1. [seen EXCEPT ![p].used = Used] \in [Procs -> Seen]
  BY ConsumersFinite DEF TypeInv, FlightOK, Seen
<1>2. \A q \in Procs : seen'[q].limit = seen[q].limit
  BY DEF Counted, TypeInv, FlightOK, Seen
<1>. QED  BY <1>1, <1>2 DEF TypeInv, FlightOK, Counted, Goto

LEMMA GotoType ==
  ASSUME TypeInv, NEW p \in Procs, NEW stage \in Stage, Goto(p, stage),
         UNCHANGED seen, stage # "retractWrite"
  PROVE  FlightOK'
BY DEF TypeInv, FlightOK, Goto

LEMMA FinishType ==
  ASSUME TypeInv, NEW p \in Procs, Finish(p)
  PROVE  FlightOK'
<1>1. NoArg \in Arg /\ NoSeen \in Seen /\ "idle" \in Stage
  BY DEF NoArg, Arg, NoSeen, Seen, Stage
<1>. QED  BY <1>1 DEF TypeInv, FlightOK, Finish

\* What a request in flight holds has the type its fields promise.
LEMMA HeldType ==
  ASSUME TypeInv, NEW p \in Procs
  PROVE  /\ pc[p] \in Stage
         /\ arg[p].us \in SUBSET Users /\ arg[p].n \in Nat
         /\ seen[p].limit \in Nat /\ seen[p].used \in Nat
         /\ seen[p].credit \in Nat /\ seen[p].term \in Nat
BY DEF TypeInv, FlightOK, Arg, Seen

LEMMA HrType ==
  ASSUME TypeInv, NEW p \in Procs, HrStep(p)
  PROVE  RowsOK' /\ FlightOK'
<1>0. NoArg \in Arg
  BY DEF NoArg, Arg
<1>1. CASE \E us \in SUBSET Users : Invite(p, us)
  <2>1. PICK us \in SUBSET Users : Invite(p, us)
    BY <1>1
  <2>2. [NoArg EXCEPT !.us = us] \in Arg
    BY DEF NoArg, Arg
  <2>. QED  BY <2>1, <2>2, BeginType DEF Invite, rows, TypeInv, RowsOK, Stage
<1>2. CASE \E u \in Users : Reactivate(p, u)
  <2>1. PICK u \in Users : Reactivate(p, u)
    BY <1>2
  <2>2. [NoArg EXCEPT !.us = {u}] \in Arg
    BY DEF NoArg, Arg
  <2>. QED  BY <2>1, <2>2, BeginType DEF Reactivate, rows, TypeInv, RowsOK, Stage
<1>3. CASE \E n \in 1..MaxRetracted : Retract(p, n)
  <2>1. PICK n \in 1..MaxRetracted : Retract(p, n)
    BY <1>3
  <2>2. [NoArg EXCEPT !.n = n] \in Arg
    BY LicensingConstants DEF NoArg, Arg
  <2>. QED  BY <2>1, <2>2, BeginType DEF Retract, rows, TypeInv, RowsOK, Stage
<1>4. CASE AssertLicense(p)
  <2>1. RowsOK'
    BY <1>4 DEF AssertLicense, rows, TypeInv, RowsOK
  <2>2. CASE Fits(p)
    BY <1>4, <2>1, <2>2, CountedType DEF AssertLicense, Stage
  <2>3. CASE ~Fits(p)
    BY <1>4, <2>1, <2>3, FinishType DEF AssertLicense
  <2>. QED  BY <2>1, <2>2, <2>3
<1>5. CASE InviteCommit(p)
  <2>1. status' \in [Users -> UserStatus]
    BY <1>5 DEF InviteCommit, TypeInv, RowsOK, UserStatus
  <2>. QED  BY <1>5, <2>1, FinishType DEF InviteCommit, TypeInv, RowsOK
<1>6. CASE ReactivateCommit(p)
  <2>1. status' \in [Users -> UserStatus] /\ deleted' \in [Users -> BOOLEAN]
    BY <1>6 DEF ReactivateCommit, TypeInv, RowsOK, UserStatus
  <2>. QED  BY <1>6, <2>1, FinishType DEF ReactivateCommit, TypeInv, RowsOK
<1>7. CASE RetractCount(p)
  <2>1. RowsOK'
    BY <1>7 DEF RetractCount, rows, TypeInv, RowsOK
  <2>2. CASE Used + arg[p].n <= seen[p].limit
    BY <1>7, <2>1, <2>2, CountedType, ConsumersFinite, HeldType DEF RetractCount, Stage
  <2>3. CASE ~(Used + arg[p].n <= seen[p].limit)
    BY <1>7, <2>1, <2>3, FinishType DEF RetractCount
  <2>. QED  BY <2>1, <2>2, <2>3
<1>8. CASE RetractCommit(p)
  <2>1. arg[p].n <= seen[p].limit
    BY <1>8 DEF RetractCommit, TypeInv, FlightOK
  <2>2. seen[p].limit - arg[p].n \in Nat /\ arg[p].n * UnitCredit \in Nat
    BY <2>1, HeldType, LicensingConstants
  <2>3. PICK amount \in Nat :
           /\ credit' = seen[p].credit + amount
           /\ ledger' = [ledger EXCEPT !.credited = @ + amount, !.seats = @ + arg[p].n]
    BY <1>8, <2>2 DEF RetractCommit, CreditAfter
  <2>4. credit' \in Nat /\ ledger' \in [credited : Nat, redeemed : Nat, seats : Nat]
    <3>1. ledger \in [credited : Nat, redeemed : Nat, seats : Nat]
      BY DEF TypeInv, RowsOK
    <3>2. ledger.credited + amount \in Nat /\ ledger.seats + arg[p].n \in Nat
      BY <3>1, HeldType
    <3>3. ledger' \in [credited : Nat, redeemed : Nat, seats : Nat]
      BY <2>3, <3>1, <3>2
    <3>. QED  BY <2>3, <3>3, HeldType
  <2>5. limit' \in Nat /\ terms' \in Seq(Term)
    <3>1. WithSeats(terms, seen[p].term, seen[p].limit - arg[p].n) \in Seq(Term)
      BY <2>2, HeldType, TermsType DEF TypeInv, RowsOK
    <3>. QED  BY <1>8, <2>2, <3>1 DEF RetractCommit
  <2>. QED  BY <1>8, <2>4, <2>5, FinishType DEF RetractCommit, TypeInv, RowsOK
<1>. QED  BY <1>1, <1>2, <1>3, <1>4, <1>5, <1>6, <1>7, <1>8 DEF HrStep

LEMMA LoginType ==
  ASSUME TypeInv, NEW p \in Procs, LoginStep(p)
  PROVE  RowsOK' /\ FlightOK'
<1>1. CASE \E u \in Users : Login(p, u)
  <2>1. PICK u \in Users : Login(p, u)
    BY <1>1
  <2>2. [NoArg EXCEPT !.us = {u}] \in Arg
    BY DEF NoArg, Arg
  <2>. QED  BY <2>1, <2>2, BeginType DEF Login, rows, TypeInv, RowsOK, Stage
<1>2. CASE LoginCommit(p)
  <2>1. status' \in [Users -> UserStatus]
    BY <1>2 DEF LoginCommit, TypeInv, RowsOK, UserStatus
  <2>. QED  BY <1>2, <2>1, FinishType DEF LoginCommit, TypeInv, RowsOK
<1>. QED  BY <1>1, <1>2 DEF LoginStep

LEMMA FinanceType ==
  ASSUME TypeInv, NEW p \in Procs, FinanceStep(p)
  PROVE  RowsOK' /\ FlightOK'
<1>1. CASE \E r \in Requests : Pay(p, r) \/ Buy(p, r) \/ Reject(p, r)
  <2>1. PICK r \in Requests : Pay(p, r) \/ Buy(p, r) \/ Reject(p, r)
    BY <1>1
  <2>2. /\ [NoArg EXCEPT !.n = Seats[r], !.r = r] \in Arg
        /\ [NoArg EXCEPT !.r = r] \in Arg
    BY LicensingConstants DEF NoArg, Arg
  <2>. QED  BY <2>1, <2>2, BeginType DEF Pay, Buy, Reject, rows, TypeInv, RowsOK, Stage
<1>2. CASE Renew(p)
  <2>1. NoArg \in Arg
    BY DEF NoArg, Arg
  <2>. QED  BY <1>2, <2>1, BeginType DEF Renew, rows, TypeInv, RowsOK, Stage
<1>3. CASE PayCheck(p)
  <2>1. RowsOK'
    BY <1>3 DEF PayCheck, rows, TypeInv, RowsOK
  <2>2. CASE request[arg[p].r] = "PAID"
    BY <1>3, <2>1, <2>2, FinishType DEF PayCheck
  <2>3. CASE request[arg[p].r] # "PAID"
    BY <1>3, <2>1, <2>3, GotoType DEF PayCheck, Stage
  <2>. QED  BY <2>1, <2>2, <2>3
<1>4. CASE PayMark(p)
  <2>1. request' \in [Requests -> RequestStatus]
    BY <1>4 DEF PayMark, TypeInv, RowsOK, RequestStatus
  <2>. QED  BY <1>4, <2>1, GotoType DEF PayMark, TypeInv, RowsOK, Stage
<1>5. CASE PayLimit(p)
  <2>1. limit' \in Nat
    BY <1>5, HeldType DEF PayLimit, LimitAfter
  <2>. QED  BY <1>5, <2>1, GotoType DEF PayLimit, TypeInv, RowsOK, Stage
<1>6. CASE PaySub(p)
  <2>1. LimitAfter(seen[p], arg[p].n) \in Nat
    BY HeldType DEF LimitAfter
  <2>2. WithSeats(terms, seen[p].term, LimitAfter(seen[p], arg[p].n)) \in Seq(Term)
    BY <2>1, HeldType, TermsType DEF TypeInv, RowsOK
  <2>3. [seats |-> LimitAfter(seen[p], arg[p].n), active |-> TRUE, renewedFrom |-> 0] \in Term
    BY <2>1 DEF Term
  <2>4. terms' \in Seq(Term)
    BY <1>6, <2>2, <2>3, AppendProperties DEF PaySub, TypeInv, RowsOK
  <2>. QED  BY <1>6, <2>4, FinishType DEF PaySub, TypeInv, RowsOK
<1>7. CASE RejectCommit(p)
  <2>1. request' \in [Requests -> RequestStatus]
    BY <1>7 DEF RejectCommit, TypeInv, RowsOK, RequestStatus
  <2>. QED  BY <1>7, <2>1, FinishType DEF RejectCommit, TypeInv, RowsOK
<1>8. CASE RenewCount(p)
  BY <1>8, CountedType DEF RenewCount, rows, TypeInv, RowsOK, Stage
<1>9. CASE RenewCommit(p)
  <2>1. RenewSeats(seen[p]) \in Nat
    BY HeldType, LicensingConstants DEF RenewSeats, Larger
  <2>2. Redeem(seen[p]) \in Nat /\ Redeem(seen[p]) <= seen[p].credit
    <3>1. RenewSeats(seen[p]) * SeatPrice \in Nat
      BY <2>1, LicensingConstants
    <3>. QED  BY <3>1, HeldType DEF Redeem, Smaller
  <2>3. seen[p].credit - Redeem(seen[p]) \in Nat
    BY <2>2, HeldType
  <2>4. Append(Expire(terms, seen[p].term),
               [seats |-> RenewSeats(seen[p]), active |-> TRUE,
                renewedFrom |-> seen[p].term]) \in Seq(Term)
    <3>1. [seats |-> RenewSeats(seen[p]), active |-> TRUE,
           renewedFrom |-> seen[p].term] \in Term
      BY <2>1, HeldType DEF Term
    <3>2. Expire(terms, seen[p].term) \in Seq(Term)
      BY HeldType, TermsType DEF TypeInv, RowsOK
    <3>. QED  BY <3>1, <3>2, AppendProperties
  <2>5. CASE AlreadyRenewed(seen[p].term)
    BY <1>9, <2>5, FinishType DEF RenewCommit, TypeInv, RowsOK
  <2>6. CASE ~AlreadyRenewed(seen[p].term)
    <3>1. ledger' \in [credited : Nat, redeemed : Nat, seats : Nat]
      BY <1>9, <2>6, <2>2 DEF RenewCommit, TypeInv, RowsOK
    <3>2. limit' \in Nat /\ credit' \in Nat /\ terms' \in Seq(Term)
      BY <1>9, <2>6, <2>1, <2>3, <2>4 DEF RenewCommit
    <3>. QED  BY <1>9, <3>1, <3>2, FinishType DEF RenewCommit, TypeInv, RowsOK
  <2>. QED  BY <2>5, <2>6
<1>. QED  BY <1>1, <1>2, <1>3, <1>4, <1>5, <1>6, <1>7, <1>8, <1>9 DEF FinanceStep

LEMMA PlatformType ==
  ASSUME TypeInv, NEW p \in Procs, PlatformStep(p)
  PROVE  RowsOK' /\ FlightOK'
<1>1. CASE \E n \in 0..MaxLimit : SetLicences(p, n)
  <2>1. PICK n \in 0..MaxLimit : SetLicences(p, n)
    BY <1>1
  <2>2. [NoArg EXCEPT !.n = n] \in Arg
    BY LicensingConstants DEF NoArg, Arg
  <2>. QED  BY <2>1, <2>2, BeginType DEF SetLicences, rows, TypeInv, RowsOK, Stage
<1>2. CASE \E u \in Users : Revive(p, u)
  <2>1. PICK u \in Users : Revive(p, u)
    BY <1>2
  <2>2. [NoArg EXCEPT !.us = {u}] \in Arg
    BY DEF NoArg, Arg
  <2>. QED  BY <2>1, <2>2, BeginType DEF Revive, rows, TypeInv, RowsOK, Stage
<1>3. CASE SetCount(p)
  <2>1. RowsOK'
    BY <1>3 DEF SetCount, rows, TypeInv, RowsOK
  <2>. QED  BY <1>3, <2>1, GotoType, FinishType DEF SetCount, Stage
<1>4. CASE SetCommit(p)
  BY <1>4, FinishType, HeldType DEF SetCommit, TypeInv, RowsOK
<1>5. CASE ReviveCommit(p)
  <2>1. status' \in [Users -> UserStatus]
    BY <1>5 DEF ReviveCommit, TypeInv, RowsOK, UserStatus
  <2>. QED  BY <1>5, <2>1, FinishType DEF ReviveCommit, TypeInv, RowsOK
<1>. QED  BY <1>1, <1>2, <1>3, <1>4, <1>5 DEF PlatformStep

\* A subscription is cancelled or lapses: nothing but its state changes.
Ended == \E i \in DOMAIN terms : CancelSubscription(i) \/ LapseSubscription(i)

LEMMA ExpireOne ==
  ASSUME NEW ts \in Seq(Term), NEW i \in 0 .. Len(ts)
  PROVE  /\ Len(Expire(ts, i)) = Len(ts) /\ Expire(ts, i) \in Seq(Term)
         /\ \A j \in 1 .. Len(ts) : /\ Expire(ts, i)[j].active <=> ts[j].active /\ j # i
                                    /\ Expire(ts, i)[j].renewedFrom = ts[j].renewedFrom
                                    /\ Expire(ts, i)[j].seats = ts[j].seats
<1>1. CASE i = 0
  BY <1>1 DEF Expire
<1>2. CASE i # 0
  <2>1. ts \in [1 .. Len(ts) -> Term] /\ Len(ts) \in Nat /\ i \in 1 .. Len(ts) /\ i \in Nat
    BY <1>2
  <2>2. PICK us : us = [ts EXCEPT ![i].active = FALSE]
    OBVIOUS
  <2>3. Expire(ts, i) = us /\ us \in Seq(Term)
    BY <1>2, <2>1, <2>2, TermsType DEF Expire
  <2>4. DOMAIN us = 1 .. Len(ts)
    BY <2>1, <2>2
  <2>5. Len(us) = Len(ts)
    BY <2>1, <2>3, <2>4, LenProperties
  <2>6. us[i].active = FALSE /\ us[i].renewedFrom = ts[i].renewedFrom /\ us[i].seats = ts[i].seats
    BY <2>1, <2>2 DEF Term
  <2>7. \A j \in (1 .. Len(ts)) \ {i} : us[j] = ts[j]
    BY <2>1, <2>2
  <2>. QED  BY <2>1, <2>3, <2>5, <2>6, <2>7
<1>. QED  BY <1>1, <1>2

LEMMA EndStep ==
  ASSUME TypeInv, Ended
  PROVE  /\ UNCHANGED <<status, deleted, limit, credit, request, ledger, pc, arg, seen>>
         /\ terms' \in Seq(Term) /\ Len(terms') = Len(terms)
         /\ \A j \in 1 .. Len(terms) : /\ terms'[j].active => terms[j].active
                                       /\ terms'[j].renewedFrom = terms[j].renewedFrom
                                       /\ terms'[j].seats = terms[j].seats
<1>1. PICK i \in DOMAIN terms : CancelSubscription(i) \/ LapseSubscription(i)
  BY DEF Ended
<1>2. terms \in Seq(Term) /\ i \in 0 .. Len(terms)
  BY DEF TypeInv, RowsOK
<1>3. terms' = Expire(terms, i)
  BY <1>1 DEF CancelSubscription, LapseSubscription
<1>4. UNCHANGED <<status, deleted, limit, credit, request, ledger, pc, arg, seen>>
  BY <1>1 DEF CancelSubscription, LapseSubscription
<1>. QED  BY <1>2, <1>3, <1>4, ExpireOne

LEMMA TypeStep == TypeInv /\ [Next]_vars => TypeInv'
<1>. SUFFICES ASSUME TypeInv, [Next]_vars PROVE RowsOK' /\ FlightOK'
  BY DEF TypeInv, TypeOK, RowsOK, FlightOK
<1>1. CASE \E p \in HrProcs : HrStep(p)
  BY <1>1, HrType DEF Procs
<1>2. CASE \E p \in LoginProcs : LoginStep(p)
  BY <1>2, LoginType DEF Procs
<1>3. CASE \E p \in FinanceProcs : FinanceStep(p)
  BY <1>3, FinanceType DEF Procs
<1>4. CASE \E p \in PlatformProcs : PlatformStep(p)
  BY <1>4, PlatformType DEF Procs
<1>5. CASE \E p \in Procs : Fail(p)
  BY <1>5, FinishType DEF Fail, rows, TypeInv, RowsOK
<1>6. CASE \E u \in Users : Exit(u) \/ Block(u)
  BY <1>6 DEF Exit, Block, TypeInv, RowsOK, FlightOK, UserStatus
<1>7. CASE \E r \in Requests : RequestLicenses(r)
  BY <1>7 DEF RequestLicenses, TypeInv, RowsOK, FlightOK, RequestStatus
<1>8. CASE UNCHANGED vars
  BY <1>8 DEF vars, TypeInv, RowsOK, FlightOK
<1>9. CASE Ended
  BY <1>9, EndStep DEF TypeInv, RowsOK, FlightOK
<1>. QED  BY <1>1, <1>2, <1>3, <1>4, <1>5, <1>6, <1>7, <1>8, <1>9 DEF Next, Ended

LEMMA TypeInit == Init => TypeInv
<1>. SUFFICES ASSUME Init PROVE RowsOK /\ FlightOK
  BY DEF TypeInv, TypeOK, RowsOK, FlightOK
<1>1. NoArg \in Arg /\ NoSeen \in Seen /\ "idle" \in Stage
  BY DEF NoArg, Arg, NoSeen, Seen, Stage
<1>2. FlightOK
  BY <1>1 DEF Init, FlightOK
<1>3. terms \in Seq(Term)
  BY LicensingConstants DEF Init, Term
<1>. QED  BY <1>2, <1>3, LicensingConstants DEF Init, RowsOK, UserStatus, RequestStatus

\* Limits, balances, terms and what requests hold always have their types; in
\* particular no interleaving drives the seats or the wallet below zero.
THEOREM TypeCorrect == Spec => []TypeOK
<1>1. Init => TypeInv
  BY TypeInit
<1>2. TypeInv /\ [Next]_vars => TypeInv'
  BY TypeStep
<1>3. TypeInv => TypeOK
  BY DEF TypeInv
<1>. QED  BY <1>1, <1>2, <1>3, PTL DEF Spec

-----------------------------------------------------------------------------
(* The lanes.                                                              *)

\* A step of one request leaves what the others hold alone.
Others(p) ==
  \A q \in Procs \ {p} : pc'[q] = pc[q] /\ arg'[q] = arg[q] /\ seen'[q] = seen[q]

LEMMA HelpersKeepOthers ==
  ASSUME TypeInv, NEW p \in Procs
  PROVE  /\ \A stage, a : Begin(p, stage, a) => Others(p) /\ pc'[p] = stage
                            /\ arg'[p] = a /\ seen'[p].limit = limit
         /\ \A stage : Counted(p, stage) => Others(p) /\ pc'[p] = stage
                            /\ arg'[p] = arg[p] /\ seen'[p].limit = seen[p].limit
         /\ \A stage : Goto(p, stage) /\ UNCHANGED seen => Others(p) /\ pc'[p] = stage
                            /\ arg'[p] = arg[p] /\ seen'[p] = seen[p]
         /\ Finish(p) => Others(p) /\ pc'[p] = "idle"
<1>. USE DEF TypeInv, FlightOK, Others
<1>1. \A stage, a : Begin(p, stage, a) => Others(p) /\ pc'[p] = stage
                            /\ arg'[p] = a /\ seen'[p].limit = limit
  BY DEF Begin
<1>2. \A stage : Counted(p, stage) => Others(p) /\ pc'[p] = stage
                            /\ arg'[p] = arg[p] /\ seen'[p].limit = seen[p].limit
  BY DEF Counted, Goto, Seen
<1>3. \A stage : Goto(p, stage) /\ UNCHANGED seen => Others(p) /\ pc'[p] = stage
                            /\ arg'[p] = arg[p] /\ seen'[p] = seen[p]
  BY DEF Goto
<1>4. Finish(p) => Others(p) /\ pc'[p] = "idle"
  BY DEF Finish
<1>. QED  BY <1>1, <1>2, <1>3, <1>4

\* What a seat-taking request knows stays true while others raise the limit.
LEMMA HrKept ==
  ASSUME TypeInv, NEW q \in Procs, HrInv(q),
         pc'[q] = pc[q], arg'[q] = arg[q], seen'[q] = seen[q],
         status' = status, deleted' = deleted, limit' \in Nat, limit <= limit'
  PROVE  HrInv(q)'
<1>1. Consumers' = Consumers /\ Used' = Used
  BY DEF Consumers, Used
<1>2. {u \in arg[q].us : ~deleted[u]} \in SUBSET Users
  BY HeldType
<1>3. Cardinality(Consumers \cup {u \in arg[q].us : ~deleted[u]}) \in Nat
  BY <1>2, ConsumersFinite DEF Consumers
<1>4. limit \in Nat /\ seen[q].limit \in Nat
  BY HeldType DEF TypeInv, RowsOK
<1>. QED  BY <1>1, <1>3, <1>4 DEF HrInv

\* What a paying request has read stays an upper bound while the limit falls.
LEMMA HighKept ==
  ASSUME TypeInv, LaneInv, NEW p \in Procs, Others(p), pc'[p] \notin ReadHigh,
         limit' \in Nat, limit' <= limit
  PROVE  \A q \in FinanceProcs : pc'[q] \in ReadHigh => limit' <= seen'[q].limit
<1>. SUFFICES ASSUME NEW q \in FinanceProcs, pc'[q] \in ReadHigh
              PROVE  limit' <= seen'[q].limit
  OBVIOUS
<1>1. q \in Procs /\ q # p
  BY DEF Procs
<1>2. seen'[q] = seen[q] /\ pc'[q] = pc[q]
  BY <1>1 DEF Others
<1>3. limit \in Nat /\ seen[q].limit \in Nat
  BY <1>1, HeldType DEF TypeInv, RowsOK
<1>. QED  BY <1>2, <1>3 DEF LaneInv

\* An idle handler, and one that has just read the limit, know what they must.
LEMMA HrInvShort ==
  ASSUME TypeInv, NEW p \in Procs,
         \/ pc'[p] \notin ReadLow \cup {"loginWrite"}
         \/ /\ pc'[p] \in {"inviteCount", "reactivateCount", "retractCount"}
            /\ seen'[p].limit <= limit'
  PROVE  HrInv(p)'
BY DEF HrInv, ReadLow

LEMMA HrLane ==
  ASSUME Lanes, TypeInv, LaneInv, NEW p \in HrProcs, HrStep(p), RowsOK'
  PROVE  SeatsWithinLimit' /\ HrInv(p)' /\ Others(p) /\ pc'[p] \notin ReadHigh /\ limit' <= limit
<1>0. p \in Procs
  BY DEF Procs
<1>a. HrInv(p) /\ Used <= limit /\ limit \in Nat /\ Used \in Nat /\ limit' \in Nat
  BY ConsumersFinite DEF LaneInv, SeatsWithinLimit, TypeInv, RowsOK
<1>b. /\ arg[p].us \in SUBSET Users /\ Cardinality(arg[p].us) \in Nat
      /\ arg[p].n \in Nat /\ seen[p].limit \in Nat
  BY <1>0, HeldType, ConsumersFinite
<1>c. status' = status /\ deleted' = deleted => Used' = Used
  BY DEF Used, Consumers
<1>1. CASE \/ \E us \in SUBSET Users : Invite(p, us)
           \/ \E u \in Users : Reactivate(p, u)
           \/ \E n \in 1..MaxRetracted : Retract(p, n)
  <2>1. UNCHANGED rows
    BY <1>1 DEF Invite, Reactivate, Retract
  <2>2. PICK stage \in {"inviteCount", "reactivateCount", "retractCount"} :
           \E a : Begin(p, stage, a)
    BY <1>1 DEF Invite, Reactivate, Retract
  <2>3. Others(p) /\ pc'[p] = stage /\ seen'[p].limit = limit
    BY <1>0, <2>2, HelpersKeepOthers
  <2>4. limit' = limit /\ Used' = Used
    BY <2>1, <1>c DEF rows
  <2>. QED  BY <1>0, <1>a, <2>2, <2>3, <2>4, HrInvShort DEF SeatsWithinLimit, ReadHigh
<1>2. CASE AssertLicense(p)
  <2>1. limit' = limit /\ Used' = Used
    BY <1>2, <1>c DEF AssertLicense, rows
  <2>2. CASE Fits(p)
    <3>1. PICK stage \in {"inviteWrite", "reactivateWrite"} : Counted(p, stage)
      BY <1>2, <2>2 DEF AssertLicense
    <3>2. /\ Others(p) /\ pc'[p] = stage
          /\ arg'[p] = arg[p] /\ seen'[p].limit = seen[p].limit
      BY <1>0, <3>1, HelpersKeepOthers
    <3>3. seen[p].limit <= limit
      BY <1>2, <1>a DEF AssertLicense, HrInv, ReadLow
    <3>4. HrInv(p)'
      BY <2>1, <2>2, <3>1, <3>2, <3>3 DEF HrInv, Fits
    <3>. QED  BY <1>a, <2>1, <3>1, <3>2, <3>4 DEF SeatsWithinLimit, ReadHigh
  <2>3. CASE ~Fits(p)
    <3>1. Others(p) /\ pc'[p] = "idle"
      BY <1>0, <1>2, <2>3, HelpersKeepOthers DEF AssertLicense
    <3>. QED  BY <1>0, <1>a, <2>1, <3>1, HrInvShort DEF SeatsWithinLimit, ReadHigh, ReadLow
  <2>. QED  BY <2>2, <2>3
<1>3. CASE InviteCommit(p) \/ ReactivateCommit(p)
  <2>1. Others(p) /\ pc'[p] = "idle" /\ limit' = limit
    BY <1>0, <1>3, HelpersKeepOthers DEF InviteCommit, ReactivateCommit
  <2>2. Consumers' \subseteq Consumers \cup arg[p].us
    BY <1>3 DEF InviteCommit, ReactivateCommit, Consumers
  <2>a. pc[p] \in {"inviteWrite", "reactivateWrite"}
    BY <1>3 DEF InviteCommit, ReactivateCommit
  <2>b. Used + Cardinality(arg[p].us) <= seen[p].limit /\ seen[p].limit <= limit
    BY <2>a, <1>a DEF HrInv, ReadLow
  <2>3. Used + Cardinality(arg[p].us) <= limit
    BY <1>a, <1>b, <2>b
  <2>4. Used' <= Cardinality(Consumers \cup arg[p].us)
    BY <1>b, <2>2, SubsetSmaller DEF Used, Consumers
  <2>5. Cardinality(Consumers \cup arg[p].us) <= Used + Cardinality(arg[p].us)
    BY <1>b, UnionBound DEF Used, Consumers
  <2>6. Used' \in Nat /\ Cardinality(Consumers \cup arg[p].us) \in Nat
    BY <1>b, ConsumersFinite DEF Used, Consumers
  <2>7. Used' <= limit'
    BY <1>a, <1>b, <2>1, <2>3, <2>4, <2>5, <2>6
  <2>. QED  BY <1>0, <1>a, <2>1, <2>7, HrInvShort DEF SeatsWithinLimit, ReadHigh, ReadLow
<1>4. CASE RetractCount(p)
  <2>1. limit' = limit /\ Used' = Used
    BY <1>4, <1>c DEF RetractCount, rows
  <2>2. CASE Used + arg[p].n <= seen[p].limit
    <3>1. /\ Others(p) /\ pc'[p] = "retractWrite"
          /\ arg'[p] = arg[p] /\ seen'[p].limit = seen[p].limit
      BY <1>0, <1>4, <2>2, HelpersKeepOthers DEF RetractCount
    <3>2. seen[p].limit <= limit
      BY <1>4, <1>a DEF RetractCount, HrInv, ReadLow
    <3>3. HrInv(p)'
      BY <2>1, <2>2, <3>1, <3>2 DEF HrInv
    <3>. QED  BY <1>a, <2>1, <3>1, <3>3 DEF SeatsWithinLimit, ReadHigh
  <2>3. CASE ~(Used + arg[p].n <= seen[p].limit)
    <3>1. Others(p) /\ pc'[p] = "idle"
      BY <1>0, <1>4, <2>3, HelpersKeepOthers DEF RetractCount
    <3>. QED  BY <1>0, <1>a, <2>1, <3>1, HrInvShort DEF SeatsWithinLimit, ReadHigh, ReadLow
  <2>. QED  BY <2>2, <2>3
<1>5. CASE RetractCommit(p)
  <2>1. Others(p) /\ pc'[p] = "idle"
    BY <1>0, <1>5, HelpersKeepOthers DEF RetractCommit
  <2>2. limit' = seen[p].limit - arg[p].n /\ Used' = Used
    BY <1>5, <1>c DEF RetractCommit
  <2>3. Used + arg[p].n <= seen[p].limit /\ seen[p].limit <= limit
    BY <1>5, <1>a DEF RetractCommit, HrInv, ReadLow
  <2>4. Used' <= limit' /\ limit' <= limit
    BY <1>a, <1>b, <2>2, <2>3
  <2>. QED  BY <1>0, <2>1, <2>4, HrInvShort DEF SeatsWithinLimit, ReadHigh, ReadLow
<1>. QED  BY <1>1, <1>2, <1>3, <1>4, <1>5 DEF HrStep

LEMMA LoginLane ==
  ASSUME Lanes, TypeInv, LaneInv, NEW p \in HrProcs, LoginStep(p), RowsOK'
  PROVE  SeatsWithinLimit' /\ HrInv(p)' /\ Others(p) /\ pc'[p] \notin ReadHigh /\ limit' <= limit
<1>0. p \in Procs
  BY DEF Procs
<1>a. HrInv(p) /\ Used <= limit /\ limit \in Nat /\ Used \in Nat
  BY ConsumersFinite DEF LaneInv, SeatsWithinLimit, TypeInv, RowsOK
<1>1. CASE \E u \in Users : Login(p, u)
  <2>1. PICK u \in Users : Login(p, u)
    BY <1>1
  <2>2. Others(p) /\ pc'[p] = "loginWrite" /\ arg'[p].us = {u}
    BY <1>0, <2>1, HelpersKeepOthers DEF Login, NoArg
  <2>3. limit' = limit /\ status' = status /\ deleted' = deleted
    BY <2>1 DEF Login, rows
  <2>4. Consumers' = Consumers /\ Used' = Used
    BY <2>3 DEF Consumers, Used
  <2>5. (Consumers \cup {v \in arg[p].us : ~deleted[v]})' = Consumers
    BY <2>1, <2>2, <2>3, <2>4 DEF Login, Consumers
  <2>6. HrInv(p)'
    BY <1>a, <2>2, <2>3, <2>5 DEF HrInv, ReadLow, Used
  <2>. QED  BY <1>a, <2>2, <2>3, <2>4, <2>6 DEF SeatsWithinLimit, ReadHigh
<1>2. CASE LoginCommit(p)
  <2>. DEFINE Back == {u \in arg[p].us : ~deleted[u]}
  <2>1. Others(p) /\ pc'[p] = "idle" /\ limit' = limit
    BY <1>0, <1>2, HelpersKeepOthers DEF LoginCommit
  <2>2. Consumers' \subseteq Consumers \cup Back /\ Consumers \cup Back \in SUBSET Users
    BY <1>2, <1>0, HeldType DEF LoginCommit, Consumers
  <2>3. Cardinality(Consumers \cup Back) <= limit
    BY <1>2, <1>a DEF LoginCommit, HrInv
  <2>4. Used' <= Cardinality(Consumers \cup Back)
    BY <2>2, SubsetSmaller DEF Used
  <2>5. Used' \in Nat /\ Cardinality(Consumers \cup Back) \in Nat
    BY <2>2, ConsumersFinite DEF Used
  <2>6. Used' <= limit'
    BY <1>a, <2>1, <2>3, <2>4, <2>5
  <2>. QED  BY <1>0, <1>a, <2>1, <2>6, HrInvShort DEF SeatsWithinLimit, ReadHigh, ReadLow
<1>. QED  BY <1>1, <1>2 DEF LoginStep

\* The paying request writes a limit no smaller than the present one.
LEMMA FinanceLane ==
  ASSUME Lanes, TypeInv, LaneInv, NEW p \in FinanceProcs, FinanceStep(p), RowsOK'
  PROVE  /\ limit <= limit' /\ UNCHANGED <<status, deleted>> /\ Others(p)
         /\ pc'[p] \in ReadHigh => limit' <= seen'[p].limit
         /\ pc'[p] \notin ReadLow \cup {"loginWrite"}
<1>0. p \in Procs
  BY DEF Procs
<1>a. limit \in Nat /\ (pc[p] \in ReadHigh => limit <= seen[p].limit)
  BY DEF LaneInv, TypeInv, RowsOK
<1>b. arg[p].n \in Nat /\ seen[p].limit \in Nat /\ seen[p].used \in Nat
  BY <1>0, HeldType
<1>1. CASE (\E r \in Requests : Pay(p, r) \/ Buy(p, r) \/ Reject(p, r)) \/ Renew(p)
  <2>1. UNCHANGED rows
    BY <1>1 DEF Pay, Buy, Reject, Renew
  <2>2. PICK stage \in {"payCheck", "payMark", "rejectWrite", "renewCount"} :
           \E a : Begin(p, stage, a)
    BY <1>1 DEF Pay, Buy, Reject, Renew
  <2>3. Others(p) /\ pc'[p] = stage /\ seen'[p].limit = limit
    BY <1>0, <2>2, HelpersKeepOthers
  <2>. QED  BY <1>a, <2>1, <2>2, <2>3 DEF rows, ReadLow
<1>2. CASE PayCheck(p) \/ PayMark(p)
  <2>1. limit' = limit /\ UNCHANGED <<status, deleted>>
    BY <1>2 DEF PayCheck, PayMark, rows
  <2>2. limit <= seen[p].limit
    BY <1>2, <1>a DEF PayCheck, PayMark, ReadHigh
  <2>3. \/ Finish(p)
        \/ \E stage \in {"payMark", "payLimit"} : Goto(p, stage) /\ UNCHANGED seen
    BY <1>2 DEF PayCheck, PayMark
  <2>4. /\ Others(p)
        /\ \/ pc'[p] = "idle"
           \/ pc'[p] \in {"payMark", "payLimit"} /\ seen'[p] = seen[p]
    BY <1>0, <2>3, HelpersKeepOthers
  <2>. QED  BY <1>a, <2>1, <2>2, <2>4 DEF ReadHigh, ReadLow
<1>3. CASE PayLimit(p)
  <2>1. limit' = seen[p].limit + arg[p].n /\ UNCHANGED <<status, deleted>>
    BY <1>3 DEF PayLimit, LimitAfter
  <2>2. limit <= seen[p].limit
    BY <1>3, <1>a DEF PayLimit, ReadHigh
  <2>3. Others(p) /\ pc'[p] = "paySub"
    BY <1>0, <1>3, HelpersKeepOthers DEF PayLimit
  <2>. QED  BY <1>a, <1>b, <2>1, <2>2, <2>3 DEF ReadHigh, ReadLow
<1>4. CASE PaySub(p) \/ RejectCommit(p)
  <2>1. limit' = limit /\ UNCHANGED <<status, deleted>> /\ Finish(p)
    BY <1>4 DEF PaySub, RejectCommit
  <2>2. Others(p) /\ pc'[p] = "idle"
    BY <1>0, <2>1, HelpersKeepOthers
  <2>. QED  BY <1>a, <2>1, <2>2 DEF ReadHigh, ReadLow
<1>5. CASE RenewCount(p)
  <2>1. limit' = limit /\ UNCHANGED <<status, deleted>>
    BY <1>5 DEF RenewCount, rows
  <2>2. Others(p) /\ pc'[p] = "renewWrite" /\ seen'[p].limit = seen[p].limit
    BY <1>0, <1>5, HelpersKeepOthers DEF RenewCount
  <2>3. limit <= seen[p].limit
    BY <1>5, <1>a DEF RenewCount, ReadHigh
  <2>. QED  BY <1>a, <2>1, <2>2, <2>3 DEF ReadLow
<1>6. CASE RenewCommit(p)
  <2>1. UNCHANGED <<status, deleted>> /\ Finish(p)
    BY <1>6 DEF RenewCommit
  <2>2. Others(p) /\ pc'[p] = "idle"
    BY <1>0, <2>1, HelpersKeepOthers
  <2>3. limit <= seen[p].limit
    BY <1>6, <1>a DEF RenewCommit, ReadHigh
  <2>4. seen[p].limit <= RenewSeats(seen[p])
    BY <1>b, LicensingConstants DEF RenewSeats, Larger
  <2>5. limit' = limit \/ limit' = RenewSeats(seen[p])
    BY <1>6 DEF RenewCommit
  <2>6. RenewSeats(seen[p]) \in Nat
    BY <1>b, LicensingConstants DEF RenewSeats, Larger
  <2>7. limit <= limit'
    BY <1>a, <1>b, <2>3, <2>4, <2>5, <2>6
  <2>. QED  BY <2>1, <2>2, <2>7 DEF ReadHigh, ReadLow
<1>. QED  BY <1>1, <1>2, <1>3, <1>4, <1>5, <1>6 DEF FinanceStep

\* Releasing a seat disturbs nothing a request in flight relies on.
LEMMA ReleaseLane ==
  ASSUME TypeInv, LaneInv, NEW u \in Users, Exit(u) \/ Block(u)
  PROVE  LaneInv'
<1>1. UNCHANGED <<limit, pc, arg, seen>>
  BY DEF Exit, Block
<1>2. Consumers' \subseteq Consumers /\ Consumers \in SUBSET Users
  BY DEF Exit, Block, Consumers, TypeInv, RowsOK
<1>3. Used' <= Used /\ Used' \in Nat /\ Used \in Nat /\ limit \in Nat
  BY <1>2, SubsetSmaller, ConsumersFinite DEF Used, TypeInv, RowsOK
<1>4. SeatsWithinLimit'
  BY <1>1, <1>3 DEF LaneInv, SeatsWithinLimit
<1>5. ASSUME NEW p \in HrProcs PROVE HrInv(p)'
  <2>. DEFINE Back == {v \in arg[p].us : ~deleted[v]}
  <2>0. p \in Procs /\ HrInv(p)
    BY DEF Procs, LaneInv
  <2>1. /\ arg[p].us \in SUBSET Users /\ Cardinality(arg[p].us) \in Nat
        /\ arg[p].n \in Nat /\ seen[p].limit \in Nat
    BY <2>0, HeldType, ConsumersFinite
  <2>2. (Consumers \cup Back)' \subseteq Consumers \cup Back /\ Consumers \cup Back \in SUBSET Users
    BY <1>1, <1>2, <2>1 DEF Exit, Block, TypeInv, RowsOK
  <2>3. Cardinality((Consumers \cup Back)') <= Cardinality(Consumers \cup Back)
    BY <2>2, SubsetSmaller
  <2>4. /\ Cardinality((Consumers \cup Back)') \in Nat
        /\ Cardinality(Consumers \cup Back) \in Nat
    BY <2>2, ConsumersFinite
  <2>5. pc[p] = "loginWrite" => Cardinality((Consumers \cup Back)') <= limit
    BY <2>0, <2>3, <2>4, <1>3 DEF HrInv
  <2>6. pc[p] \in {"inviteWrite", "reactivateWrite"}
          => Used' + Cardinality(arg[p].us) <= seen[p].limit
    BY <2>0, <2>1, <1>3 DEF HrInv
  <2>7. pc[p] = "retractWrite" => Used' + arg[p].n <= seen[p].limit
    BY <2>0, <2>1, <1>3 DEF HrInv
  <2>. QED  BY <1>1, <2>0, <2>5, <2>6, <2>7 DEF HrInv
<1>. QED  BY <1>1, <1>4, <1>5 DEF LaneInv

LEMMA LaneStep ==
  ASSUME Lanes, TypeInv, LaneInv, [Next]_vars
  PROVE  LaneInv'
<1>0. RowsOK' /\ limit \in Nat /\ limit' \in Nat
  BY TypeStep DEF TypeInv, RowsOK
<1>1. ASSUME NEW p \in HrProcs, HrStep(p) \/ LoginStep(p)
      PROVE  LaneInv'
  <2>1. SeatsWithinLimit' /\ HrInv(p)' /\ Others(p) /\ pc'[p] \notin ReadHigh /\ limit' <= limit
    BY <1>0, <1>1, HrLane, LoginLane
  <2>2. \A q \in HrProcs : q = p
    BY DEF Lanes
  <2>3. \A q \in FinanceProcs : pc'[q] \in ReadHigh => limit' <= seen'[q].limit
    BY <1>0, <2>1, HighKept DEF Procs
  <2>4. \A q \in HrProcs : HrInv(q)'
    BY <2>1, <2>2
  <2>. QED  BY <2>1, <2>3, <2>4 DEF LaneInv
<1>2. ASSUME NEW p \in FinanceProcs, FinanceStep(p)
      PROVE  LaneInv'
  <2>1. /\ limit <= limit' /\ UNCHANGED <<status, deleted>> /\ Others(p)
        /\ pc'[p] \in ReadHigh => limit' <= seen'[p].limit
        /\ pc'[p] \notin ReadLow \cup {"loginWrite"}
    BY <1>0, <1>2, FinanceLane
  <2>2. SeatsWithinLimit'
    <3>1. Used' = Used /\ Used \in Nat
      BY <2>1, ConsumersFinite DEF Used, Consumers
    <3>. QED  BY <1>0, <2>1, <3>1 DEF LaneInv, SeatsWithinLimit
  <2>3. ASSUME NEW q \in HrProcs PROVE HrInv(q)'
    <3>0. p \in Procs /\ q \in Procs /\ HrInv(q)
      BY DEF Procs, LaneInv
    <3>1. CASE q = p
      BY <3>0, <3>1, <2>1, HrInvShort
    <3>2. CASE q # p
      BY <1>0, <3>0, <3>2, <2>1, HrKept DEF Others
    <3>. QED  BY <3>1, <3>2
  <2>4. \A q \in FinanceProcs : q = p
    BY DEF Lanes
  <2>. QED  BY <2>1, <2>2, <2>3, <2>4 DEF LaneInv
<1>3. ASSUME NEW p \in Procs, Fail(p)
      PROVE  LaneInv'
  <2>1. UNCHANGED rows /\ Others(p) /\ pc'[p] = "idle"
    BY <1>3, HelpersKeepOthers DEF Fail
  <2>2. UNCHANGED <<status, deleted, limit>>
    BY <2>1 DEF rows
  <2>3. SeatsWithinLimit'
    BY <2>2 DEF LaneInv, SeatsWithinLimit, Used, Consumers
  <2>4. ASSUME NEW q \in HrProcs PROVE HrInv(q)'
    <3>0. q \in Procs /\ HrInv(q)
      BY DEF Procs, LaneInv
    <3>1. CASE q = p
      BY <3>0, <3>1, <2>1, HrInvShort DEF ReadLow
    <3>2. CASE q # p
      BY <1>0, <3>0, <3>2, <2>1, <2>2, HrKept DEF Others
    <3>. QED  BY <3>1, <3>2
  <2>5. \A q \in FinanceProcs : pc'[q] \in ReadHigh => limit' <= seen'[q].limit
    BY <1>0, <2>1, <2>2, HighKept DEF ReadHigh
  <2>. QED  BY <2>3, <2>4, <2>5 DEF LaneInv
<1>4. ASSUME UNCHANGED <<status, deleted, limit, pc, arg, seen>>
      PROVE  LaneInv'
  BY <1>4 DEF LaneInv, SeatsWithinLimit, HrInv, Used, Consumers
<1>5. CASE \E p \in LoginProcs : LoginStep(p)
  BY <1>1, <1>5 DEF Lanes
<1>6. CASE \E u \in Users : Exit(u) \/ Block(u)
  BY <1>6, ReleaseLane
<1>7. CASE \E r \in Requests : RequestLicenses(r)
  BY <1>4, <1>7 DEF RequestLicenses
<1>8. CASE UNCHANGED vars
  BY <1>4, <1>8 DEF vars
<1>9. CASE Ended
  BY <1>4, <1>9, EndStep
<1>. QED  BY <1>1, <1>2, <1>3, <1>5, <1>6, <1>7, <1>8, <1>9 DEF Next, Lanes, Ended

LEMMA LaneInit ==
  ASSUME Lanes, Init
  PROVE  LaneInv
<1>1. Consumers \subseteq Founders /\ Founders \in SUBSET Users
  BY LicensingConstants DEF Init, Consumers
<1>2. Used <= Cardinality(Founders)
  BY <1>1, SubsetSmaller DEF Used
<1>3. Used \in Nat /\ Cardinality(Founders) \in Nat
  BY <1>1, ConsumersFinite
<1>4. SeatsWithinLimit
  BY <1>2, <1>3, LicensingConstants DEF Init, Lanes, SeatsWithinLimit
<1>5. \A p \in Procs : pc[p] = "idle"
  BY DEF Init
<1>. QED  BY <1>4, <1>5 DEF LaneInv, HrInv, ReadLow, ReadHigh, Procs

\* In a company whose seats are taken, handed back and switched on by one request
\* at a time, and paid for by one request at a time, no interleaving of the two
\* with exits, blocks and failures gives out more seats than were bought.
THEOREM SeatsSafe ==
  ASSUME Lanes
  PROVE  Spec => []SeatsWithinLimit
<1>1. Init => TypeInv /\ LaneInv
  BY TypeInit, LaneInit
<1>2. TypeInv /\ LaneInv /\ [Next]_vars => TypeInv' /\ LaneInv'
  BY TypeStep, LaneStep
<1>3. LaneInv => SeatsWithinLimit
  BY DEF LaneInv
<1>. QED  BY <1>1, <1>2, <1>3, PTL DEF Spec

-----------------------------------------------------------------------------
(* The abstract seat pool.                                                 *)

\* No step changes both the limit and who holds a seat.
LEMMA OneSide ==
  ASSUME Next
  PROVE  limit' = limit \/ UNCHANGED <<status, deleted>>
BY DEF Next, HrStep, LoginStep, FinanceStep, PlatformStep, Fail, rows, Invite,
       Reactivate, AssertLicense, InviteCommit, ReactivateCommit, Login, LoginCommit,
       Exit, Block, Retract, RetractCount, RetractCommit, RequestLicenses, Pay, Buy,
       PayCheck, PayMark, PayLimit, PaySub, Reject, RejectCommit, Renew, RenewCount,
       RenewCommit, SetLicences, SetCount, SetCommit, Revive, ReviveCommit,
       CancelSubscription, LapseSubscription

\* Under the same lanes, every step of the handlers takes free seats, gives seats
\* back, or resizes the pool to at least what is taken.
THEOREM ImplementsSeatPool ==
  ASSUME Lanes
  PROVE  Spec => SeatPoolSpec
<1>1. Init => TypeInv /\ LaneInv
  BY TypeInit, LaneInit
<1>2. TypeInv /\ LaneInv /\ [Next]_vars => TypeInv' /\ LaneInv'
  BY TypeStep, LaneStep
<1>3. TypeInv /\ LaneInv => Pool!Init
  BY ConsumersFinite DEF Pool!Init, LaneInv, SeatsWithinLimit, TypeInv, RowsOK
<1>4. TypeInv /\ LaneInv /\ TypeInv' /\ LaneInv' /\ [Next]_vars
        => [Pool!Next]_<<limit, Used>>
  <2>. SUFFICES ASSUME TypeInv, LaneInv, TypeInv', LaneInv', [Next]_vars
                PROVE  [Pool!Next]_<<limit, Used>>
    OBVIOUS
  <2>1. Used' <= limit' /\ Used \in Nat /\ limit' \in Nat
    BY ConsumersFinite DEF LaneInv, SeatsWithinLimit, TypeInv, RowsOK
  <2>2. Used' \in Nat
    BY LicensingConstants, FS_Subset, FS_CardinalityType DEF Used, Consumers
  <2>3. CASE UNCHANGED <<status, deleted>>
    <3>1. Used' = Used
      BY <2>3 DEF Used, Consumers
    <3>. QED  BY <2>1, <3>1 DEF Pool!Next, Pool!Resize
  <2>4. CASE limit' = limit
    BY <2>1, <2>2, <2>4 DEF Pool!Next, Pool!Take, Pool!Release
  <2>. QED  BY <2>3, <2>4, OneSide DEF vars
<1>. QED  BY <1>1, <1>2, <1>3, <1>4, PTL DEF Spec, SeatPoolSpec, Pool!Spec

-----------------------------------------------------------------------------
(* The subscriptions.                                                      *)

\* The terms form chains: a term is renewed once at most, and is then not in
\* force any more; a request holds one of the terms, or none.
Chain(ts) ==
  /\ \A i \in 1 .. Len(ts) : ts[i].renewedFrom \in 0 .. Len(ts)
  /\ \A i, j \in 1 .. Len(ts) : ts[i].renewedFrom = j => ~ts[j].active
  /\ \A i, j \in 1 .. Len(ts) :
       ts[i].renewedFrom = ts[j].renewedFrom /\ ts[i].renewedFrom # 0 => i = j
ChainInv ==
  /\ Chain(terms)
  /\ \A p \in Procs : pc[p] # "idle" => seen[p].term \in 0 .. Len(terms)

\* The newest active term is one of the terms, or 0; if there is just one active
\* term, it is the newest.
LEMMA LatestTerm ==
  ASSUME NEW ts \in Seq(Term)
  PROVE  /\ Latest(ts) \in 0 .. Len(ts)
         /\ (\A i, j \in ActiveTerms(ts) : i = j) => \A i \in ActiveTerms(ts) : i = Latest(ts)
<1>1. DOMAIN ts = 1 .. Len(ts) /\ Len(ts) \in Nat
  OBVIOUS
<1>2. Latest(ts) \in 0 .. Len(ts)
  <2>1. CASE \E i \in DOMAIN ts : Newest(ts, i)
    BY <1>1, <2>1 DEF Latest
  <2>2. CASE ~ \E i \in DOMAIN ts : Newest(ts, i)
    BY <1>1, <2>2 DEF Latest
  <2>. QED  BY <2>1, <2>2
<1>3. ASSUME \A i, j \in ActiveTerms(ts) : i = j, NEW i \in ActiveTerms(ts)
      PROVE  i = Latest(ts)
  <2>1. i \in DOMAIN ts /\ i \in Nat
    BY <1>1 DEF ActiveTerms
  <2>2. Newest(ts, i)
    BY <1>3, <2>1 DEF Newest
  <2>3. \A j \in DOMAIN ts : Newest(ts, j) => j = i
    BY <1>3 DEF Newest
  <2>. QED  BY <2>1, <2>2, <2>3 DEF Latest
<1>. QED  BY <1>2, <1>3

\* Setting the seats of a term.
LEMMA SetSeats ==
  ASSUME NEW ts \in Seq(Term), NEW i \in 0 .. Len(ts), NEW n \in Nat
  PROVE  /\ Len(WithSeats(ts, i, n)) = Len(ts) /\ WithSeats(ts, i, n) \in Seq(Term)
         /\ i # 0 => WithSeats(ts, i, n)[i].seats = n
         /\ \A j \in 1 .. Len(ts) : /\ WithSeats(ts, i, n)[j].active = ts[j].active
                                    /\ WithSeats(ts, i, n)[j].renewedFrom = ts[j].renewedFrom
<1>1. CASE i = 0
  BY <1>1 DEF WithSeats
<1>2. CASE i # 0
  <2>1. ts \in [1 .. Len(ts) -> Term] /\ Len(ts) \in Nat /\ i \in 1 .. Len(ts) /\ i \in Nat
    BY <1>2
  <2>2. PICK us : us = [ts EXCEPT ![i].seats = n]
    OBVIOUS
  <2>3. WithSeats(ts, i, n) = us /\ us \in Seq(Term)
    BY <1>2, <2>1, <2>2, TermsType DEF WithSeats
  <2>4. DOMAIN us = 1 .. Len(ts)
    BY <2>1, <2>2
  <2>5. Len(us) = Len(ts)
    BY <2>1, <2>3, <2>4, LenProperties
  <2>6. us[i].seats = n /\ us[i].active = ts[i].active /\ us[i].renewedFrom = ts[i].renewedFrom
    BY <2>1, <2>2 DEF Term
  <2>7. \A j \in (1 .. Len(ts)) \ {i} : us[j] = ts[j]
    BY <2>1, <2>2
  <2>. QED  BY <2>1, <2>3, <2>5, <2>6, <2>7
<1>. QED  BY <1>1, <1>2

\* Chains stay chains while terms keep their predecessors and come into force no
\* more.
LEMMA ChainKept ==
  ASSUME NEW ts \in Seq(Term), Chain(ts), NEW us, Len(us) = Len(ts),
         \A j \in 1 .. Len(ts) : /\ us[j].active => ts[j].active
                                /\ us[j].renewedFrom = ts[j].renewedFrom
  PROVE  Chain(us)
BY DEF Chain

\* A term renews the one it names, and that one ends.
LEMMA RenewTerm ==
  ASSUME NEW ts \in Seq(Term), Chain(ts), NEW old \in 0 .. Len(ts),
         old # 0 => \A j \in 1 .. Len(ts) : ts[j].renewedFrom # old,
         NEW t \in Term, t.active, t.renewedFrom = old
  PROVE  LET us == Append(Expire(ts, old), t) IN
         /\ Len(us) = Len(ts) + 1 /\ Chain(us) /\ us[Len(us)] = t
         /\ \A j \in 1 .. Len(ts) : us[j].active <=> ts[j].active /\ j # old
<1>0. Len(ts) \in Nat
  OBVIOUS
<1>1. PICK xs : xs = Expire(ts, old)
  OBVIOUS
<1>2. /\ xs \in Seq(Term) /\ Len(xs) = Len(ts)
      /\ \A j \in 1 .. Len(ts) : /\ xs[j].active <=> ts[j].active /\ j # old
                                 /\ xs[j].renewedFrom = ts[j].renewedFrom
  BY <1>1, ExpireOne
<1>3. PICK us : us = Append(xs, t)
  OBVIOUS
<1>4. /\ Len(us) = Len(ts) + 1 /\ us[Len(ts) + 1] = t
      /\ \A j \in 1 .. Len(ts) : us[j] = xs[j]
  BY <1>2, <1>3, AppendProperties
<1>5. 1 .. Len(us) = (1 .. Len(ts)) \cup {Len(ts) + 1} /\ Len(ts) + 1 \notin 1 .. Len(ts)
  BY <1>0, <1>4
<1>6. \A i \in 1 .. Len(us) : us[i].renewedFrom \in 0 .. Len(ts)
  BY <1>0, <1>2, <1>4, <1>5 DEF Chain
<1>7. \A i, j \in 1 .. Len(us) : us[i].renewedFrom = j => ~us[j].active
  <2>. SUFFICES ASSUME NEW i \in 1 .. Len(us), NEW j \in 1 .. Len(us), us[i].renewedFrom = j
                PROVE  ~us[j].active
    OBVIOUS
  <2>1. j \in 1 .. Len(ts) /\ j # 0
    BY <1>0, <1>5, <1>6
  <2>2. CASE i = Len(ts) + 1
    BY <1>2, <1>4, <2>1, <2>2
  <2>3. CASE i \in 1 .. Len(ts)
    BY <1>2, <1>4, <2>1, <2>3 DEF Chain
  <2>. QED  BY <1>5, <2>2, <2>3
<1>8. \A i, j \in 1 .. Len(us) : us[i].renewedFrom = us[j].renewedFrom /\ us[i].renewedFrom # 0 => i = j
  BY <1>2, <1>4, <1>5 DEF Chain
<1>9. Chain(us)
  <2>1. \A i \in 1 .. Len(us) : us[i].renewedFrom \in 0 .. Len(us)
    BY <1>0, <1>4, <1>6
  <2>. QED  BY <1>7, <1>8, <2>1 DEF Chain
<1>10. us[Len(us)] = t /\ \A j \in 1 .. Len(ts) : us[j].active <=> ts[j].active /\ j # old
  BY <1>2, <1>4
<1>. QED  BY <1>1, <1>3, <1>4, <1>9, <1>10

\* A term is not renewed: how the check of the unique column reads.
LEMMA NotYetRenewed ==
  ASSUME TypeInv, NEW i, ~AlreadyRenewed(i), i # 0
  PROVE  \A j \in 1 .. Len(terms) : terms[j].renewedFrom # i
<1>1. DOMAIN terms = 1 .. Len(terms)
  BY DEF TypeInv, RowsOK
<1>. QED  BY <1>1 DEF AlreadyRenewed

\* What a request has read of the tenant, after each kind of step.
LEMMA ReadFacts ==
  ASSUME TypeInv, NEW p \in Procs
  PROVE  /\ \A stage, a : Begin(p, stage, a) =>
              /\ seen'[p].limit = limit /\ seen'[p].credit = credit /\ seen'[p].term = Latest(terms)
              /\ pc[p] = "idle"
         /\ \A stage : Counted(p, stage) =>
              /\ seen'[p].limit = seen[p].limit /\ seen'[p].credit = seen[p].credit
              /\ seen'[p].term = seen[p].term
         /\ Finish(p) => pc'[p] = "idle"
<1>1. \A stage, a : Begin(p, stage, a) =>
              /\ seen'[p].limit = limit /\ seen'[p].credit = credit /\ seen'[p].term = Latest(terms)
              /\ pc[p] = "idle"
  BY DEF Begin, TypeInv, FlightOK
<1>2. \A stage : Counted(p, stage) =>
              /\ seen'[p].limit = seen[p].limit /\ seen'[p].credit = seen[p].credit
              /\ seen'[p].term = seen[p].term
  BY DEF Counted, TypeInv, FlightOK, Seen
<1>3. Finish(p) => pc'[p] = "idle"
  BY DEF Finish, TypeInv, FlightOK
<1>. QED  BY <1>1, <1>2, <1>3

\* What one request in flight does with what it holds: it begins, goes on with
\* the same, or ends.
LEMMA FlightStep ==
  ASSUME TypeInv, NEW p \in Procs,
         \/ HrStep(p) \/ LoginStep(p) \/ FinanceStep(p) \/ PlatformStep(p) \/ Fail(p)
  PROVE  /\ Others(p)
         /\ \/ \E stage, a : Begin(p, stage, a) /\ UNCHANGED rows
            \/ pc'[p] = "idle"
            \/ /\ pc[p] # "idle" /\ seen'[p].limit = seen[p].limit /\ seen'[p].credit = seen[p].credit
               /\ seen'[p].term = seen[p].term /\ arg'[p] = arg[p]
<1>1. CASE \E stage, a : Begin(p, stage, a) /\ UNCHANGED rows
  BY <1>1, HelpersKeepOthers
<1>2. CASE Finish(p)
  BY <1>2, HelpersKeepOthers
<1>3. CASE pc[p] # "idle" /\ \E stage : Counted(p, stage) \/ (Goto(p, stage) /\ UNCHANGED seen)
  BY <1>3, HelpersKeepOthers, ReadFacts
<1>4. CASE HrStep(p)
  <2>1. CASE \E us \in SUBSET Users : Invite(p, us)
    BY <1>1, <2>1 DEF Invite
  <2>2. CASE \E u \in Users : Reactivate(p, u)
    BY <1>1, <2>2 DEF Reactivate
  <2>3. CASE \E n \in 1 .. MaxRetracted : Retract(p, n)
    BY <1>1, <2>3 DEF Retract
  <2>4. CASE AssertLicense(p)
    BY <1>2, <1>3, <2>4 DEF AssertLicense
  <2>5. CASE RetractCount(p)
    BY <1>2, <1>3, <2>5 DEF RetractCount
  <2>6. CASE InviteCommit(p) \/ ReactivateCommit(p) \/ RetractCommit(p)
    BY <1>2, <2>6 DEF InviteCommit, ReactivateCommit, RetractCommit
  <2>. QED  BY <1>4, <2>1, <2>2, <2>3, <2>4, <2>5, <2>6 DEF HrStep
<1>5. CASE LoginStep(p)
  BY <1>1, <1>2, <1>5 DEF LoginStep, Login, LoginCommit
<1>6. CASE FinanceStep(p)
  <2>1. CASE \E r \in Requests : Pay(p, r) \/ Buy(p, r) \/ Reject(p, r)
    BY <1>1, <2>1 DEF Pay, Buy, Reject
  <2>2. CASE Renew(p)
    BY <1>1, <2>2 DEF Renew
  <2>3. CASE PayCheck(p) \/ PayMark(p) \/ PayLimit(p) \/ RenewCount(p)
    <3>1. pc[p] # "idle"
      BY <2>3 DEF PayCheck, PayMark, PayLimit, RenewCount
    <3>2. Finish(p) \/ \E stage : Counted(p, stage) \/ (Goto(p, stage) /\ UNCHANGED seen)
      BY <2>3 DEF PayCheck, PayMark, PayLimit, RenewCount
    <3>. QED  BY <1>2, <1>3, <3>1, <3>2
  <2>4. CASE PaySub(p) \/ RejectCommit(p) \/ RenewCommit(p)
    BY <1>2, <2>4 DEF PaySub, RejectCommit, RenewCommit
  <2>. QED  BY <1>6, <2>1, <2>2, <2>3, <2>4 DEF FinanceStep
<1>7. CASE PlatformStep(p)
  <2>1. CASE \E n \in 0 .. MaxLimit : SetLicences(p, n)
    BY <1>1, <2>1 DEF SetLicences
  <2>2. CASE \E u \in Users : Revive(p, u)
    BY <1>1, <2>2 DEF Revive
  <2>3. CASE SetCount(p)
    BY <1>2, <1>3, <2>3 DEF SetCount
  <2>4. CASE SetCommit(p) \/ ReviveCommit(p)
    BY <1>2, <2>4 DEF SetCommit, ReviveCommit
  <2>. QED  BY <1>7, <2>1, <2>2, <2>3, <2>4 DEF PlatformStep
<1>8. CASE Fail(p)
  BY <1>2, <1>8 DEF Fail
<1>. QED  BY <1>4, <1>5, <1>6, <1>7, <1>8

\* Only these statements write the limit, the balance or the subscriptions.
LEMMA TenantWrites ==
  ASSUME NEW p \in Procs,
         \/ HrStep(p) \/ LoginStep(p) \/ FinanceStep(p) \/ PlatformStep(p) \/ Fail(p)
  PROVE  \/ UNCHANGED <<limit, credit, terms, ledger>>
         \/ HrStep(p) /\ RetractCommit(p)
         \/ FinanceStep(p) /\ (PayLimit(p) \/ PaySub(p) \/ RenewCommit(p))
         \/ PlatformStep(p) /\ SetCommit(p)
<1>1. CASE LoginStep(p) \/ Fail(p)
  BY <1>1 DEF LoginStep, Login, LoginCommit, Fail, rows
<1>2. CASE HrStep(p)
  <2>1. CASE RetractCommit(p)
    BY <1>2, <2>1
  <2>2. CASE UNCHANGED <<limit, credit, terms, ledger>>
    BY <2>2
  <2>. QED  BY <1>2, <2>1, <2>2 DEF HrStep, Invite, Reactivate, Retract, AssertLicense, InviteCommit,
            ReactivateCommit, RetractCount, rows
<1>3. CASE FinanceStep(p)
  <2>1. CASE PayLimit(p) \/ PaySub(p) \/ RenewCommit(p)
    BY <1>3, <2>1
  <2>2. CASE UNCHANGED <<limit, credit, terms, ledger>>
    BY <2>2
  <2>. QED  BY <1>3, <2>1, <2>2 DEF FinanceStep, Pay, Buy, Reject, Renew, PayCheck, PayMark, RejectCommit,
            RenewCount, rows
<1>4. CASE PlatformStep(p)
  <2>1. CASE SetCommit(p)
    BY <1>4, <2>1
  <2>2. CASE UNCHANGED <<limit, credit, terms, ledger>>
    BY <2>2
  <2>. QED  BY <1>4, <2>1, <2>2 DEF PlatformStep, SetLicences, Revive, SetCount, ReviveCommit, rows
<1>. QED  BY <1>1, <1>2, <1>3, <1>4

\* What a step does to the subscriptions.
LEMMA ChainWrites ==
  ASSUME TypeInv, ChainInv, NEW p \in Procs,
         RetractCommit(p) \/ PayLimit(p) \/ PaySub(p) \/ RenewCommit(p) \/ SetCommit(p)
  PROVE  Chain(terms') /\ Len(terms) <= Len(terms') /\ Len(terms') \in Nat
<1>0. terms \in Seq(Term) /\ Len(terms) \in Nat /\ Chain(terms)
  BY DEF TypeInv, RowsOK, ChainInv
<1>1. pc[p] # "idle"
  BY DEF RetractCommit, PayLimit, PaySub, RenewCommit, SetCommit
<1>2. seen[p].term \in 0 .. Len(terms)
  BY <1>1 DEF ChainInv
<1>3. ASSUME NEW n \in Nat, terms' = WithSeats(terms, seen[p].term, n)
      PROVE  Chain(terms') /\ Len(terms) <= Len(terms') /\ Len(terms') \in Nat
  <2>1. PICK us : us = WithSeats(terms, seen[p].term, n)
    OBVIOUS
  <2>2. /\ Len(us) = Len(terms)
        /\ \A j \in 1 .. Len(terms) : us[j].active = terms[j].active /\ us[j].renewedFrom = terms[j].renewedFrom
    BY <1>0, <1>2, <2>1, SetSeats
  <2>3. Chain(us)
    BY <1>0, <2>2, ChainKept
  <2>. QED  BY <1>0, <1>3, <2>1, <2>2, <2>3
<1>4. /\ arg[p].n \in Nat /\ seen[p].limit \in Nat
      /\ pc[p] = "retractWrite" => arg[p].n <= seen[p].limit
  BY HeldType DEF TypeInv, FlightOK
<1>5. CASE RetractCommit(p)
  <2>1. seen[p].limit - arg[p].n \in Nat
    BY <1>4, <1>5 DEF RetractCommit
  <2>2. terms' = WithSeats(terms, seen[p].term, seen[p].limit - arg[p].n)
    BY <1>5 DEF RetractCommit
  <2>. QED  BY <1>3, <2>1, <2>2
<1>6. ASSUME NEW n \in Nat, NEW old \in 0 .. Len(terms),
             old # 0 => \A j \in 1 .. Len(terms) : terms[j].renewedFrom # old,
             terms' = Append(Expire(terms, old), [seats |-> n, active |-> TRUE, renewedFrom |-> old])
      PROVE  Chain(terms') /\ Len(terms) <= Len(terms') /\ Len(terms') \in Nat
  <2>1. PICK t : t = [seats |-> n, active |-> TRUE, renewedFrom |-> old]
    OBVIOUS
  <2>2. t \in Term /\ t.active /\ t.renewedFrom = old
    BY <1>0, <2>1 DEF Term
  <2>3. PICK us : us = Append(Expire(terms, old), t)
    OBVIOUS
  <2>4. Len(us) = Len(terms) + 1 /\ Chain(us)
    BY <1>0, <1>6, <2>2, <2>3, RenewTerm
  <2>. QED  BY <1>0, <1>6, <2>1, <2>3, <2>4
<1>7. CASE PaySub(p)
  <2>1. LimitAfter(seen[p], arg[p].n) \in Nat
    BY <1>4 DEF LimitAfter
  <2>2. CASE seen[p].term # 0
    BY <1>3, <1>7, <2>1, <2>2 DEF PaySub
  <2>3. CASE seen[p].term = 0
    <3>1. Expire(terms, 0) = terms /\ 0 \in 0 .. Len(terms)
      BY <1>0 DEF Expire
    <3>2. terms' = Append(terms, [seats |-> LimitAfter(seen[p], arg[p].n), active |-> TRUE, renewedFrom |-> 0])
      BY <1>7, <2>3 DEF PaySub
    <3>. QED  BY <1>6, <2>1, <3>1, <3>2
  <2>. QED  BY <2>2, <2>3
<1>8. CASE PayLimit(p) \/ SetCommit(p)
  BY <1>0, <1>8 DEF PayLimit, SetCommit
<1>9. CASE RenewCommit(p)
  <2>1. CASE AlreadyRenewed(seen[p].term)
    BY <1>0, <1>9, <2>1 DEF RenewCommit
  <2>2. CASE ~AlreadyRenewed(seen[p].term)
    <3>1. RenewSeats(seen[p]) \in Nat
      BY HeldType, LicensingConstants DEF RenewSeats, Larger
    <3>2. terms' = Append(Expire(terms, seen[p].term), [seats |-> RenewSeats(seen[p]), active |-> TRUE,
                                                        renewedFrom |-> seen[p].term])
      BY <1>9, <2>2 DEF RenewCommit
    <3>3. seen[p].term # 0 => \A j \in 1 .. Len(terms) : terms[j].renewedFrom # seen[p].term
      BY <2>2, NotYetRenewed
    <3>. QED  BY <1>2, <1>6, <3>1, <3>2, <3>3
  <2>. QED  BY <2>1, <2>2
<1>. QED  BY <1>5, <1>7, <1>8, <1>9

LEMMA ChainStep ==
  ASSUME TypeInv, TypeInv', ChainInv, [Next]_vars
  PROVE  ChainInv'
<1>0. terms \in Seq(Term) /\ Len(terms) \in Nat
  BY DEF TypeInv, RowsOK
<1>1. ASSUME UNCHANGED <<terms, pc, seen>> PROVE ChainInv'
  BY <1>1 DEF ChainInv
<1>2. ASSUME NEW p \in Procs,
             \/ HrStep(p) \/ LoginStep(p) \/ FinanceStep(p) \/ PlatformStep(p) \/ Fail(p)
      PROVE  ChainInv'
  <2>1. Chain(terms') /\ Len(terms) <= Len(terms') /\ Len(terms') \in Nat
    <3>1. CASE UNCHANGED terms
      BY <1>0, <3>1 DEF ChainInv
    <3>2. CASE RetractCommit(p) \/ PayLimit(p) \/ PaySub(p) \/ RenewCommit(p) \/ SetCommit(p)
      BY <3>2, ChainWrites
    <3>. QED  BY <1>2, <3>1, <3>2, TenantWrites
  <2>2. ASSUME NEW q \in Procs, pc'[q] # "idle" PROVE seen'[q].term \in 0 .. Len(terms')
    <3>1. CASE q # p
      <4>1. pc[q] # "idle" /\ seen'[q] = seen[q]
        BY <1>2, <2>2, <3>1, FlightStep DEF Others
      <4>2. seen[q].term \in 0 .. Len(terms)
        BY <4>1 DEF ChainInv
      <4>. QED  BY <1>0, <2>1, <4>1, <4>2
    <3>2. CASE q = p
      <4>1. CASE \E stage, a : Begin(p, stage, a)
        <5>1. seen'[p].term \in 0 .. Len(terms)
          BY <1>0, <4>1, ReadFacts, LatestTerm
        <5>. QED  BY <1>0, <2>1, <3>2, <5>1
      <4>2. CASE pc[p] # "idle" /\ seen'[p].term = seen[p].term
        <5>1. seen[p].term \in 0 .. Len(terms)
          BY <4>2 DEF ChainInv
        <5>. QED  BY <1>0, <2>1, <3>2, <4>2, <5>1
      <4>. QED  BY <1>2, <2>2, <3>2, <4>1, <4>2, FlightStep
    <3>. QED  BY <3>1, <3>2
  <2>. QED  BY <2>1, <2>2 DEF ChainInv
<1>3. CASE \E u \in Users : Exit(u) \/ Block(u)
  BY <1>1, <1>3 DEF Exit, Block
<1>4. CASE \E r \in Requests : RequestLicenses(r)
  BY <1>1, <1>4 DEF RequestLicenses
<1>5. CASE Ended
  <2>1. Chain(terms') /\ Len(terms') = Len(terms)
    BY <1>0, <1>5, EndStep, ChainKept DEF ChainInv
  <2>2. UNCHANGED <<pc, seen>>
    BY <1>5, EndStep
  <2>. QED  BY <2>1, <2>2 DEF ChainInv
<1>6. CASE UNCHANGED vars
  BY <1>1, <1>6 DEF vars
<1>. QED  BY <1>2, <1>3, <1>4, <1>5, <1>6 DEF Next, Procs, Ended

LEMMA ChainInit == Init => ChainInv
<1>. SUFFICES ASSUME Init PROVE ChainInv
  OBVIOUS
<1>1. terms = <<[seats |-> InitialLimit, active |-> TRUE, renewedFrom |-> 0]>>
  BY DEF Init
<1>2. Len(terms) = 1 /\ terms[1].active /\ terms[1].renewedFrom = 0
  BY <1>1
<1>3. \A p \in Procs : pc[p] = "idle"
  BY DEF Init
<1>. QED  BY <1>2, <1>3 DEF ChainInv, Chain

\* Counting the terms of chains: those that renewed another one are as many as
\* those renewed, and none of the renewed ones is in force.
LEMMA OnePerChain ==
  ASSUME TypeInv, ChainInv
  PROVE  OneTermPerChain
<1> DEFINE D == 1 .. Len(terms)
           Renewing == D \ Begun
           Renewed == {i \in D : \E j \in D : terms[j].renewedFrom = i}
           from == [j \in Renewing |-> terms[j].renewedFrom]
<1>1. /\ terms \in Seq(Term) /\ DOMAIN terms = D /\ Len(terms) \in Nat /\ Chain(terms)
      /\ \A j \in D : terms[j].renewedFrom \in Nat
  <2>1. terms \in Seq(Term) /\ DOMAIN terms = D /\ Len(terms) \in Nat /\ Chain(terms)
    BY DEF TypeInv, RowsOK, ChainInv
  <2>. QED  BY <2>1 DEF Chain
<1>2. IsFiniteSet(D) /\ Begun \subseteq D /\ Renewed \subseteq D /\ ActiveTerms(terms) \subseteq D \ Renewed
  <2>1. IsFiniteSet(D)
    BY <1>1, FS_Interval
  <2>2. Begun \subseteq D /\ Renewed \subseteq D
    BY <1>1 DEF Begun
  <2>3. ActiveTerms(terms) \subseteq D \ Renewed
    BY <1>1 DEF ActiveTerms, Chain
  <2>. QED  BY <2>1, <2>2, <2>3
<1>3. from \in Injection(Renewing, Renewed)
  <2>1. \A j \in Renewing : from[j] = terms[j].renewedFrom /\ from[j] # 0 /\ from[j] \in D
    <3>. SUFFICES ASSUME NEW j \in Renewing
                  PROVE  terms[j].renewedFrom # 0 /\ terms[j].renewedFrom \in D
      OBVIOUS
    <3>1. j \in D /\ terms[j].renewedFrom # 0
      BY <1>1 DEF Begun
    <3>2. terms[j].renewedFrom \in 0 .. Len(terms)
      BY <1>1, <3>1 DEF Chain
    <3>. QED  BY <1>1, <3>1, <3>2
  <2>2. from \in [Renewing -> Renewed]
    BY <2>1
  <2>3. \A i, j \in Renewing : from[i] = from[j] => i = j
    BY <1>1, <2>1 DEF Chain
  <2>. QED  BY <2>2, <2>3 DEF Injection, IsInjective
<1>4. /\ IsFiniteSet(Renewed) /\ IsFiniteSet(Renewing) /\ IsFiniteSet(Begun)
      /\ Cardinality(Renewed) \in Nat /\ Cardinality(Begun) \in Nat /\ Cardinality(D) \in Nat
  BY <1>2, FS_Subset, FS_CardinalityType
<1>5. Cardinality(Renewing) <= Cardinality(Renewed)
  BY <1>3, <1>4, FS_Injection
<1>6. Cardinality(Renewing) = Cardinality(D) - Cardinality(Begun)
  <2>1. D \cap Begun = Begun
    BY <1>2
  <2>. QED  BY <1>2, <2>1, FS_Difference
<1>7. Cardinality(D \ Renewed) = Cardinality(D) - Cardinality(Renewed) /\ IsFiniteSet(D \ Renewed)
  <2>1. D \cap Renewed = Renewed
    BY <1>2
  <2>. QED  BY <1>2, <2>1, FS_Difference
<1>8. Cardinality(ActiveTerms(terms)) <= Cardinality(D \ Renewed) /\ Cardinality(ActiveTerms(terms)) \in Nat
  BY <1>2, <1>7, FS_Subset, FS_CardinalityType
<1>. HIDE DEF D, Renewing, Renewed, from
<1>9. PICK d, b, r, g \in Int : /\ d = Cardinality(D) /\ b = Cardinality(Begun)
                                /\ r = Cardinality(Renewed) /\ g = Cardinality(Renewing)
  BY <1>4, <1>6
<1>10. Cardinality(ActiveTerms(terms)) <= d - r /\ g <= r /\ g = d - b
  BY <1>5, <1>6, <1>7, <1>8, <1>9
<1>11. Cardinality(ActiveTerms(terms)) <= b
  BY <1>8, <1>9, <1>10
<1>. QED  BY <1>9, <1>11 DEF OneTermPerChain

\* However payments, renewals, retractions and cancellations overlap or fail,
\* there are never more subscriptions in force than were begun when there was
\* none: renewing opens none beside another (Licensing.OneTermPerChain).
THEOREM OneTermPerChainAlways == Spec => []OneTermPerChain
<1>1. TypeInv /\ ChainInv => OneTermPerChain
  BY OnePerChain
<1>2. Init => TypeInv /\ ChainInv
  BY TypeInit, ChainInit
<1>3. TypeInv /\ ChainInv /\ [Next]_vars => TypeInv' /\ ChainInv'
  BY TypeStep, ChainStep
<1>. QED  BY <1>1, <1>2, <1>3, PTL DEF Spec

-----------------------------------------------------------------------------
(* Money and seats, one request at a time.                                 *)

\* One request at a time takes or hands back seats, pays or renews.
OneSpender == \A p, q \in HrProcs \cup FinanceProcs : p = q
Spenders == HrProcs \cup FinanceProcs

\* What it has read of the balance is still so.
WalletInv ==
  /\ credit + ledger.redeemed = ledger.credited
  /\ \A p \in Spenders : pc[p] # "idle" => seen[p].credit = credit

LEMMA WalletStep ==
  ASSUME OneSpender, TypeInv, WalletInv, [Next]_vars
  PROVE  WalletInv'
<1>0. /\ ledger \in [credited : Nat, redeemed : Nat, seats : Nat] /\ credit \in Nat
      /\ ledger.credited \in Nat /\ ledger.redeemed \in Nat
  BY DEF TypeInv, RowsOK
<1>1. ASSUME UNCHANGED <<credit, ledger, pc, seen>> PROVE WalletInv'
  BY <1>1 DEF WalletInv
<1>2. ASSUME NEW p \in Procs, UNCHANGED <<credit, ledger>>,
             \/ HrStep(p) \/ LoginStep(p) \/ FinanceStep(p) \/ PlatformStep(p) \/ Fail(p)
      PROVE  WalletInv'
  <2>1. ASSUME NEW q \in Spenders, pc'[q] # "idle" PROVE seen'[q].credit = credit
    <3>0. q \in Procs
      BY DEF Spenders, Procs
    <3>1. CASE q # p
      BY <1>2, <2>1, <3>0, <3>1, FlightStep DEF Others, WalletInv
    <3>2. CASE q = p
      BY <1>2, <2>1, <3>2, FlightStep, ReadFacts DEF WalletInv
    <3>. QED  BY <3>1, <3>2
  <2>. QED  BY <1>2, <2>1 DEF WalletInv
<1>3. ASSUME NEW p \in Spenders, Finish(p), credit' + ledger'.redeemed = ledger'.credited
      PROVE  WalletInv'
  <2>1. \A q \in Spenders : q = p
    BY DEF OneSpender, Spenders
  <2>2. pc'[p] = "idle"
    BY <1>3, ReadFacts DEF Spenders, Procs
  <2>. QED  BY <1>3, <2>1, <2>2 DEF WalletInv
<1>4. ASSUME NEW p \in Spenders, RetractCommit(p) PROVE WalletInv'
  <2>0. p \in Procs
    BY DEF Spenders, Procs
  <2>1. PICK amount : amount = arg[p].n * UnitCredit
    OBVIOUS
  <2>2. amount \in Nat /\ seen[p].credit = credit
    <3>1. arg[p].n \in Nat
      BY <2>0, HeldType
    <3>2. arg[p].n * UnitCredit \in Nat
      BY <3>1, LicensingConstants
    <3>. QED  BY <1>4, <2>1, <3>2 DEF RetractCommit, WalletInv
  <2>3. /\ credit' = credit + amount /\ Finish(p)
        /\ ledger' = [ledger EXCEPT !.credited = @ + amount, !.seats = @ + arg[p].n]
    BY <1>4, <2>1, <2>2 DEF RetractCommit, CreditAfter
  <2>4. ledger'.credited = ledger.credited + amount /\ ledger'.redeemed = ledger.redeemed
    BY <1>0, <2>3
  <2>5. credit' + ledger'.redeemed = ledger'.credited
    BY <1>0, <2>2, <2>3, <2>4 DEF WalletInv
  <2>. QED  BY <1>3, <2>3, <2>5
<1>5. ASSUME NEW p \in Spenders, RenewCommit(p) PROVE WalletInv'
  <2>0. p \in Procs /\ Finish(p) /\ seen[p].credit = credit
    BY <1>5 DEF Spenders, Procs, RenewCommit, WalletInv
  <2>1. CASE AlreadyRenewed(seen[p].term)
    <3>1. UNCHANGED <<credit, ledger>>
      BY <1>5, <2>1 DEF RenewCommit
    <3>. QED  BY <1>3, <2>0, <3>1 DEF WalletInv
  <2>2. CASE ~AlreadyRenewed(seen[p].term)
    <3>1. PICK amount : amount = Redeem(seen[p])
      OBVIOUS
    <3>2. amount \in Nat /\ amount <= credit
      <4>1. RenewSeats(seen[p]) \in Nat
        BY <2>0, HeldType, LicensingConstants DEF RenewSeats, Larger
      <4>2. RenewSeats(seen[p]) * SeatPrice \in Nat
        BY <4>1, LicensingConstants
      <4>. QED  BY <1>0, <2>0, <3>1, <4>2 DEF Redeem, Smaller
    <3>3. credit' = credit - amount /\ ledger' = [ledger EXCEPT !.redeemed = @ + amount]
      BY <1>5, <2>0, <2>2, <3>1 DEF RenewCommit
    <3>4. ledger'.credited = ledger.credited /\ ledger'.redeemed = ledger.redeemed + amount
      BY <1>0, <3>3
    <3>5. credit' + ledger'.redeemed = ledger'.credited
      BY <1>0, <3>2, <3>3, <3>4 DEF WalletInv
    <3>. QED  BY <1>3, <2>0, <3>5
  <2>. QED  BY <2>1, <2>2
<1>6. ASSUME NEW p \in Procs,
             \/ HrStep(p) /\ p \in HrProcs
             \/ FinanceStep(p) /\ p \in FinanceProcs
             \/ LoginStep(p) \/ PlatformStep(p) \/ Fail(p)
      PROVE  WalletInv'
  <2>1. CASE UNCHANGED <<credit, ledger>>
    BY <1>2, <1>6, <2>1
  <2>2. CASE RetractCommit(p) /\ p \in Spenders
    BY <1>4, <2>2
  <2>3. CASE RenewCommit(p) /\ p \in Spenders
    BY <1>5, <2>3
  <2>4. CASE PayLimit(p) \/ PaySub(p) \/ SetCommit(p)
    BY <2>1, <2>4 DEF PayLimit, PaySub, SetCommit
  <2>5. CASE HrStep(p) /\ p \in HrProcs
    <3>1. UNCHANGED <<limit, credit, terms, ledger>> \/ RetractCommit(p)
      BY <2>5 DEF HrStep, Invite, Reactivate, Retract, AssertLicense, InviteCommit,
                  ReactivateCommit, RetractCount, rows
    <3>. QED  BY <2>1, <2>2, <2>5, <3>1 DEF Spenders
  <2>6. CASE FinanceStep(p) /\ p \in FinanceProcs
    <3>1. UNCHANGED <<limit, credit, terms, ledger>> \/ PayLimit(p) \/ PaySub(p) \/ RenewCommit(p)
      BY <2>6 DEF FinanceStep, Pay, Buy, Reject, Renew, PayCheck, PayMark, RejectCommit,
                  RenewCount, rows
    <3>. QED  BY <2>1, <2>3, <2>4, <2>6, <3>1 DEF Spenders
  <2>7. CASE LoginStep(p) \/ PlatformStep(p) \/ Fail(p)
    BY <2>1, <2>7 DEF LoginStep, Login, LoginCommit, PlatformStep, SetLicences, Revive,
                      SetCount, SetCommit, ReviveCommit, Fail, rows
  <2>. QED  BY <1>6, <2>5, <2>6, <2>7
<1>7. CASE \E u \in Users : Exit(u) \/ Block(u)
  BY <1>1, <1>7 DEF Exit, Block
<1>8. CASE \E r \in Requests : RequestLicenses(r)
  BY <1>1, <1>8 DEF RequestLicenses
<1>9. CASE UNCHANGED vars
  BY <1>1, <1>9 DEF vars
<1>10. CASE \E p \in HrProcs : HrStep(p)
  <2>1. PICK p \in HrProcs : HrStep(p)
    BY <1>10
  <2>. QED  BY <1>6, <2>1 DEF Procs
<1>11. CASE \E p \in FinanceProcs : FinanceStep(p)
  BY <1>6, <1>11 DEF Procs
<1>12. CASE \E p \in LoginProcs : LoginStep(p)
  BY <1>6, <1>12 DEF Procs
<1>13. CASE \E p \in PlatformProcs : PlatformStep(p)
  BY <1>6, <1>13 DEF Procs
<1>14. CASE \E p \in Procs : Fail(p)
  BY <1>6, <1>14
<1>15. CASE Ended
  BY <1>1, <1>15, EndStep
<1>. QED  BY <1>7, <1>8, <1>9, <1>10, <1>11, <1>12, <1>13, <1>14, <1>15 DEF Next, Ended

LEMMA WalletInit == Init => WalletInv
<1>. SUFFICES ASSUME Init PROVE WalletInv
  OBVIOUS
<1>1. credit = 0 /\ ledger = [credited |-> 0, redeemed |-> 0, seats |-> 0]
  BY DEF Init
<1>2. \A p \in Spenders : pc[p] = "idle"
  BY DEF Init, Spenders, Procs
<1>. QED  BY <1>1, <1>2 DEF WalletInv

\* While one request at a time hands back seats, pays or renews, and whatever
\* else runs beside it, the balance of a company is the sum of its wallet ledger
\* (Licensing.WalletMatchesLedger).
THEOREM WalletBalances ==
  ASSUME OneSpender
  PROVE  Spec => []WalletMatchesLedger
<1>1. WalletInv => WalletMatchesLedger
  BY DEF WalletInv, WalletMatchesLedger
<1>2. Init => TypeInv /\ WalletInv
  BY TypeInit, WalletInit
<1>3. TypeInv /\ WalletInv /\ [Next]_vars => TypeInv' /\ WalletInv'
  BY TypeStep, WalletStep
<1>. QED  BY <1>1, <1>2, <1>3, PTL DEF Spec

-----------------------------------------------------------------------------
(* What the subscription sells, when no statement fails and the operator   *)
(* console sets no limit: it writes the tenant row and not the             *)
(* subscription, and so does a payment that stops between its two writes.  *)

OneHandler == OneSpender /\ PlatformProcs = {} /\ Failures = FALSE

\* A request holds the present limit and the subscription in force, unless that
\* has ended since; only a payment that has written the limit still owes the
\* subscription its seats.
SubInv ==
  /\ \A i, j \in ActiveTerms(terms) : i = j
  /\ \A p \in Spenders : pc[p] # "idle" => \A i \in ActiveTerms(terms) : i = seen[p].term
  /\ \A p \in Spenders : pc[p] \notin {"idle", "paySub"} => seen[p].limit = limit
  /\ \A p \in Spenders : pc[p] = "paySub" => limit = LimitAfter(seen[p], arg[p].n)
  /\ (\A p \in Spenders : pc[p] # "paySub")
       => \A i \in ActiveTerms(terms) : terms[i].seats = limit

\* A step that writes neither the limit nor the subscriptions is no part of a
\* payment's last two statements.
LEMMA QuietStep ==
  ASSUME TypeInv, NEW p \in Procs, HrStep(p) \/ LoginStep(p) \/ FinanceStep(p),
         ~RetractCommit(p), ~PayLimit(p), ~PaySub(p), ~RenewCommit(p)
  PROVE  /\ UNCHANGED <<limit, terms>>
         /\ pc[p] # "paySub" /\ pc'[p] # "paySub"
<1>1. UNCHANGED <<limit, terms>>
  <2>1. CASE HrStep(p)
    BY <2>1 DEF HrStep, Invite, Reactivate, Retract, AssertLicense, InviteCommit,
                ReactivateCommit, RetractCount, rows
  <2>2. CASE LoginStep(p)
    BY <2>2 DEF LoginStep, Login, LoginCommit, rows
  <2>3. CASE FinanceStep(p)
    BY <2>3 DEF FinanceStep, Pay, Buy, Reject, Renew, PayCheck, PayMark, RejectCommit,
                RenewCount, rows
  <2>. QED  BY <2>1, <2>2, <2>3
<1>2. pc[p] # "paySub"
  <2>1. CASE HrStep(p)
    BY <2>1 DEF HrStep, Invite, Reactivate, Retract, AssertLicense, InviteCommit,
                ReactivateCommit, RetractCount, Begin
  <2>2. CASE LoginStep(p)
    BY <2>2 DEF LoginStep, Login, LoginCommit, Begin
  <2>3. CASE FinanceStep(p)
    BY <2>3 DEF FinanceStep, Pay, Buy, Reject, Renew, PayCheck, PayMark, RejectCommit,
                RenewCount, Begin
  <2>. QED  BY <2>1, <2>2, <2>3
<1>3. pc \in [Procs -> Stage]
  BY DEF TypeInv, FlightOK
<1>4. pc'[p] # "paySub"
  <2>1. CASE HrStep(p)
    BY <1>3, <2>1 DEF HrStep, Invite, Reactivate, Retract, AssertLicense, InviteCommit,
                ReactivateCommit, RetractCount, Begin, Counted, Goto, Finish
  <2>2. CASE LoginStep(p)
    BY <1>3, <2>2 DEF LoginStep, Login, LoginCommit, Begin, Finish
  <2>3. CASE FinanceStep(p)
    BY <1>3, <2>3 DEF FinanceStep, Pay, Buy, Reject, Renew, PayCheck, PayMark, RejectCommit,
                RenewCount, Begin, Counted, Goto, Finish
  <2>. QED  BY <2>1, <2>2, <2>3
<1>. QED  BY <1>1, <1>2, <1>4

\* The four statements that write them, made by the only request there is.
LEMMA SubCommit ==
  ASSUME OneHandler, TypeInv, TypeInv', ChainInv, SubInv, NEW p \in Spenders,
         RetractCommit(p) \/ PayLimit(p) \/ PaySub(p) \/ RenewCommit(p)
  PROVE  SubInv'
<1>0. /\ terms \in Seq(Term) /\ Len(terms) \in Nat /\ DOMAIN terms = 1 .. Len(terms)
      /\ DOMAIN terms' = 1 .. Len(terms') /\ Len(terms') \in Nat
      /\ p \in Procs /\ \A q \in Spenders : q = p
      /\ arg[p].n \in Nat /\ seen[p].limit \in Nat /\ seen[p].term \in 0 .. Len(terms)
      /\ \A i \in ActiveTerms(terms) : i = seen[p].term
  <2>1. terms \in Seq(Term) /\ terms' \in Seq(Term)
    BY DEF TypeInv, RowsOK
  <2>2. p \in Procs /\ \A q \in Spenders : q = p
    BY DEF OneHandler, OneSpender, Spenders, Procs
  <2>3. arg[p].n \in Nat /\ seen[p].limit \in Nat
    BY <2>2, HeldType
  <2>4. pc[p] # "idle"
    BY DEF RetractCommit, PayLimit, PaySub, RenewCommit
  <2>5. seen[p].term \in 0 .. Len(terms)
    BY <2>2, <2>4 DEF ChainInv
  <2>. QED  BY <2>1, <2>2, <2>3, <2>4, <2>5 DEF SubInv
<1>1. ASSUME pc'[p] = "idle", \A i, j \in ActiveTerms(terms') : i = j,
             \A i \in ActiveTerms(terms') : terms'[i].seats = limit'
      PROVE  SubInv'
  <2>1. \A q \in Spenders : pc'[q] = "idle"
    BY <1>0, <1>1
  <2>. QED  BY <1>1, <2>1 DEF SubInv
<1>2. Finish(p) => pc'[p] = "idle"
  BY <1>0, ReadFacts
<1>3. ASSUME NEW n \in Nat, terms' = WithSeats(terms, seen[p].term, n), limit' = n, pc'[p] = "idle"
      PROVE  SubInv'
  <2>1. PICK us : us = WithSeats(terms, seen[p].term, n)
    OBVIOUS
  <2>2. /\ Len(us) = Len(terms)
        /\ seen[p].term # 0 => us[seen[p].term].seats = n
        /\ \A j \in 1 .. Len(terms) : us[j].active = terms[j].active
    BY <1>0, <2>1, SetSeats
  <2>3. terms' = us
    BY <1>3, <2>1
  <2>4. ASSUME NEW i \in ActiveTerms(terms') PROVE i = seen[p].term /\ terms'[i].seats = limit'
    <3>1. i \in 1 .. Len(us) /\ us[i].active
      BY <1>0, <2>3, <2>4 DEF ActiveTerms
    <3>2. i \in 1 .. Len(terms) /\ terms[i].active
      BY <2>2, <3>1
    <3>3. i \in ActiveTerms(terms)
      BY <1>0, <3>2 DEF ActiveTerms
    <3>4. i = seen[p].term /\ i # 0
      BY <1>0, <3>2, <3>3
    <3>. QED  BY <1>3, <2>2, <2>3, <3>4
  <2>. QED  BY <1>1, <1>3, <2>4
<1>4. ASSUME NEW n \in Nat, limit' = n, pc'[p] = "idle",
             seen[p].term # 0 => \A j \in 1 .. Len(terms) : terms[j].renewedFrom # seen[p].term,
             terms' = Append(Expire(terms, seen[p].term),
                             [seats |-> n, active |-> TRUE, renewedFrom |-> seen[p].term])
      PROVE  SubInv'
  <2>1. PICK t : t = [seats |-> n, active |-> TRUE, renewedFrom |-> seen[p].term]
    OBVIOUS
  <2>2. t \in Term /\ t.active /\ t.renewedFrom = seen[p].term /\ t.seats = n
    BY <1>0, <2>1 DEF Term
  <2>3. PICK us : us = Append(Expire(terms, seen[p].term), t)
    OBVIOUS
  <2>4. /\ Len(us) = Len(terms) + 1 /\ us[Len(us)] = t
        /\ \A j \in 1 .. Len(terms) : us[j].active <=> terms[j].active /\ j # seen[p].term
    <3>1. Chain(terms)
      BY DEF ChainInv
    <3>2. PICK old : old = seen[p].term
      OBVIOUS
    <3>3. /\ old \in 0 .. Len(terms) /\ t.renewedFrom = old
          /\ old # 0 => \A j \in 1 .. Len(terms) : terms[j].renewedFrom # old
      BY <1>0, <1>4, <2>2, <3>2
    <3>4. us = Append(Expire(terms, old), t) /\ terms \in Seq(Term) /\ t \in Term /\ t.active
      BY <1>0, <2>2, <2>3, <3>2
    <3>5. /\ Len(us) = Len(terms) + 1 /\ us[Len(us)] = t
          /\ \A j \in 1 .. Len(terms) : us[j].active <=> terms[j].active /\ j # old
      BY <3>1, <3>3, <3>4, RenewTerm
    <3>. QED  BY <3>2, <3>5
  <2>5. terms' = us
    BY <1>4, <2>1, <2>3
  <2>6. ASSUME NEW i \in ActiveTerms(terms') PROVE i = Len(us)
    <3>1. i \in 1 .. Len(us) /\ us[i].active
      BY <1>0, <2>5, <2>6 DEF ActiveTerms
    <3>2. CASE i \in 1 .. Len(terms)
      <4>1. i \in ActiveTerms(terms) /\ i # seen[p].term
        BY <1>0, <2>4, <3>1, <3>2 DEF ActiveTerms
      <4>. QED  BY <1>0, <4>1
    <3>. QED  BY <1>0, <2>4, <3>1, <3>2
  <2>7. \A i \in ActiveTerms(terms') : terms'[i].seats = limit'
    BY <1>4, <2>2, <2>4, <2>5, <2>6
  <2>. QED  BY <1>1, <1>4, <2>6, <2>7
<1>5. CASE RetractCommit(p)
  <2>1. arg[p].n <= seen[p].limit
    BY <1>0, <1>5 DEF RetractCommit, TypeInv, FlightOK
  <2>2. seen[p].limit - arg[p].n \in Nat
    BY <1>0, <2>1
  <2>. QED  BY <1>2, <1>3, <1>5, <2>2 DEF RetractCommit
<1>6. CASE PayLimit(p)
  <2>1. /\ pc'[p] = "paySub" /\ UNCHANGED <<terms, seen, arg>>
        /\ limit' = LimitAfter(seen[p], arg[p].n)
    BY <1>0, <1>6 DEF PayLimit, Goto, TypeInv, FlightOK
  <2>2. \A q \in Spenders : pc'[q] = "paySub"
    BY <1>0, <2>1
  <2>3. \A i, j \in ActiveTerms(terms') : i = j
    BY <2>1 DEF SubInv
  <2>4. \A q \in Spenders : /\ \A i \in ActiveTerms(terms') : i = seen'[q].term
                            /\ limit' = LimitAfter(seen'[q], arg'[q].n)
    BY <1>0, <2>1 DEF LimitAfter
  <2>5. p \in Spenders /\ pc'[p] = "paySub"
    BY <2>1
  <2>. QED  BY <2>2, <2>3, <2>4, <2>5 DEF SubInv, LimitAfter
<1>7. CASE PaySub(p)
  <2>1. limit = LimitAfter(seen[p], arg[p].n) /\ limit' = limit /\ limit \in Nat
    BY <1>7 DEF PaySub, SubInv, TypeInv, RowsOK
  <2>2. CASE seen[p].term # 0
    BY <1>2, <1>3, <1>7, <2>1, <2>2 DEF PaySub
  <2>3. CASE seen[p].term = 0
    <3>1. Expire(terms, 0) = terms
      BY DEF Expire
    <3>2. terms' = Append(terms, [seats |-> LimitAfter(seen[p], arg[p].n), active |-> TRUE, renewedFrom |-> 0])
      BY <1>7, <2>3 DEF PaySub
    <3>. QED  BY <1>2, <1>4, <1>7, <2>1, <2>3, <3>1, <3>2 DEF PaySub
  <2>. QED  BY <2>2, <2>3
<1>8. CASE RenewCommit(p)
  <2>1. CASE AlreadyRenewed(seen[p].term)
    <3>1. UNCHANGED <<limit, terms>> /\ \A q \in Spenders : pc[q] # "paySub"
      BY <1>0, <1>8, <2>1 DEF RenewCommit
    <3>2. \A i \in ActiveTerms(terms) : terms[i].seats = limit
      BY <3>1 DEF SubInv
    <3>. QED  BY <1>1, <1>2, <1>8, <3>1, <3>2 DEF RenewCommit, SubInv
  <2>2. CASE ~AlreadyRenewed(seen[p].term)
    <3>1. RenewSeats(seen[p]) \in Nat
      BY <1>0, HeldType, LicensingConstants DEF RenewSeats, Larger
    <3>2. /\ limit' = RenewSeats(seen[p]) /\ Finish(p)
          /\ terms' = Append(Expire(terms, seen[p].term),
                             [seats |-> RenewSeats(seen[p]), active |-> TRUE,
                              renewedFrom |-> seen[p].term])
      BY <1>8, <2>2 DEF RenewCommit
    <3>3. seen[p].term # 0 => \A j \in 1 .. Len(terms) : terms[j].renewedFrom # seen[p].term
      BY <2>2, NotYetRenewed
    <3>. QED  BY <1>2, <1>4, <3>1, <3>2, <3>3
  <2>. QED  BY <2>1, <2>2
<1>. QED  BY <1>5, <1>6, <1>7, <1>8

LEMMA SubStep ==
  ASSUME OneHandler, TypeInv, TypeInv', ChainInv, SubInv, [Next]_vars
  PROVE  SubInv'
<1>1. ASSUME UNCHANGED <<limit, terms, pc, arg, seen>> PROVE SubInv'
  BY <1>1 DEF SubInv, LimitAfter
<1>2. ASSUME NEW p \in Procs, HrStep(p) \/ LoginStep(p) \/ FinanceStep(p),
             ~RetractCommit(p), ~PayLimit(p), ~PaySub(p), ~RenewCommit(p)
      PROVE  SubInv'
  <2>1. UNCHANGED <<limit, terms>> /\ pc[p] # "paySub" /\ pc'[p] # "paySub"
    BY <1>2, QuietStep
  <2>2. \A q \in Procs : q # p => pc'[q] = pc[q] /\ arg'[q] = arg[q] /\ seen'[q] = seen[q]
    BY <1>2, FlightStep DEF Others
  <2>3. pc'[p] # "idle" => \/ seen'[p].limit = limit /\ seen'[p].term = Latest(terms)
                           \/ /\ pc[p] # "idle" /\ seen'[p].limit = seen[p].limit
                              /\ seen'[p].term = seen[p].term
    BY <1>2, FlightStep, ReadFacts
  <2>4. \A i \in ActiveTerms(terms) : i = Latest(terms)
    BY LatestTerm DEF TypeInv, RowsOK, SubInv
  <2>5. \A q \in Spenders : q \in Procs
    BY DEF Spenders, Procs
  <2>6. ASSUME NEW q \in Spenders
        PROVE  /\ pc'[q] # "idle" => \A i \in ActiveTerms(terms') : i = seen'[q].term
               /\ pc'[q] \notin {"idle", "paySub"} => seen'[q].limit = limit'
               /\ pc'[q] = "paySub" => limit' = LimitAfter(seen'[q], arg'[q].n)
    <3>1. CASE q # p
      BY <2>1, <2>2, <2>5, <3>1 DEF SubInv, LimitAfter
    <3>2. CASE q = p
      BY <2>1, <2>3, <2>4, <3>2 DEF SubInv
    <3>. QED  BY <3>1, <3>2
  <2>7. ASSUME \A q \in Spenders : pc'[q] # "paySub"
        PROVE  \A i \in ActiveTerms(terms') : terms'[i].seats = limit'
    <3>1. \A q \in Spenders : pc[q] # "paySub"
      BY <2>1, <2>2, <2>5, <2>7
    <3>. QED  BY <2>1, <3>1 DEF SubInv
  <2>8. \A i, j \in ActiveTerms(terms') : i = j
    BY <2>1 DEF SubInv
  <2>. QED  BY <2>6, <2>7, <2>8 DEF SubInv, LimitAfter
<1>3. ASSUME NEW p \in Spenders, HrStep(p) \/ FinanceStep(p) PROVE SubInv'
  <2>1. p \in Procs
    BY DEF Spenders, Procs
  <2>. QED  BY <1>2, <1>3, <2>1, SubCommit
<1>4. CASE \E p \in HrProcs : HrStep(p)
  BY <1>3, <1>4 DEF Spenders
<1>5. CASE \E p \in FinanceProcs : FinanceStep(p)
  BY <1>3, <1>5 DEF Spenders
<1>6. CASE \E p \in LoginProcs : LoginStep(p)
  <2>1. PICK p \in LoginProcs : LoginStep(p)
    BY <1>6
  <2>2. ~RetractCommit(p) /\ ~PayLimit(p) /\ ~PaySub(p) /\ ~RenewCommit(p)
    BY <2>1 DEF LoginStep, Login, LoginCommit, Begin, RetractCommit, PayLimit, PaySub, RenewCommit
  <2>. QED  BY <1>2, <2>1, <2>2 DEF Procs
<1>7. CASE \E u \in Users : Exit(u) \/ Block(u)
  BY <1>1, <1>7 DEF Exit, Block
<1>8. CASE \E r \in Requests : RequestLicenses(r)
  BY <1>1, <1>8 DEF RequestLicenses
<1>9. CASE UNCHANGED vars
  BY <1>1, <1>9 DEF vars
<1>10. ~(\E p \in PlatformProcs : PlatformStep(p)) /\ ~(\E p \in Procs : Fail(p))
  BY DEF OneHandler, Fail
<1>11. CASE Ended
  <2>1. /\ UNCHANGED <<limit, pc, arg, seen>> /\ Len(terms') = Len(terms) /\ terms' \in Seq(Term)
        /\ \A j \in 1 .. Len(terms) : /\ terms'[j].active => terms[j].active
                                      /\ terms'[j].seats = terms[j].seats
    BY <1>11, EndStep
  <2>2. \A i \in ActiveTerms(terms') : i \in ActiveTerms(terms) /\ terms'[i].seats = terms[i].seats
    BY <2>1 DEF ActiveTerms, TypeInv, RowsOK
  <2>. QED  BY <2>1, <2>2 DEF SubInv, LimitAfter
<1>. QED  BY <1>4, <1>5, <1>6, <1>7, <1>8, <1>9, <1>10, <1>11 DEF Next, Ended

LEMMA SubInit == Init => SubInv
<1>. SUFFICES ASSUME Init PROVE SubInv
  OBVIOUS
<1>1. terms = <<[seats |-> InitialLimit, active |-> TRUE, renewedFrom |-> 0]>> /\ limit = InitialLimit
  BY DEF Init
<1>2. ActiveTerms(terms) = {1} /\ terms[1].seats = limit
  BY <1>1 DEF ActiveTerms
<1>3. \A p \in Spenders : pc[p] = "idle"
  BY DEF Init, Spenders, Procs
<1>. QED  BY <1>2, <1>3 DEF SubInv

\* While requests that spend, buy or renew come one at a time and complete, and
\* whenever a subscription is cancelled or lapses, at most one is in force and it
\* sells as many seats as the tenant row grants
\* (Licensing.SubscriptionFollowsLimit).
THEOREM SubscriptionSells ==
  ASSUME OneHandler
  PROVE  Spec => []SubscriptionFollowsLimit
<1>1. SubInv => SubscriptionFollowsLimit
  <2>1. Spenders \subseteq Procs
    BY DEF Spenders, Procs
  <2>. QED  BY <2>1 DEF SubInv, SubscriptionFollowsLimit
<1>2. Init => TypeInv /\ ChainInv /\ SubInv
  BY TypeInit, ChainInit, SubInit
<1>3. TypeInv /\ ChainInv /\ SubInv /\ [Next]_vars => TypeInv' /\ ChainInv' /\ SubInv'
  BY TypeStep, ChainStep, SubStep
<1>. QED  BY <1>1, <1>2, <1>3, PTL DEF Spec

-----------------------------------------------------------------------------
(* Adding up seats.  SeatsOf is a fold over a set of requests in an order  *)
(* nobody knows; as in LeaveProofs, the order does not matter.  Each proof *)
(* looks at a smallest set for which it would fail.                        *)

LEMMA SeatsType == \A r \in Requests : Seats[r] \in Nat
BY LicensingConstants

LEMMA Least ==
  ASSUME NEW B \in SUBSET Nat, B # {}
  PROVE  \E m \in B : \A n \in B : m <= n
<1>1. PICK m \in B : \A n \in B : ~(<<n, m>> \in OpToRel(<, Nat))
  BY NatLessThanWellFounded, WFMin
<1>2. \A n \in B : n \in Nat /\ m \in Nat /\ ~(n < m)
  BY <1>1 DEF OpToRel
<1>. QED  BY <1>2

\* A set of requests has a size, and one more than what is left of it.
LEMMA RequestSets ==
  ASSUME NEW S \in SUBSET Requests
  PROVE  /\ IsFiniteSet(S) /\ Cardinality(S) \in Nat
         /\ \A T \in SUBSET S : Cardinality(T) <= Cardinality(S)
         /\ \A r \in S : Cardinality(S) = Cardinality(S \ {r}) + 1
<1>1. IsFiniteSet(S)
  BY LicensingConstants, FS_Subset
<1>2. Cardinality(S) \in Nat
  BY <1>1, FS_CardinalityType
<1>3. \A T \in SUBSET S : Cardinality(T) <= Cardinality(S)
  BY <1>1, FS_Subset
<1>4. ASSUME NEW r \in S PROVE Cardinality(S) = Cardinality(S \ {r}) + 1
  <2>1. Cardinality(S \ {r}) = Cardinality(S) - 1
    BY <1>1, FS_RemoveElement
  <2>. QED  BY <1>2, <2>1
<1>. QED  BY <1>1, <1>2, <1>3, <1>4

First(s) == CHOOSE x \in s : TRUE
Adds(S, g) ==
  g = [s \in SUBSET S |-> IF s = {} THEN 0 ELSE Seats[First(s)] + g[s \ {First(s)}]]

LEMMA SumChosen ==
  ASSUME NEW S
  PROVE  SeatsOf(S) = (CHOOSE g : Adds(S, g))[S]
BY DEF SeatsOf, MapThenSumSet, MapThenFoldSet, Adds, First

\* Two folds agree where both are defined.
LEMMA FoldsAgree ==
  ASSUME NEW S \in SUBSET Requests, NEW T \in SUBSET Requests, NEW g, NEW h,
         Adds(S, g), Adds(T, h)
  PROVE  \A s \in SUBSET (S \cap T) : g[s] = h[s]
<1>. DEFINE B == {n \in Nat : \E s \in SUBSET (S \cap T) : Cardinality(s) = n /\ g[s] # h[s]}
<1>1. SUFFICES B = {}
  BY RequestSets
<1>2. SUFFICES ASSUME B # {} PROVE FALSE
  OBVIOUS
<1>3. PICK n \in B : \A m \in B : n <= m
  BY <1>2, Least
<1>4. PICK s \in SUBSET (S \cap T) : Cardinality(s) = n /\ g[s] # h[s]
  OBVIOUS
<1>5. CASE s = {}
  BY <1>4, <1>5 DEF Adds
<1>6. CASE s # {}
  <2>1. First(s) \in s
    BY <1>6 DEF First
  <2>2. PICK t \in SUBSET (S \cap T) : t = s \ {First(s)}
    OBVIOUS
  <2>3. n \in Nat /\ Cardinality(t) \in Nat /\ n = Cardinality(t) + 1
    BY <1>4, <2>1, <2>2, RequestSets
  <2>4. Cardinality(t) \notin B
    BY <1>3, <2>3
  <2>5. g[t] = h[t]
    BY <2>3, <2>4
  <2>6. s \in SUBSET S /\ s \in SUBSET T
    OBVIOUS
  <2>7. g[s] = Seats[First(s)] + g[t]
    BY <1>6, <2>2, <2>6 DEF Adds
  <2>8. h[s] = Seats[First(s)] + h[t]
    BY <1>6, <2>2, <2>6 DEF Adds
  <2>. QED  BY <1>4, <2>5, <2>7, <2>8
<1>. QED  BY <1>5, <1>6

\* There is a fold over every set of requests, and SeatsOf is its last value.
LEMMA FoldExists ==
  ASSUME NEW S \in SUBSET Requests
  PROVE  \E g : Adds(S, g) /\ SeatsOf(S) = g[S]
<1>. DEFINE B == {n \in Nat : \E s \in SUBSET Requests : Cardinality(s) = n /\ ~ \E g : Adds(s, g)}
<1>0. \A s : (\E g : Adds(s, g)) => \E g : Adds(s, g) /\ SeatsOf(s) = g[s]
  <2>. TAKE s
  <2>1. HAVE \E g : Adds(s, g)
  <2>2. Adds(s, CHOOSE g : Adds(s, g))
    BY <2>1
  <2>. QED  BY <2>2, SumChosen
<1>1. SUFFICES B = {}
  BY <1>0, RequestSets
<1>2. SUFFICES ASSUME B # {} PROVE FALSE
  OBVIOUS
<1>3. PICK n \in B : \A m \in B : n <= m
  BY <1>2, Least
<1>4. PICK s \in SUBSET Requests : Cardinality(s) = n /\ ~ \E g : Adds(s, g)
  OBVIOUS
<1>5. ASSUME NEW t \in SUBSET s, t # s PROVE \E g : Adds(t, g) /\ SeatsOf(t) = g[t]
  <2>1. PICK r \in s : r \notin t
    BY <1>5
  <2>2. t \in SUBSET (s \ {r}) /\ s \ {r} \in SUBSET Requests /\ t \in SUBSET Requests
    BY <2>1
  <2>3. Cardinality(t) <= Cardinality(s \ {r}) /\ Cardinality(s) = Cardinality(s \ {r}) + 1
    BY <2>1, <2>2, RequestSets
  <2>4. Cardinality(t) \in Nat /\ Cardinality(s \ {r}) \in Nat
    BY <2>2, RequestSets
  <2>5. Cardinality(t) \notin B
    BY <1>3, <1>4, <2>3, <2>4
  <2>. QED  BY <1>0, <2>2, <2>4, <2>5
<1>6. PICK h : h = [t \in SUBSET s |-> IF t = {} THEN 0 ELSE Seats[First(t)] + SeatsOf(t \ {First(t)})]
  OBVIOUS
<1>7. ASSUME NEW t \in SUBSET s, t # s PROVE h[t] = SeatsOf(t)
  <2>1. PICK g : Adds(t, g) /\ SeatsOf(t) = g[t]
    BY <1>5, <1>7
  <2>2. CASE t = {}
    BY <1>6, <2>1, <2>2 DEF Adds
  <2>3. CASE t # {}
    <3>1. First(t) \in t
      BY <2>3 DEF First
    <3>2. PICK u \in SUBSET t : u = t \ {First(t)}
      OBVIOUS
    <3>3. u \in SUBSET s /\ u # s
      BY <3>1, <3>2
    <3>4. PICK f : Adds(u, f) /\ SeatsOf(u) = f[u]
      BY <1>5, <3>3
    <3>5. f[u] = g[u]
      <4>1. t \in SUBSET Requests /\ u \in SUBSET Requests /\ u \in SUBSET (u \cap t)
        BY <3>2
      <4>. QED  BY <2>1, <3>4, <4>1, FoldsAgree
    <3>6. g[t] = Seats[First(t)] + g[u]
      BY <2>1, <2>3, <3>2 DEF Adds
    <3>7. h[t] = Seats[First(t)] + SeatsOf(u)
      BY <1>6, <2>3, <3>2
    <3>. QED  BY <2>1, <3>4, <3>5, <3>6, <3>7
  <2>. QED  BY <2>2, <2>3
<1>8. Adds(s, h)
  <2>1. ASSUME NEW t \in SUBSET s
        PROVE  (IF t = {} THEN 0 ELSE Seats[First(t)] + SeatsOf(t \ {First(t)}))
                 = (IF t = {} THEN 0 ELSE Seats[First(t)] + h[t \ {First(t)}])
    <3>1. CASE t = {}
      BY <3>1
    <3>2. CASE t # {}
      <4>1. First(t) \in t
        BY <3>2 DEF First
      <4>2. PICK u \in SUBSET s : u = t \ {First(t)}
        OBVIOUS
      <4>3. h[u] = SeatsOf(u)
        BY <1>7, <4>1, <4>2
      <4>. QED  BY <3>2, <4>2, <4>3
    <3>. QED  BY <3>1, <3>2
  <2>. QED  BY <1>6, <2>1 DEF Adds
<1>. QED  BY <1>4, <1>8

\* No requests ask for no seats, and a sum starts with some element of the set.
LEMMA SumFirst ==
  /\ SeatsOf({}) = 0
  /\ \A S \in SUBSET Requests :
       S # {} => First(S) \in S /\ SeatsOf(S) = Seats[First(S)] + SeatsOf(S \ {First(S)})
<1>1. SeatsOf({}) = 0
  <2>1. PICK g : Adds({}, g) /\ SeatsOf({}) = g[{}]
    BY FoldExists
  <2>. QED  BY <2>1 DEF Adds
<1>2. ASSUME NEW S \in SUBSET Requests, S # {}
      PROVE  First(S) \in S /\ SeatsOf(S) = Seats[First(S)] + SeatsOf(S \ {First(S)})
  <2>1. First(S) \in S
    BY <1>2 DEF First
  <2>2. PICK t \in SUBSET S : t = S \ {First(S)}
    OBVIOUS
  <2>3. PICK g : Adds(S, g) /\ SeatsOf(S) = g[S]
    BY FoldExists
  <2>4. PICK h : Adds(t, h) /\ SeatsOf(t) = h[t]
    BY FoldExists
  <2>5. t \in SUBSET Requests /\ t \in SUBSET (S \cap t)
    OBVIOUS
  <2>6. g[t] = h[t]
    BY <2>3, <2>4, <2>5, FoldsAgree
  <2>7. g[S] = Seats[First(S)] + g[t]
    BY <1>2, <2>2, <2>3 DEF Adds
  <2>. QED  BY <2>1, <2>2, <2>3, <2>4, <2>6, <2>7
<1>. QED  BY <1>1, <1>2

\* A sum is an integer.
LEMMA SumType ==
  ASSUME NEW S \in SUBSET Requests
  PROVE  SeatsOf(S) \in Int
<1>. DEFINE B == {n \in Nat : \E s \in SUBSET Requests : Cardinality(s) = n /\ SeatsOf(s) \notin Int}
<1>1. SUFFICES B = {}
  BY RequestSets
<1>2. SUFFICES ASSUME B # {} PROVE FALSE
  OBVIOUS
<1>3. PICK n \in B : \A m \in B : n <= m
  BY <1>2, Least
<1>4. PICK s \in SUBSET Requests : Cardinality(s) = n /\ SeatsOf(s) \notin Int
  OBVIOUS
<1>5. s # {}
  BY <1>4, SumFirst
<1>6. PICK t \in SUBSET s : t = s \ {First(s)}
  OBVIOUS
<1>7. First(s) \in s /\ SeatsOf(s) = Seats[First(s)] + SeatsOf(t)
  BY <1>5, <1>6, SumFirst
<1>8. n \in Nat /\ Cardinality(t) \in Nat /\ n = Cardinality(t) + 1
  BY <1>4, <1>6, <1>7, RequestSets
<1>9. SeatsOf(t) \in Int
  <2>1. Cardinality(t) \notin B
    BY <1>3, <1>8
  <2>. QED  BY <1>8, <2>1
<1>10. Seats[First(s)] \in Int
  BY <1>7, SeatsType
<1>. QED  BY <1>4, <1>7, <1>9, <1>10

\* A sum is the seats of any one request and the sum of the others.
LEMMA SumOf ==
  ASSUME NEW S \in SUBSET Requests, NEW r \in S
  PROVE  SeatsOf(S) = Seats[r] + SeatsOf(S \ {r})
<1>. DEFINE Wrong(s) == \E x \in s : SeatsOf(s) # Seats[x] + SeatsOf(s \ {x})
            B == {n \in Nat : \E s \in SUBSET Requests : Cardinality(s) = n /\ Wrong(s)}
<1>1. ASSUME B = {} PROVE SeatsOf(S) = Seats[r] + SeatsOf(S \ {r})
  <2>1. ~Wrong(S)
    BY <1>1, RequestSets
  <2>. QED  BY <2>1
<1>2. SUFFICES ASSUME B # {} PROVE FALSE
  BY <1>1
<1>3. PICK n \in B : \A m \in B : n <= m
  BY <1>2, Least
<1>4. PICK s \in SUBSET Requests : Cardinality(s) = n /\ Wrong(s)
  OBVIOUS
<1>5. PICK x \in s : SeatsOf(s) # Seats[x] + SeatsOf(s \ {x})
  BY <1>4
<1>6. PICK y : y = First(s)
  OBVIOUS
<1>7. y \in s /\ SeatsOf(s) = Seats[y] + SeatsOf(s \ {y})
  BY <1>6, SumFirst
<1>8. x # y
  BY <1>5, <1>7
<1>9. PICK t \in SUBSET s : t = s \ {y}
  OBVIOUS
<1>10. PICK u \in SUBSET s : u = s \ {x}
  OBVIOUS
<1>11. t \ {x} = u \ {y} /\ x \in t /\ y \in u
  BY <1>7, <1>8, <1>9, <1>10
<1>12. ASSUME NEW v \in SUBSET s, Cardinality(s) = Cardinality(v) + 1 PROVE ~Wrong(v)
  <2>1. v \in SUBSET Requests /\ Cardinality(v) \in Nat /\ n = Cardinality(v) + 1 /\ n \in Nat
    BY <1>4, <1>12, RequestSets
  <2>2. Cardinality(v) \notin B
    BY <1>3, <2>1
  <2>. QED  BY <2>1, <2>2
<1>13. ~Wrong(t) /\ ~Wrong(u)
  <2>1. Cardinality(s) = Cardinality(t) + 1 /\ Cardinality(s) = Cardinality(u) + 1
    BY <1>7, <1>9, <1>10, RequestSets
  <2>. QED  BY <1>12, <2>1
<1>14. SeatsOf(t) = Seats[x] + SeatsOf(t \ {x}) /\ SeatsOf(u) = Seats[y] + SeatsOf(t \ {x})
  BY <1>11, <1>13
<1>15. Seats[x] \in Int /\ Seats[y] \in Int /\ SeatsOf(t \ {x}) \in Int
  BY <1>7, SeatsType, SumType
<1>. QED  BY <1>5, <1>7, <1>9, <1>10, <1>14, <1>15

\* Taking one request out of a set, or into one, moves the sum by its seats.
LEMMA SumMoves ==
  ASSUME NEW S \in SUBSET Requests, NEW r \in Requests
  PROVE  /\ r \in S => SeatsOf(S \ {r}) = SeatsOf(S) - Seats[r]
         /\ r \notin S => SeatsOf(S \cup {r}) = SeatsOf(S) + Seats[r]
<1>1. Seats[r] \in Int /\ SeatsOf(S) \in Int /\ SeatsOf(S \ {r}) \in Int
  BY SeatsType, SumType
<1>2. r \in S => SeatsOf(S) = Seats[r] + SeatsOf(S \ {r})
  BY SumOf
<1>3. ASSUME r \notin S PROVE SeatsOf(S \cup {r}) = Seats[r] + SeatsOf(S)
  <2>1. S \cup {r} \in SUBSET Requests /\ r \in S \cup {r} /\ (S \cup {r}) \ {r} = S
    BY <1>3
  <2>. QED  BY <2>1, SumOf
<1>. QED  BY <1>1, <1>2, <1>3

-----------------------------------------------------------------------------
(* Where the seats of the limit come from, one request at a time.          *)

Orderly == OneHandler /\ Lanes
Paid == {r \in Requests : request[r] = "PAID"}

\* A payment holds the seats of its request; until it has written the limit, its
\* request is PAID and its seats are not there.  A rejection does not reject a
\* PAID request, and a renewal counted no more seats than were bought.
PayInv(p) ==
  /\ pc[p] \in {"payCheck", "payMark", "payLimit"} => arg[p].n = Seats[arg[p].r]
  /\ pc[p] \in {"payCheck", "payMark", "payLimit", "rejectWrite"} => arg[p].r \in Requests
  /\ pc[p] \in {"payMark", "rejectWrite"} => request[arg[p].r] # "PAID"
  /\ pc[p] = "renewWrite" => seen[p].used <= limit
  /\ pc[p] = "payLimit" => limit + arg[p].n + ledger.seats = InitialLimit + SeatsOf(Paid)

\* The signed-in account keeps its seat, so the limit is never 0.
CapInv ==
  /\ Admin \in Consumers
  /\ \A p \in Spenders : PayInv(p)
  /\ (\A p \in Spenders : pc[p] # "payLimit") => limit + ledger.seats = InitialLimit + SeatsOf(Paid)

\* Nothing takes the seat of the account that is signed in.
LEMMA AdminStays ==
  ASSUME TypeInv, Admin \in Consumers, [Next]_vars
  PROVE  (Admin \in Consumers)'
<1>0. /\ Admin \in Users /\ ~deleted[Admin] /\ status[Admin] \in {"INVITED", "ACTIVE"}
      /\ status \in [Users -> UserStatus] /\ deleted \in [Users -> BOOLEAN]
  BY DEF Consumers, TypeInv, RowsOK
<1>1. SUFFICES ~deleted'[Admin] /\ status'[Admin] \in {"INVITED", "ACTIVE"}
  BY <1>0 DEF Consumers
<1>2. CASE UNCHANGED <<status, deleted>>
  BY <1>0, <1>2
<1>3. ASSUME NEW p, InviteCommit(p) \/ ReactivateCommit(p) \/ LoginCommit(p) \/ ReviveCommit(p)
      PROVE  ~deleted'[Admin] /\ status'[Admin] \in {"INVITED", "ACTIVE"}
  BY <1>0, <1>3 DEF InviteCommit, ReactivateCommit, LoginCommit, ReviveCommit
<1>4. CASE \E u \in Users : Exit(u) \/ Block(u)
  BY <1>0, <1>4 DEF Exit, Block
<1>5. ASSUME NEW p, HrStep(p) PROVE ~deleted'[Admin] /\ status'[Admin] \in {"INVITED", "ACTIVE"}
  BY <1>2, <1>3, <1>5 DEF HrStep, Invite, Reactivate, Retract, AssertLicense, RetractCount, RetractCommit, rows
<1>6. ASSUME NEW p, LoginStep(p) PROVE ~deleted'[Admin] /\ status'[Admin] \in {"INVITED", "ACTIVE"}
  BY <1>2, <1>3, <1>6 DEF LoginStep, Login, rows
<1>7. ASSUME NEW p, FinanceStep(p) PROVE UNCHANGED <<status, deleted>>
  BY <1>7 DEF FinanceStep, Pay, Buy, PayCheck, PayMark, PayLimit, PaySub, Reject, RejectCommit,
              Renew, RenewCount, RenewCommit, rows
<1>8. ASSUME NEW p, PlatformStep(p) PROVE ~deleted'[Admin] /\ status'[Admin] \in {"INVITED", "ACTIVE"}
  BY <1>2, <1>3, <1>8 DEF PlatformStep, SetLicences, Revive, SetCount, SetCommit, rows
<1>9. CASE \/ \E p \in Procs : Fail(p)
           \/ \E r \in Requests : RequestLicenses(r)
           \/ UNCHANGED vars
  BY <1>2, <1>9 DEF Fail, RequestLicenses, rows, vars
<1>10. CASE Ended
  BY <1>2, <1>10, EndStep
<1>. QED  BY <1>2, <1>4, <1>5, <1>6, <1>7, <1>8, <1>9, <1>10 DEF Next, Ended

\* There is one request, and it holds the present limit.
LEMMA OneRequest ==
  ASSUME Orderly, TypeInv, SubInv, NEW p \in Procs
  PROVE  /\ p \in Spenders /\ \A q \in Spenders : q = p
         /\ pc[p] \notin {"idle", "paySub"} => seen[p].limit = limit
<1>1. p \in Spenders
  BY DEF Orderly, OneHandler, Lanes, Procs, Spenders
<1>. QED  BY <1>1 DEF Orderly, OneHandler, OneSpender, Spenders, SubInv

\* A step of the request that leaves the balance as it is.
LEMMA CapKept ==
  ASSUME Orderly, TypeInv, SubInv, CapInv, NEW p \in Procs, (Admin \in Consumers)',
         pc[p] # "payLimit", pc'[p] # "payLimit", PayInv(p)', Paid' = Paid,
         limit' + ledger'.seats = limit + ledger.seats
  PROVE  CapInv'
<1>1. \A q \in Spenders : q = p
  BY OneRequest
<1>2. limit' + ledger'.seats = InitialLimit + SeatsOf(Paid)
  BY <1>1 DEF CapInv
<1>. QED  BY <1>1, <1>2 DEF CapInv

\* A request that begins.
LEMMA CapBegin ==
  ASSUME Orderly, TypeInv, SubInv, CapInv, NEW p \in Procs, (Admin \in Consumers)', UNCHANGED rows,
         NEW stage, NEW a, Begin(p, stage, a), stage \notin {"payLimit", "renewWrite"},
         stage \in {"payCheck", "payMark", "rejectWrite"} => a.r \in Requests,
         stage \in {"payCheck", "payMark"} => a.n = Seats[a.r],
         stage \in {"payMark", "rejectWrite"} => request[a.r] # "PAID"
  PROVE  CapInv'
<1>1. pc'[p] = stage /\ arg'[p] = a
  BY HelpersKeepOthers
<1>2. pc[p] = "idle"
  BY DEF Begin
<1>3. UNCHANGED <<request, limit, ledger>> /\ Paid' = Paid
  BY DEF rows, Paid
<1>4. PayInv(p)'
  BY <1>1, <1>3 DEF PayInv
<1>. QED  BY <1>1, <1>2, <1>3, <1>4, CapKept

\* A request that ends, or goes on where nothing is asked of it.
LEMMA CapEnd ==
  ASSUME Orderly, TypeInv, SubInv, CapInv, NEW p \in Procs, (Admin \in Consumers)',
         pc[p] # "payLimit",
         pc'[p] \notin {"payCheck", "payMark", "payLimit", "rejectWrite", "renewWrite"},
         Paid' = Paid, limit' + ledger'.seats = limit + ledger.seats
  PROVE  CapInv'
<1>1. PayInv(p)'
  BY DEF PayInv
<1>. QED  BY <1>1, CapKept

LEMMA CapHr ==
  ASSUME Orderly, TypeInv, SubInv, CapInv, NEW p \in Procs, (Admin \in Consumers)',
         HrStep(p) \/ LoginStep(p)
  PROVE  CapInv'
<1>0. /\ limit \in Nat /\ ledger \in [credited : Nat, redeemed : Nat, seats : Nat]
      /\ arg[p].n \in Nat /\ ledger.seats \in Nat
  BY HeldType DEF TypeInv, RowsOK
<1>1. CASE \/ \E us \in SUBSET Users : Invite(p, us)
           \/ \E u \in Users : Reactivate(p, u) \/ Login(p, u)
           \/ \E n \in 1..MaxRetracted : Retract(p, n)
  <2>1. UNCHANGED rows /\ \E stage \in {"inviteCount", "reactivateCount", "retractCount", "loginWrite"} :
          \E a : Begin(p, stage, a)
    BY <1>1 DEF Invite, Reactivate, Login, Retract
  <2>. QED  BY <2>1, CapBegin
<1>2. CASE AssertLicense(p) \/ RetractCount(p)
  <2>1. pc[p] # "payLimit" /\ Paid' = Paid /\ UNCHANGED <<limit, ledger>>
    BY <1>2 DEF AssertLicense, RetractCount, rows, Paid
  <2>2. pc'[p] \in {"inviteWrite", "reactivateWrite", "retractWrite", "idle"}
    <3>1. Finish(p) \/ \E stage \in {"inviteWrite", "reactivateWrite", "retractWrite"} : Counted(p, stage)
      BY <1>2 DEF AssertLicense, RetractCount
    <3>. QED  BY <3>1, HelpersKeepOthers
  <2>. QED  BY <2>1, <2>2, CapEnd
<1>3. CASE InviteCommit(p) \/ ReactivateCommit(p) \/ LoginCommit(p)
  <2>1. pc[p] # "payLimit" /\ Paid' = Paid /\ UNCHANGED <<limit, ledger>> /\ Finish(p)
    BY <1>3 DEF InviteCommit, ReactivateCommit, LoginCommit, Paid
  <2>. QED  BY <2>1, CapEnd, HelpersKeepOthers
<1>4. CASE RetractCommit(p)
  <2>1. /\ pc[p] = "retractWrite" /\ Paid' = Paid /\ Finish(p) /\ limit' = seen[p].limit - arg[p].n
        /\ seen[p].limit = limit
    BY <1>4, OneRequest DEF RetractCommit, Paid
  <2>2. ledger'.seats = ledger.seats + arg[p].n
    BY <1>0, <1>4 DEF RetractCommit
  <2>3. limit' + ledger'.seats = limit + ledger.seats
    BY <1>0, <2>1, <2>2
  <2>. QED  BY <2>1, <2>3, CapEnd, HelpersKeepOthers
<1>. QED  BY <1>1, <1>2, <1>3, <1>4 DEF HrStep, LoginStep

\* A request that is paid for counts from then on; nothing else is counted.
LEMMA PaidMoves ==
  ASSUME TypeInv, NEW r \in Requests, request[r] # "PAID", NEW s \in RequestStatus,
         request' = [request EXCEPT ![r] = s]
  PROVE  /\ s # "PAID" => Paid' = Paid
         /\ s = "PAID" => SeatsOf(Paid') = SeatsOf(Paid) + Seats[r]
         /\ SeatsOf(Paid) \in Int /\ Seats[r] \in Nat
<1>1. /\ request'[r] = s /\ \A q \in Requests \ {r} : request'[q] = request[q]
      /\ r \notin Paid /\ Paid \in SUBSET Requests
  BY DEF TypeInv, RowsOK, Paid
<1>2. s # "PAID" => Paid' = Paid
  BY <1>1 DEF Paid
<1>3. s = "PAID" => Paid' = Paid \cup {r}
  BY <1>1 DEF Paid
<1>4. SeatsOf(Paid) \in Int /\ SeatsOf(Paid \cup {r}) = SeatsOf(Paid) + Seats[r]
  BY <1>1, SumType, SumMoves
<1>. QED  BY <1>2, <1>3, <1>4, SeatsType

LEMMA CapFinance ==
  ASSUME Orderly, TypeInv, LaneInv, SubInv, CapInv, NEW p \in Procs, (Admin \in Consumers)',
         FinanceStep(p)
  PROVE  CapInv'
<1>0. /\ limit \in Nat /\ ledger \in [credited : Nat, redeemed : Nat, seats : Nat]
      /\ arg[p].n \in Nat /\ ledger.seats \in Nat /\ seen[p].used \in Nat /\ InitialLimit \in Nat
  BY HeldType, LicensingConstants DEF TypeInv, RowsOK
<1>a. /\ p \in Spenders /\ \A q \in Spenders : q = p
      /\ pc[p] \notin {"idle", "paySub"} => seen[p].limit = limit
  BY OneRequest
<1>b. PayInv(p)
  BY <1>a DEF CapInv
<1>c. pc[p] # "payLimit" => limit + ledger.seats = InitialLimit + SeatsOf(Paid)
  BY <1>a DEF CapInv
<1>1. CASE \E r \in Requests : Pay(p, r)
  <2>1. PICK r \in Requests : Pay(p, r)
    BY <1>1
  <2>2. PICK a : a = [NoArg EXCEPT !.n = Seats[r], !.r = r]
    OBVIOUS
  <2>3. a.r = r /\ a.n = Seats[r]
    BY <2>2 DEF NoArg
  <2>4. Begin(p, "payCheck", a) /\ UNCHANGED rows
    BY <2>1, <2>2 DEF Pay
  <2>. QED  BY <2>3, <2>4, CapBegin
<1>2. CASE \E r \in Requests : Buy(p, r)
  <2>1. PICK r \in Requests : Buy(p, r)
    BY <1>2
  <2>2. PICK a : a = [NoArg EXCEPT !.n = Seats[r], !.r = r]
    OBVIOUS
  <2>3. a.r = r /\ a.n = Seats[r] /\ request[r] # "PAID"
    BY <2>1, <2>2 DEF NoArg, Buy, Fresh
  <2>4. Begin(p, "payMark", a) /\ UNCHANGED rows
    BY <2>1, <2>2 DEF Buy
  <2>. QED  BY <2>3, <2>4, CapBegin
<1>3. CASE \E r \in Requests : Reject(p, r)
  <2>1. PICK r \in Requests : Reject(p, r)
    BY <1>3
  <2>2. PICK a : a = [NoArg EXCEPT !.r = r]
    OBVIOUS
  <2>3. a.r = r /\ request[r] # "PAID"
    BY <2>1, <2>2 DEF NoArg, Reject
  <2>4. Begin(p, "rejectWrite", a) /\ UNCHANGED rows
    BY <2>1, <2>2 DEF Reject
  <2>. QED  BY <2>3, <2>4, CapBegin
<1>4. CASE Renew(p)
  <2>1. Begin(p, "renewCount", NoArg) /\ UNCHANGED rows
    BY <1>4 DEF Renew
  <2>. QED  BY <2>1, CapBegin
<1>5. CASE PayCheck(p)
  <2>1. pc[p] = "payCheck" /\ Paid' = Paid /\ UNCHANGED <<limit, ledger, request>>
    BY <1>5 DEF PayCheck, rows, Paid
  <2>2. CASE request[arg[p].r] = "PAID"
    <3>1. pc'[p] = "idle"
      BY <1>5, <2>2, HelpersKeepOthers DEF PayCheck
    <3>. QED  BY <2>1, <3>1, CapEnd
  <2>3. CASE request[arg[p].r] # "PAID"
    <3>1. pc'[p] = "payMark" /\ arg'[p] = arg[p]
      BY <1>5, <2>3, HelpersKeepOthers DEF PayCheck
    <3>2. PayInv(p)'
      BY <1>b, <2>1, <2>3, <3>1 DEF PayInv
    <3>. QED  BY <2>1, <3>1, <3>2, CapKept
  <2>. QED  BY <2>2, <2>3
<1>6. CASE PayMark(p)
  <2>1. pc[p] = "payMark" /\ UNCHANGED <<limit, ledger>> /\ request' = [request EXCEPT ![arg[p].r] = "PAID"]
    BY <1>6 DEF PayMark
  <2>2. PICK r \in Requests : r = arg[p].r /\ request[r] # "PAID" /\ arg[p].n = Seats[r]
    BY <1>b, <2>1 DEF PayInv
  <2>3. pc'[p] = "payLimit" /\ arg'[p] = arg[p]
    BY <1>6, HelpersKeepOthers DEF PayMark
  <2>4. SeatsOf(Paid') = SeatsOf(Paid) + Seats[r] /\ SeatsOf(Paid) \in Int /\ Seats[r] \in Nat
    BY <2>1, <2>2, PaidMoves DEF RequestStatus
  <2>5. limit' + arg'[p].n + ledger'.seats = InitialLimit + SeatsOf(Paid')
    BY <1>0, <1>c, <2>1, <2>2, <2>3, <2>4
  <2>6. PayInv(p)'
    BY <2>2, <2>3, <2>5 DEF PayInv
  <2>. QED  BY <1>a, <2>3, <2>6 DEF CapInv
<1>7. CASE PayLimit(p)
  <2>1. pc[p] = "payLimit" /\ Paid' = Paid /\ ledger' = ledger /\ limit' = limit + arg[p].n
    BY <1>7, <1>a DEF PayLimit, Paid, LimitAfter
  <2>2. pc'[p] = "paySub"
    BY <1>7, HelpersKeepOthers DEF PayLimit
  <2>3. limit' + ledger'.seats = InitialLimit + SeatsOf(Paid')
    BY <1>0, <1>b, <2>1 DEF PayInv
  <2>4. PayInv(p)'
    BY <2>2 DEF PayInv
  <2>. QED  BY <1>a, <2>3, <2>4 DEF CapInv
<1>8. CASE PaySub(p)
  <2>1. pc[p] # "payLimit" /\ Paid' = Paid /\ UNCHANGED <<limit, ledger>> /\ Finish(p)
    BY <1>8 DEF PaySub, Paid
  <2>. QED  BY <2>1, CapEnd, HelpersKeepOthers
<1>9. CASE RejectCommit(p)
  <2>1. /\ pc[p] = "rejectWrite" /\ UNCHANGED <<limit, ledger>> /\ Finish(p)
        /\ request' = [request EXCEPT ![arg[p].r] = "REJECTED"]
    BY <1>9 DEF RejectCommit
  <2>2. PICK r \in Requests : r = arg[p].r /\ request[r] # "PAID"
    BY <1>b, <2>1 DEF PayInv
  <2>3. Paid' = Paid
    BY <2>1, <2>2, PaidMoves DEF RequestStatus
  <2>. QED  BY <2>1, <2>3, CapEnd, HelpersKeepOthers
<1>10. CASE RenewCount(p)
  <2>1. pc[p] = "renewCount" /\ Paid' = Paid /\ UNCHANGED <<limit, ledger>> /\ Counted(p, "renewWrite")
    BY <1>10 DEF RenewCount, rows, Paid
  <2>2. pc'[p] = "renewWrite" /\ seen'[p].used = Used
    BY <2>1, HelpersKeepOthers DEF Counted, Goto, TypeInv, FlightOK, Seen
  <2>3. Used <= limit
    BY DEF LaneInv, SeatsWithinLimit
  <2>4. PayInv(p)'
    BY <2>1, <2>2, <2>3 DEF PayInv
  <2>. QED  BY <2>1, <2>2, <2>4, CapKept
<1>11. CASE RenewCommit(p)
  <2>1. pc[p] = "renewWrite" /\ Paid' = Paid /\ Finish(p)
    BY <1>11 DEF RenewCommit, Paid
  <2>2. limit # 0
    <3>1. {Admin} \in SUBSET Consumers /\ Consumers \in SUBSET Users
      BY DEF CapInv, Consumers
    <3>2. Cardinality({Admin}) <= Used /\ Cardinality({Admin}) = 1
      BY <3>1, SubsetSmaller, FS_Singleton DEF Used
    <3>. QED  BY <3>2, <1>0, ConsumersFinite DEF LaneInv, SeatsWithinLimit
  <2>3. RenewSeats(seen[p]) = limit
    BY <1>0, <1>a, <1>b, <2>1, <2>2 DEF RenewSeats, Larger, PayInv
  <2>4. limit' = limit /\ ledger'.seats = ledger.seats
    BY <1>0, <1>11, <2>3 DEF RenewCommit
  <2>. QED  BY <2>1, <2>4, CapEnd, HelpersKeepOthers
<1>. QED  BY <1>1, <1>2, <1>3, <1>4, <1>5, <1>6, <1>7, <1>8, <1>9, <1>10, <1>11 DEF FinanceStep

LEMMA CapStep ==
  ASSUME Orderly, TypeInv, LaneInv, SubInv, CapInv, [Next]_vars
  PROVE  CapInv'
<1>0. (Admin \in Consumers)'
  BY AdminStays DEF CapInv
<1>1. ASSUME Paid' = Paid, UNCHANGED <<limit, ledger, pc, arg, seen>>,
             \A r \in Requests : request[r] # "PAID" => request'[r] # "PAID"
      PROVE  CapInv'
  BY <1>0, <1>1 DEF CapInv, PayInv
<1>2. CASE \E u \in Users : Exit(u) \/ Block(u)
  BY <1>1, <1>2 DEF Exit, Block, Paid
<1>3. CASE \E r \in Requests : RequestLicenses(r)
  <2>1. PICK r \in Requests : RequestLicenses(r)
    BY <1>3
  <2>2. request[r] = "NONE" /\ request' = [request EXCEPT ![r] = "PENDING_FINANCE_APPROVAL"]
    BY <2>1 DEF RequestLicenses, Fresh
  <2>3. Paid' = Paid
    BY <2>2, PaidMoves DEF RequestStatus
  <2>4. \A q \in Requests : request[q] # "PAID" => request'[q] # "PAID"
    BY <2>3 DEF Paid
  <2>. QED  BY <1>1, <2>1, <2>3, <2>4 DEF RequestLicenses
<1>4. CASE UNCHANGED vars
  BY <1>1, <1>4 DEF vars, Paid
<1>5. ASSUME NEW p \in Procs, HrStep(p) \/ LoginStep(p) \/ FinanceStep(p) PROVE CapInv'
  BY <1>0, <1>5, CapHr, CapFinance
<1>6. ~(\E p \in PlatformProcs : PlatformStep(p)) /\ ~(\E p \in Procs : Fail(p))
  BY DEF Orderly, OneHandler, Fail
<1>7. CASE Ended
  BY <1>1, <1>7, EndStep DEF Paid
<1>. QED  BY <1>2, <1>3, <1>4, <1>5, <1>6, <1>7 DEF Next, Procs, Ended

LEMMA CapInit == Init => CapInv
<1>. SUFFICES ASSUME Init PROVE CapInv
  OBVIOUS
<1>1. Admin \in Consumers
  BY LicensingConstants DEF Init, Consumers
<1>2. \A p \in Spenders : pc[p] = "idle"
  BY DEF Init, Spenders, Procs
<1>3. Paid = {} /\ limit = InitialLimit /\ ledger.seats = 0
  BY DEF Init, Paid
<1>. QED  BY <1>1, <1>2, <1>3, SumFirst, LicensingConstants DEF CapInv, PayInv

\* While requests come one at a time and complete, in a company that starts with
\* no more accounts than seats, the limit is what was bought less what was handed
\* back, whatever the order (Licensing.CapacityAccounted).
THEOREM CapacityIsAccounted ==
  ASSUME Orderly
  PROVE  Spec => []CapacityAccounted
<1>1. CapInv => CapacityAccounted
  BY DEF CapInv, CapacityAccounted, Paid, Spenders, Procs
<1>2. Init => TypeInv /\ LaneInv /\ ChainInv /\ SubInv /\ CapInv
  BY TypeInit, LaneInit, ChainInit, SubInit, CapInit DEF Orderly
<1>3. TypeInv /\ LaneInv /\ ChainInv /\ SubInv /\ CapInv /\ [Next]_vars
        => TypeInv' /\ LaneInv' /\ ChainInv' /\ SubInv' /\ CapInv'
  BY TypeStep, LaneStep, ChainStep, SubStep, CapStep DEF Orderly
<1>. QED  BY <1>1, <1>2, <1>3, PTL DEF Spec
=============================================================================
