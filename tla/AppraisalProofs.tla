-------------------------- MODULE AppraisalProofs --------------------------
(***************************************************************************)
(* Theorems about Appraisal, for every set of concerns, ratings and        *)
(* requests: the types, under every interleaving; and, for requests that   *)
(* come one at a time, that nothing is signed off over a concern HR has to *)
(* answer, that the sign-off tells whether a concern is live, that a       *)
(* release lasts to the final sign-off, and that concerns keep to          *)
(* ConcernProcess.                                                         *)
(***************************************************************************)
EXTENDS MCAppraisal, TLAPS

-----------------------------------------------------------------------------
(* Types.  What a request asks for is something its write can write.       *)

RowsOK ==
  /\ annual \in BOOLEAN /\ changed \in BOOLEAN /\ review \in Review
  /\ concern \in [Concerns -> ConcernStatus]
AuditTo == {"NONE", "PENDING_RELEASE", "RELEASED"}
FlightOK ==
  /\ pc \in [Procs -> Stage] /\ arg \in [Procs -> Arg] /\ seen \in [Procs -> Seen]
  /\ \A p \in Procs : pc[p] \in {"auditCount", "auditWrite"} => arg[p].to \in AuditTo
  /\ \A p \in Procs : pc[p] = "editWrite" => arg[p].to \in Status
TypeInv == RowsOK /\ FlightOK

LEMMA BlankTypes ==
  /\ NoConcern \in [Concerns -> ConcernStatus] /\ NoArg \in Arg /\ NothingSeen \in Seen
  /\ \A n \in Nat : NoReview(n) \in Review
<1>1. (CHOOSE c \in Concerns : TRUE) \in Concerns
  BY AppraisalConstants
<1>2. \A n \in Nat : NoReview(n) \in Review
  BY DEF NoReview, Review, Status, Signoff, Rating
<1>3. NoConcern \in [Concerns -> ConcernStatus]
  BY DEF NoConcern, ConcernStatus
<1>4. NoArg \in Arg
  BY <1>1 DEF NoArg, Arg, Rating, Status
<1>5. NothingSeen \in Seen
  BY <1>2, <1>3 DEF NothingSeen, Seen
<1>. QED  BY <1>2, <1>3, <1>4, <1>5

\* What a request holds.
LEMMA Held ==
  ASSUME TypeInv, NEW p \in Procs
  PROVE  /\ arg[p].c \in Concerns /\ arg[p].flag \in BOOLEAN /\ arg[p].rating \in Rating
         /\ seen[p].annual \in BOOLEAN /\ seen[p].review \in Review
         /\ seen[p].concern \in [Concerns -> ConcernStatus]
BY DEF TypeInv, FlightOK, Arg, Seen

\* The fields of a review.
LEMMA ReviewFields ==
  ASSUME NEW r \in Review
  PROVE  /\ r.row \in Nat /\ r.status \in Status /\ r.signoff \in Signoff
         /\ r.shared \in BOOLEAN /\ r.manager \in Rating /\ r.hr \in Rating
BY DEF Review

\* What a step of a request leaves in its hands.
LEMMA TurnFacts ==
  ASSUME TypeInv, NEW p \in Procs
  PROVE  /\ \A stage, a : Begin(p, stage, a) =>
              /\ pc'[p] = stage /\ arg'[p] = a /\ seen'[p] = Now /\ UNCHANGED rows
              /\ pc[p] = "idle" /\ Exists
         /\ \A stage : Goto(p, stage) => pc'[p] = stage /\ arg'[p] = arg[p] /\ seen'[p] = seen[p]
         /\ Finish(p) => pc'[p] = "idle"
BY DEF TypeInv, FlightOK, Begin, Goto, Finish

LEMMA BeginType ==
  ASSUME TypeInv, NEW p \in Procs, NEW stage \in Stage, NEW a \in Arg, Begin(p, stage, a),
         stage \in {"auditCount", "auditWrite"} => a.to \in AuditTo,
         stage = "editWrite" => a.to \in Status
  PROVE  TypeInv'
<1>1. RowsOK'
  BY DEF Begin, rows, TypeInv, RowsOK, cycle
<1>2. Now \in Seen
  BY DEF Now, Seen, TypeInv, RowsOK
<1>. QED  BY <1>1, <1>2 DEF Begin, TypeInv, FlightOK

LEMMA GotoType ==
  ASSUME TypeInv, NEW p \in Procs, NEW stage \in Stage,
         stage = "auditWrite" => pc[p] = "auditCount", stage \notin {"auditCount", "editWrite"},
         pc' = [pc EXCEPT ![p] = stage], UNCHANGED arg, seen' \in [Procs -> Seen]
  PROVE  FlightOK'
BY DEF TypeInv, FlightOK

LEMMA FinishType ==
  ASSUME TypeInv, NEW p \in Procs, Finish(p)
  PROVE  FlightOK'
BY BlankTypes DEF Finish, TypeInv, FlightOK, Stage

LEMMA WriteReviewType ==
  ASSUME TypeInv, NEW p \in Procs, NEW new \in Review, WriteReview(p, new)
  PROVE  TypeInv'
<1>1. FlightOK'
  BY FinishType DEF WriteReview, cycle
<1>2. RowsOK'
  BY DEF WriteReview, TypeInv, RowsOK, cycle
<1>. QED  BY <1>1, <1>2 DEF TypeInv

LEMMA WriteConcernType ==
  ASSUME TypeInv, NEW p \in Procs, NEW c \in Concerns, NEW s \in ConcernStatus,
         WriteConcern(p, c, s)
  PROVE  RowsOK'
BY DEF WriteConcern, TypeInv, RowsOK, cycle

\* The requests: what each asks for can be asked for.
LEMMA AskType ==
  ASSUME TypeInv, NEW p \in Procs,
         \/ Delete(p) \/ Lock(p) \/ Finalise(p)
         \/ \E submit \in BOOLEAN : SelfSave(p, submit)
         \/ \E submit \in BOOLEAN, rating \in Rating : ManagerReview(p, rating, submit)
         \/ \E rating \in Rating, to \in AuditTo : Audit(p, rating, to)
         \/ \E rating \in Rating : Share(p, rating)
         \/ \E rating \in Rating, to \in Status : Edit(p, rating, to)
         \/ \E c \in Concerns : Raise(p, c)
         \/ \E c \in Concerns, flag \in BOOLEAN : Respond(p, c, flag) \/ Decide(p, c, flag)
  PROVE  TypeInv'
<1>1. CASE Delete(p) \/ Lock(p) \/ Finalise(p)
  BY <1>1, BlankTypes, BeginType DEF Delete, Lock, Finalise, Stage
<1>2. CASE \E submit \in BOOLEAN : SelfSave(p, submit)
  <2>1. PICK submit \in BOOLEAN : SelfSave(p, submit)
    BY <1>2
  <2>2. [NoArg EXCEPT !.flag = submit] \in Arg
    BY BlankTypes DEF Arg
  <2>. QED  BY <2>1, <2>2, BeginType DEF SelfSave, Stage
<1>3. CASE \E submit \in BOOLEAN, rating \in Rating : ManagerReview(p, rating, submit)
  <2>1. PICK submit \in BOOLEAN, rating \in Rating : ManagerReview(p, rating, submit)
    BY <1>3
  <2>2. [NoArg EXCEPT !.flag = submit, !.rating = rating] \in Arg
    BY BlankTypes DEF Arg
  <2>. QED  BY <2>1, <2>2, BeginType DEF ManagerReview, Stage
<1>4. CASE \E rating \in Rating, to \in AuditTo : Audit(p, rating, to)
  <2>1. PICK rating \in Rating, to \in AuditTo : Audit(p, rating, to)
    BY <1>4
  <2>2. PICK a : a = [NoArg EXCEPT !.rating = rating, !.to = to]
    OBVIOUS
  <2>3. a \in Arg /\ a.to = to
    BY <2>2, BlankTypes DEF Arg, AuditTo, Signoff, Status, Locked
  <2>4. Begin(p, "auditCount", a) \/ Begin(p, "auditWrite", a)
    BY <2>1, <2>2 DEF Audit
  <2>. QED  BY <2>3, <2>4, BeginType DEF Stage
<1>5. CASE \E rating \in Rating : Share(p, rating)
  <2>1. PICK rating \in Rating : Share(p, rating)
    BY <1>5
  <2>2. [NoArg EXCEPT !.rating = rating] \in Arg
    BY BlankTypes DEF Arg
  <2>. QED  BY <2>1, <2>2, BeginType DEF Share, Stage
<1>6. CASE \E rating \in Rating, to \in Status : Edit(p, rating, to)
  <2>1. PICK rating \in Rating, to \in Status : Edit(p, rating, to)
    BY <1>6
  <2>2. PICK a : a = [NoArg EXCEPT !.rating = rating, !.to = to]
    OBVIOUS
  <2>3. a \in Arg /\ a.to = to
    BY <2>2, BlankTypes DEF Arg
  <2>. QED  BY <2>1, <2>2, <2>3, BeginType DEF Edit, Stage
<1>7. CASE \E c \in Concerns : Raise(p, c)
  <2>1. PICK c \in Concerns : Raise(p, c)
    BY <1>7
  <2>2. [NoArg EXCEPT !.c = c] \in Arg
    BY BlankTypes DEF Arg
  <2>. QED  BY <2>1, <2>2, BeginType DEF Raise, Stage
<1>8. CASE \E c \in Concerns, flag \in BOOLEAN : Respond(p, c, flag) \/ Decide(p, c, flag)
  <2>1. PICK c \in Concerns, flag \in BOOLEAN : Respond(p, c, flag) \/ Decide(p, c, flag)
    BY <1>8
  <2>2. [NoArg EXCEPT !.c = c, !.flag = flag] \in Arg
    BY BlankTypes DEF Arg
  <2>. QED  BY <2>1, <2>2, BeginType DEF Respond, Decide, Stage
<1>. QED  BY <1>1, <1>2, <1>3, <1>4, <1>5, <1>6, <1>7, <1>8

\* The statements that write the review write a review.
LEMMA ReviewType ==
  ASSUME TypeInv, NEW p \in Procs,
         \/ SelfWrite(p) \/ ManagerWrite(p) \/ AuditWrite(p) \/ ShareWrite(p) \/ LockWrite(p)
         \/ EditWrite(p) \/ RaiseFlag(p) \/ SyncWrite(p) \/ FinaliseWrite(p)
  PROVE  TypeInv'
<1>0. /\ review \in Review /\ arg[p].rating \in Rating /\ seen[p].review \in Review
      /\ \A a, b \in Rating : Given(a, b) \in Rating
  BY Held DEF TypeInv, RowsOK, Given
<1>1. CASE SelfWrite(p)
  <2>1. [review EXCEPT !.status = IF arg[p].flag THEN "SUBMITTED" ELSE @] \in Review
    BY <1>0 DEF Review, Status
  <2>. QED  BY <1>1, <2>1, WriteReviewType DEF SelfWrite
<1>2. CASE ManagerWrite(p)
  <2>1. Given(arg[p].rating, seen[p].review.manager) \in Rating
    BY <1>0, ReviewFields
  <2>2. [review EXCEPT
           !.manager = Given(arg[p].rating, seen[p].review.manager),
           !.status = IF arg[p].flag \/ seen[p].review.status = "MANAGER_REVIEWED"
                       THEN "MANAGER_REVIEWED" ELSE @] \in Review
    BY <1>0, <2>1 DEF Review, Status, Reviewed
  <2>. QED  BY <1>2, <2>2, WriteReviewType DEF ManagerWrite
<1>3. CASE AuditWrite(p)
  <2>1. AuditSignoff(p) \in Signoff
    <3>1. arg[p].to \in AuditTo /\ review.signoff \in Signoff
      BY <1>0, <1>3, ReviewFields DEF AuditWrite, TypeInv, FlightOK
    <3>. QED  BY <3>1 DEF AuditSignoff, AuditTo, Signoff, Locked
  <2>2. Given(arg[p].rating, review.hr) \in Rating
    BY <1>0, ReviewFields
  <2>3. [review EXCEPT
           !.hr = Given(arg[p].rating, @), !.signoff = AuditSignoff(p),
           !.status = IF arg[p].to = "RELEASED" THEN "COMPLETED" ELSE @] \in Review
    BY <1>0, <2>1, <2>2 DEF Review, Status, Reviewed
  <2>. QED  BY <1>3, <2>3, WriteReviewType DEF AuditWrite
<1>4. CASE ShareWrite(p)
  <2>1. Given(arg[p].rating, review.hr) \in Rating
    BY <1>0, ReviewFields
  <2>2. [review EXCEPT
           !.hr = Given(arg[p].rating, @), !.shared = TRUE,
           !.signoff = IF seen[p].review.signoff = "CONCERN_RAISED" THEN "CONCERN_RAISED" ELSE "SHARED"]
          \in Review
    BY <1>0, <2>1 DEF Review, Signoff
  <2>. QED  BY <1>4, <2>2, WriteReviewType DEF ShareWrite
<1>5. CASE LockWrite(p) \/ FinaliseWrite(p)
  <2>1. /\ [review EXCEPT !.status = "COMPLETED", !.signoff = "FINALISED"] \in Review
        /\ [review EXCEPT !.signoff = "FINALISED", !.status = "COMPLETED"] \in Review
    BY <1>0 DEF Review, Status, Reviewed, Signoff, Locked
  <2>. QED  BY <1>5, <2>1, WriteReviewType DEF LockWrite, FinaliseWrite
<1>6. CASE EditWrite(p)
  <2>1. Given(arg[p].rating, review.manager) \in Rating /\ arg[p].to \in Status
    BY <1>0, <1>6, ReviewFields DEF EditWrite, TypeInv, FlightOK
  <2>2. [review EXCEPT
           !.manager = Given(arg[p].rating, @),
           !.status = IF arg[p].to = "NONE" THEN @ ELSE arg[p].to] \in Review
    BY <1>0, <2>1 DEF Review
  <2>. QED  BY <1>6, <2>2, WriteReviewType DEF EditWrite
<1>7. CASE RaiseFlag(p)
  <2>1. [review EXCEPT !.signoff = "CONCERN_RAISED"] \in Review
    BY <1>0 DEF Review, Signoff
  <2>. QED  BY <1>7, <2>1, WriteReviewType DEF RaiseFlag
<1>8. CASE SyncWrite(p)
  <2>1. [review EXCEPT
           !.signoff = IF Flagged(seen[p]) THEN "CONCERN_RAISED"
                        ELSE IF seen[p].review.shared THEN "SHARED" ELSE "PENDING_RELEASE"] \in Review
    BY <1>0 DEF Review, Signoff
  <2>. QED  BY <1>8, <2>1, WriteReviewType DEF SyncWrite
<1>. QED  BY <1>1, <1>2, <1>3, <1>4, <1>5, <1>6, <1>7, <1>8

\* The other statements.
LEMMA StatementType ==
  ASSUME TypeInv, NEW p \in Procs,
         \/ UpdateCycle(p) \/ Create(p) \/ DeleteWrite(p) \/ AuditCount(p) \/ RaiseCreate(p)
         \/ RespondWrite(p) \/ DecideWrite(p) \/ SyncRead(p) \/ FinaliseCount(p) \/ FinaliseClose(p)
  PROVE  TypeInv'
<1>0. UNCHANGED rows => RowsOK'
  BY DEF rows, TypeInv, RowsOK, cycle
<1>00. arg[p].c \in Concerns /\ Now \in Seen /\ seen \in [Procs -> Seen]
  BY Held DEF Now, Seen, TypeInv, RowsOK, FlightOK
<1>1. CASE Create(p)
  <2>1. review.row + 1 \in Nat
    BY ReviewFields DEF TypeInv, RowsOK
  <2>2. NoReview(review.row + 1) \in Review
    BY <2>1, BlankTypes
  <2>3. [NoReview(review.row + 1) EXCEPT !.status = "DRAFT"] \in Review
    BY <2>2 DEF Review, Status
  <2>. QED  BY <1>1, <2>3 DEF Create, TypeInv, RowsOK, FlightOK, cycle
<1>2. CASE DeleteWrite(p)
  <2>1. NoReview(review.row) \in Review
    BY BlankTypes, ReviewFields DEF TypeInv, RowsOK
  <2>2. RowsOK'
    BY <1>2, <2>1, BlankTypes DEF DeleteWrite, TypeInv, RowsOK, cycle
  <2>. QED  BY <1>2, <2>2, FinishType DEF DeleteWrite, TypeInv, cycle
<1>3. CASE AuditCount(p)
  BY <1>0, <1>00, <1>3, FinishType, GotoType DEF AuditCount, Goto, Stage, TypeInv
<1>4. CASE RaiseCreate(p)
  <2>1. CASE Goto(p, "raiseFlag") /\ WriteConcern(p, arg[p].c, "OPEN")
    BY <1>00, <2>1, GotoType, WriteConcernType DEF Goto, Stage, TypeInv, ConcernStatus
  <2>2. CASE Finish(p) /\ UNCHANGED rows
    BY <1>0, <2>2, FinishType DEF TypeInv
  <2>. QED  BY <1>4, <2>1, <2>2 DEF RaiseCreate
<1>5. CASE RespondWrite(p)
  <2>1. CASE Finish(p) /\ UNCHANGED rows
    BY <1>0, <2>1, FinishType DEF TypeInv
  <2>2. CASE ~(Finish(p) /\ UNCHANGED rows)
    <3>1. AnswerOf(p) \in ConcernStatus
      BY DEF AnswerOf, ConcernStatus
    <3>2. RowsOK'
      BY <1>5, <1>00, <2>2, <3>1, WriteConcernType DEF RespondWrite, ConcernStatus
    <3>3. Goto(p, "syncRead") \/ Finish(p)
      BY <1>5, <2>2 DEF RespondWrite
    <3>. QED  BY <1>00, <3>2, <3>3, FinishType, GotoType DEF Goto, Stage, TypeInv
  <2>. QED  BY <2>1, <2>2
<1>6. CASE DecideWrite(p)
  <2>1. CASE Finish(p) /\ UNCHANGED rows
    BY <1>0, <2>1, FinishType DEF TypeInv
  <2>2. CASE ~(Finish(p) /\ UNCHANGED rows)
    <3>1. RowsOK'
      BY <1>6, <1>00, <2>2, WriteConcernType DEF DecideWrite, ConcernStatus
    <3>2. Goto(p, "syncRead")
      BY <1>6, <2>2 DEF DecideWrite
    <3>. QED  BY <1>00, <3>1, <3>2, GotoType DEF Goto, Stage, TypeInv
  <2>. QED  BY <2>1, <2>2
<1>7. CASE SyncRead(p)
  <2>1. CASE Finish(p)
    BY <1>0, <1>7, <2>1, FinishType DEF SyncRead, TypeInv
  <2>2. CASE ~Finish(p)
    <3>1. pc' = [pc EXCEPT ![p] = "syncWrite"] /\ UNCHANGED arg /\ seen' \in [Procs -> Seen]
      <4>1. [Now EXCEPT !.annual = seen[p].annual] \in Seen
        BY <1>00, Held DEF Seen
      <4>. QED  BY <1>00, <1>7, <2>2, <4>1 DEF SyncRead
    <3>. QED  BY <1>0, <1>7, <3>1, GotoType DEF SyncRead, Stage, TypeInv
  <2>. QED  BY <2>1, <2>2
<1>8. CASE FinaliseCount(p)
  <2>1. CASE Finish(p)
    BY <1>0, <1>8, <2>1, FinishType DEF FinaliseCount, TypeInv
  <2>2. CASE ~Finish(p)
    <3>1. pc' = [pc EXCEPT ![p] = "finaliseClose"] /\ UNCHANGED arg
            /\ seen' = [seen EXCEPT ![p].concern = concern]
      BY <1>8, <2>2 DEF FinaliseCount
    <3>2. seen' \in [Procs -> Seen]
      BY <1>00, <3>1 DEF Seen, TypeInv, RowsOK
    <3>. QED  BY <1>0, <1>8, <3>1, <3>2, GotoType DEF FinaliseCount, Stage, TypeInv
  <2>. QED  BY <2>1, <2>2
<1>9. CASE FinaliseClose(p)
  <2>1. CASE Finish(p) /\ UNCHANGED rows
    BY <1>0, <2>1, FinishType DEF TypeInv
  <2>2. CASE Goto(p, "finaliseWrite") /\ UNCHANGED rows
    BY <1>0, <1>00, <2>2, GotoType DEF Goto, Stage, TypeInv
  <2>3. ASSUME NEW c \in Concerns, WriteConcern(p, c, "CLOSED"), UNCHANGED <<pc, arg>>,
               seen' = [seen EXCEPT ![p].concern[c] = "CLOSED"]
        PROVE  TypeInv'
    <3>1. RowsOK'
      BY <2>3, WriteConcernType DEF ConcernStatus
    <3>2. [seen[p].concern EXCEPT ![c] = "CLOSED"] \in [Concerns -> ConcernStatus]
      BY Held DEF ConcernStatus
    <3>3. seen' \in [Procs -> Seen]
      BY <1>00, <2>3, <3>2 DEF Seen
    <3>. QED  BY <2>3, <3>1, <3>3 DEF TypeInv, FlightOK
  <2>. QED  BY <1>9, <2>1, <2>2, <2>3 DEF FinaliseClose, Awaiting
<1>10. CASE UpdateCycle(p)
  BY <1>10 DEF UpdateCycle, TypeInv, RowsOK, FlightOK
<1>. QED  BY <1>1, <1>2, <1>3, <1>4, <1>5, <1>6, <1>7, <1>8, <1>9, <1>10

\* A step is a request, a write to the review or another statement.
LEMMA StepKinds ==
  ASSUME NEW p \in Procs, Step(p)
  PROVE  \/ \/ Delete(p) \/ Lock(p) \/ Finalise(p)
            \/ \E submit \in BOOLEAN : SelfSave(p, submit)
            \/ \E submit \in BOOLEAN, rating \in Rating : ManagerReview(p, rating, submit)
            \/ \E rating \in Rating, to \in AuditTo : Audit(p, rating, to)
            \/ \E rating \in Rating : Share(p, rating)
            \/ \E rating \in Rating, to \in Status : Edit(p, rating, to)
            \/ \E c \in Concerns : Raise(p, c)
            \/ \E c \in Concerns, flag \in BOOLEAN : Respond(p, c, flag) \/ Decide(p, c, flag)
         \/ \/ SelfWrite(p) \/ ManagerWrite(p) \/ AuditWrite(p) \/ ShareWrite(p) \/ LockWrite(p)
            \/ EditWrite(p) \/ RaiseFlag(p) \/ SyncWrite(p) \/ FinaliseWrite(p)
         \/ \/ UpdateCycle(p) \/ Create(p) \/ DeleteWrite(p) \/ AuditCount(p) \/ RaiseCreate(p)
            \/ RespondWrite(p) \/ DecideWrite(p) \/ SyncRead(p) \/ FinaliseCount(p) \/ FinaliseClose(p)
BY DEF Step, AuditTo

LEMMA TypeStep == TypeInv /\ [Next]_vars => TypeInv'
<1>. SUFFICES ASSUME TypeInv, [Next]_vars PROVE TypeInv'
  OBVIOUS
<1>1. ASSUME NEW p \in Procs, Step(p) PROVE TypeInv'
  BY <1>1, StepKinds, AskType, ReviewType, StatementType
<1>2. CASE UNCHANGED vars
  BY <1>2 DEF vars, TypeInv, RowsOK, FlightOK, cycle, rows
<1>. QED  BY <1>1, <1>2 DEF Next

LEMMA TypeInit == Init => TypeInv
<1>. SUFFICES ASSUME Init PROVE RowsOK /\ FlightOK
  BY DEF TypeInv
<1>1. RowsOK
  BY BlankTypes DEF Init, RowsOK
<1>2. FlightOK
  BY BlankTypes DEF Init, FlightOK, Stage
<1>. QED  BY <1>1, <1>2

\* The review, the concerns and the requests in flight always have their types:
\* no interleaving makes a handler write a status, a sign-off or a rating that is
\* not one (Appraisal.TypeOK).
THEOREM TypeCorrect == Spec => []TypeOK
<1>1. TypeInv => TypeOK
  BY DEF TypeInv, RowsOK, FlightOK, TypeOK
<1>. QED  BY <1>1, TypeInit, TypeStep, PTL DEF Spec

-----------------------------------------------------------------------------
(* Requests that come one at a time: what the handler in flight may rely   *)
(* on, and what the rows say between two of its statements.                *)

OneAtATime == \A p, q \in Procs : p = q

\* What its guards have established, stage by stage, and nothing has undone.
Suits(stage, a) ==
  /\ stage \in {"managerWrite", "auditCount", "auditWrite"} => review.signoff # "RELEASED"
  /\ stage \in {"shareWrite", "raiseCreate", "raiseFlag", "decideWrite", "syncWrite"} => ~IsLocked
  /\ stage = "lockWrite" => ~annual
  /\ stage = "raiseFlag" => concern[a.c] = "OPEN"
  /\ stage = "respondWrite" /\ annual => a.flag /\ concern[a.c] \in {"OPEN", "ESCALATED"}
  /\ stage = "decideWrite" => annual /\ concern[a.c] = "RESOLVED"
  /\ stage \in {"finaliseClose", "finaliseWrite"} \/ (stage = "auditWrite" /\ a.to = "RELEASED")
       => Answered
  /\ stage = "finaliseWrite" => \A c \in Concerns : concern[c] # "RESOLVED"

\* What it has read is what is there, except where it has just written a concern.
Handling(p) ==
  pc[p] # "idle" =>
    /\ Current(p) /\ Suits(pc[p], arg[p])
    /\ seen[p].annual = annual
    /\ pc[p] \notin {"raiseFlag", "syncRead"} => seen[p] = Now

\* Stages at which a concern is written and the sign-off is not, yet.
Unsettled == {"raiseFlag", "syncRead", "syncWrite", "finaliseClose", "finaliseWrite"}

RowInv ==
  /\ ~Exists => concern = NoConcern /\ review.signoff = "PENDING_RELEASE"
  /\ Steady /\ IsLocked => Answered
  /\ Steady /\ review.signoff = "FINALISED" => ~Flagged(Now)
  /\ Steady /\ ~IsLocked /\ (\A p \in Procs : pc[p] \notin Unsettled)
       => (review.signoff = "CONCERN_RAISED" <=> Flagged(Now))

Safe == TypeInv /\ RowInv /\ \A p \in Procs : Handling(p)

LEMMA BeginSafe ==
  ASSUME TypeInv, RowInv, NEW p \in Procs, NEW stage, NEW a, Begin(p, stage, a),
         stage \notin Unsettled, Suits(stage, a)
  PROVE  RowInv' /\ Handling(p)'
<1>1. /\ pc'[p] = stage /\ arg'[p] = a /\ seen'[p] = Now /\ pc[p] = "idle" /\ Exists
      /\ annual' = annual /\ changed' = changed /\ review' = review /\ concern' = concern
  BY TurnFacts DEF rows, cycle
<1>2. Handling(p)'
  BY <1>1 DEF Handling, Current, Exists, Now, Suits, IsLocked, Answered, Unanswered
<1>3. (\A q \in Procs : pc'[q] \notin Unsettled) => \A q \in Procs : pc[q] \notin Unsettled
  BY <1>1 DEF Begin, Unsettled, TypeInv, FlightOK
<1>4. RowInv'
  BY <1>1, <1>3 DEF RowInv, Exists, IsLocked, Answered, Unanswered, Flagged, Live, Now, Steady
<1>. QED  BY <1>2, <1>4

LEMMA AskSafe ==
  ASSUME TypeInv, RowInv, NEW p \in Procs,
         \/ Delete(p) \/ Lock(p) \/ Finalise(p)
         \/ \E submit \in BOOLEAN : SelfSave(p, submit)
         \/ \E submit \in BOOLEAN, rating \in Rating : ManagerReview(p, rating, submit)
         \/ \E rating \in Rating, to \in AuditTo : Audit(p, rating, to)
         \/ \E rating \in Rating : Share(p, rating)
         \/ \E rating \in Rating, to \in Status : Edit(p, rating, to)
         \/ \E c \in Concerns : Raise(p, c)
         \/ \E c \in Concerns, flag \in BOOLEAN : Respond(p, c, flag) \/ Decide(p, c, flag)
  PROVE  RowInv' /\ Handling(p)'
<1>1. CASE Delete(p) \/ Lock(p) \/ Finalise(p)
  BY <1>1, BeginSafe DEF Delete, Lock, Finalise, Suits, Unsettled
<1>2. CASE \E submit \in BOOLEAN : SelfSave(p, submit)
  BY <1>2, BeginSafe DEF SelfSave, Suits, Unsettled
<1>3. CASE \E submit \in BOOLEAN, rating \in Rating : ManagerReview(p, rating, submit)
  <2>1. PICK submit \in BOOLEAN, rating \in Rating : ManagerReview(p, rating, submit)
    BY <1>3
  <2>2. PICK a : a = [NoArg EXCEPT !.flag = submit, !.rating = rating]
    OBVIOUS
  <2>3. review.signoff # "RELEASED" /\ Begin(p, "managerWrite", a)
    BY <2>1, <2>2 DEF ManagerReview, ManagerMay
  <2>. QED  BY <2>3, BeginSafe DEF Suits, Unsettled
<1>4. CASE \E rating \in Rating, to \in AuditTo : Audit(p, rating, to)
  <2>1. PICK rating \in Rating, to \in AuditTo : Audit(p, rating, to)
    BY <1>4
  <2>2. PICK a : a = [NoArg EXCEPT !.rating = rating, !.to = to]
    OBVIOUS
  <2>3. a.to = to
    BY <2>2, BlankTypes DEF Arg
  <2>4. review.signoff # "RELEASED"
          /\ Begin(p, IF to = "RELEASED" THEN "auditCount" ELSE "auditWrite", a)
    BY <2>1, <2>2 DEF Audit
  <2>. QED  BY <2>3, <2>4, BeginSafe DEF Suits, Unsettled
<1>5. CASE \E rating \in Rating : Share(p, rating)
  BY <1>5, BeginSafe DEF Share, Suits, Unsettled
<1>6. CASE \E rating \in Rating, to \in Status : Edit(p, rating, to)
  <2>1. PICK rating \in Rating, to \in Status : Edit(p, rating, to)
    BY <1>6
  <2>2. PICK a : a = [NoArg EXCEPT !.rating = rating, !.to = to]
    OBVIOUS
  <2>3. Begin(p, "editWrite", a)
    BY <2>1, <2>2 DEF Edit
  <2>. QED  BY <2>3, BeginSafe DEF Suits, Unsettled
<1>7. CASE \E c \in Concerns : Raise(p, c)
  BY <1>7, BeginSafe DEF Raise, Suits, Unsettled
<1>8. CASE \E c \in Concerns, flag \in BOOLEAN : Respond(p, c, flag) \/ Decide(p, c, flag)
  <2>1. PICK c \in Concerns, flag \in BOOLEAN : Respond(p, c, flag) \/ Decide(p, c, flag)
    BY <1>8
  <2>2. PICK a : a = [NoArg EXCEPT !.c = c, !.flag = flag]
    OBVIOUS
  <2>3. a.c = c /\ a.flag = flag
    BY <2>2, BlankTypes DEF Arg
  <2>4. \/ /\ Begin(p, "respondWrite", a)
           /\ annual => a.flag /\ concern[a.c] \in {"OPEN", "ESCALATED"}
        \/ Begin(p, "decideWrite", a) /\ annual /\ concern[a.c] = "RESOLVED" /\ ~IsLocked
    BY <2>1, <2>2, <2>3 DEF Respond, Decide
  <2>. QED  BY <2>4, BeginSafe DEF Suits, Unsettled
<1>. QED  BY <1>1, <1>2, <1>3, <1>4, <1>5, <1>6, <1>7, <1>8

-----------------------------------------------------------------------------
(* The statements that write the review.                                   *)

\* Which ratings and which sign-off stand, and what the new sign-off says.
Writes(p) ==
  \/ SelfWrite(p) \/ ManagerWrite(p) \/ AuditWrite(p) \/ ShareWrite(p) \/ LockWrite(p)
  \/ EditWrite(p) \/ RaiseFlag(p) \/ SyncWrite(p) \/ FinaliseWrite(p)
Lasts(p) ==
  /\ review'.hr = review.hr
  /\ review'.signoff = "RELEASED" \/ FinaliseWrite(p) \/ LockWrite(p)
  /\ review'.manager = review.manager \/ EditWrite(p)
Tells(new) ==
  Steady =>
    /\ new.signoff \in Locked => Answered
    /\ new.signoff = "FINALISED" => ~Flagged(Now)
    /\ new.signoff \notin Locked => (new.signoff = "CONCERN_RAISED" <=> Flagged(Now))

\* What was settled tells already: a write that leaves the sign-off alone.
LEMMA StillTells ==
  ASSUME TypeInv, RowInv, OneAtATime, NEW p \in Procs, pc[p] \notin Unsettled,
         NEW new, new.signoff = review.signoff
  PROVE  Tells(new)
<1>1. \A q \in Procs : pc[q] \notin Unsettled
  BY DEF OneAtATime
<1>. QED  BY <1>1 DEF RowInv, Tells, IsLocked

LEMMA ReviewWrites ==
  ASSUME TypeInv, RowInv, OneAtATime, NEW p \in Procs, Handling(p), Writes(p)
  PROVE  /\ Finish(p) /\ UNCHANGED <<annual, changed, concern>> /\ Exists
         /\ review'.row = review.row /\ review'.status # "NONE"
         /\ Tells(review')
         /\ review.signoff = "RELEASED" => Lasts(p)
<1>0. /\ pc[p] # "idle" /\ Current(p) /\ Exists /\ Suits(pc[p], arg[p])
      /\ pc[p] # "raiseFlag" => seen[p] = Now
  BY DEF Handling, Writes, SelfWrite, ManagerWrite, AuditWrite, ShareWrite, LockWrite,
         EditWrite, RaiseFlag, SyncWrite, FinaliseWrite, Current
<1>1. \A new : WriteReview(p, new) => review' = new /\ Finish(p) /\ UNCHANGED <<annual, changed, concern>>
  BY <1>0 DEF WriteReview, cycle
<1>2. review.status # "NONE" /\ review.signoff \in Signoff /\ review \in Review
  BY <1>0, ReviewFields DEF Exists, TypeInv, RowsOK
<1>3. CASE SelfWrite(p)
  <2>1. PICK new : new = [review EXCEPT !.status = IF arg[p].flag THEN "SUBMITTED" ELSE @]
    OBVIOUS
  <2>2. /\ new.row = review.row /\ new.status # "NONE" /\ new.signoff = review.signoff
        /\ new.manager = review.manager /\ new.hr = review.hr
    BY <1>2, <2>1 DEF Review
  <2>3. Tells(new)
    BY <1>3, <2>2, StillTells DEF SelfWrite, Unsettled
  <2>8. WriteReview(p, new)
    BY <1>3, <2>1 DEF SelfWrite
  <2>9. review' = new /\ Finish(p) /\ UNCHANGED <<annual, changed, concern>>
    BY <1>1, <2>8
  <2>. QED  BY <1>0, <1>3, <2>2, <2>3, <2>9 DEF Lasts
<1>4. CASE ManagerWrite(p)
  <2>1. PICK new : new = [review EXCEPT
           !.manager = Given(arg[p].rating, seen[p].review.manager),
           !.status = IF arg[p].flag \/ seen[p].review.status = "MANAGER_REVIEWED"
                       THEN "MANAGER_REVIEWED" ELSE @]
    OBVIOUS
  <2>2. new.row = review.row /\ new.status # "NONE" /\ new.signoff = review.signoff
    BY <1>2, <2>1 DEF Review
  <2>3. Tells(new)
    BY <1>4, <2>2, StillTells DEF ManagerWrite, Unsettled
  <2>4. review.signoff # "RELEASED"
    BY <1>0, <1>4 DEF ManagerWrite, Suits
  <2>8. WriteReview(p, new)
    BY <1>4, <2>1 DEF ManagerWrite
  <2>9. review' = new /\ Finish(p) /\ UNCHANGED <<annual, changed, concern>>
    BY <1>1, <2>8
  <2>. QED  BY <1>0, <1>4, <2>2, <2>3, <2>4, <2>9
<1>5. CASE AuditWrite(p)
  <2>1. PICK new : new = [review EXCEPT
           !.hr = Given(arg[p].rating, @), !.signoff = AuditSignoff(p),
           !.status = IF arg[p].to = "RELEASED" THEN "COMPLETED" ELSE @]
    OBVIOUS
  <2>2. new.row = review.row /\ new.status # "NONE" /\ new.signoff = AuditSignoff(p)
    BY <1>2, <2>1 DEF Review
  <2>3. /\ review.signoff # "RELEASED"
        /\ arg[p].to = "RELEASED" => Answered
        /\ arg[p].to \in AuditTo /\ seen[p].review = review
    BY <1>0, <1>5 DEF AuditWrite, Suits, TypeInv, FlightOK, Now
  <2>4. ASSUME AuditSignoff(p) = review.signoff PROVE Tells(new)
    BY <1>5, <2>2, <2>4, StillTells DEF AuditWrite, Unsettled
  <2>5. ASSUME AuditSignoff(p) # review.signoff PROVE Tells(new)
    <3>1. /\ arg[p].to # "NONE"
          /\ ~(arg[p].to = "PENDING_RELEASE" /\ Kept(review.signoff))
          /\ AuditSignoff(p) = arg[p].to
      BY <2>3, <2>5 DEF AuditSignoff
    <3>2. \/ AuditSignoff(p) = "RELEASED" /\ Answered
          \/ AuditSignoff(p) = "PENDING_RELEASE" /\ review.signoff = "FINALISED"
      BY <1>2, <2>3, <2>5, <3>1 DEF AuditTo, Kept, Signoff, Locked
    <3>. QED  BY <2>2, <3>2 DEF Tells, RowInv, Locked
  <2>6. Tells(new)
    BY <2>4, <2>5
  <2>7. review.signoff # "RELEASED"
    BY <2>3
  <2>8. WriteReview(p, new)
    BY <1>5, <2>1 DEF AuditWrite
  <2>9. review' = new /\ Finish(p) /\ UNCHANGED <<annual, changed, concern>>
    BY <1>1, <2>8
  <2>. QED  BY <1>0, <1>5, <2>2, <2>6, <2>7, <2>9
<1>6. CASE ShareWrite(p)
  <2>1. PICK new : new = [review EXCEPT
           !.hr = Given(arg[p].rating, @), !.shared = TRUE,
           !.signoff = IF seen[p].review.signoff = "CONCERN_RAISED" THEN "CONCERN_RAISED" ELSE "SHARED"]
    OBVIOUS
  <2>2. ~IsLocked /\ seen[p].review = review
    BY <1>0, <1>6 DEF ShareWrite, Suits, Now
  <2>3. /\ new.row = review.row /\ new.status # "NONE" /\ new.signoff \notin Locked
        /\ new.signoff = "CONCERN_RAISED" <=> review.signoff = "CONCERN_RAISED"
        /\ new.signoff # "FINALISED"
    BY <1>2, <2>1, <2>2 DEF Review, Locked
  <2>4. \A q \in Procs : pc[q] \notin Unsettled
    BY <1>6 DEF OneAtATime, ShareWrite, Unsettled
  <2>5. Tells(new)
    BY <2>2, <2>3, <2>4 DEF Tells, RowInv
  <2>8. WriteReview(p, new)
    BY <1>6, <2>1 DEF ShareWrite
  <2>9. review' = new /\ Finish(p) /\ UNCHANGED <<annual, changed, concern>>
    BY <1>1, <2>8
  <2>. QED  BY <1>0, <1>6, <2>2, <2>3, <2>5, <2>9 DEF IsLocked, Locked
<1>7. CASE LockWrite(p)
  <2>1. PICK new : new = [review EXCEPT !.status = "COMPLETED", !.signoff = "FINALISED"]
    OBVIOUS
  <2>2. /\ new.row = review.row /\ new.status # "NONE" /\ new.signoff \in Locked
        /\ new.manager = review.manager /\ new.hr = review.hr
    BY <1>2, <2>1 DEF Review, Locked
  <2>3. Tells(new)
    BY <1>0, <1>7 DEF LockWrite, Suits, Tells, Steady
  <2>8. WriteReview(p, new)
    BY <1>7, <2>1 DEF LockWrite
  <2>9. review' = new /\ Finish(p) /\ UNCHANGED <<annual, changed, concern>>
    BY <1>1, <2>8
  <2>. QED  BY <1>0, <1>7, <2>2, <2>3, <2>9 DEF Lasts
<1>8. CASE EditWrite(p)
  <2>1. PICK new : new = [review EXCEPT
           !.manager = Given(arg[p].rating, @),
           !.status = IF arg[p].to = "NONE" THEN @ ELSE arg[p].to]
    OBVIOUS
  <2>2. /\ new.row = review.row /\ new.status # "NONE" /\ new.signoff = review.signoff
        /\ new.hr = review.hr
    <3>1. arg[p].to \in Status
      BY <1>8 DEF EditWrite, TypeInv, FlightOK
    <3>. QED  BY <1>2, <2>1, <3>1 DEF Review
  <2>3. Tells(new)
    BY <1>8, <2>2, StillTells DEF EditWrite, Unsettled
  <2>8. WriteReview(p, new)
    BY <1>8, <2>1 DEF EditWrite
  <2>9. review' = new /\ Finish(p) /\ UNCHANGED <<annual, changed, concern>>
    BY <1>1, <2>8
  <2>. QED  BY <1>0, <1>8, <2>2, <2>3, <2>9 DEF Lasts
<1>9. CASE RaiseFlag(p)
  <2>1. PICK new : new = [review EXCEPT !.signoff = "CONCERN_RAISED"]
    OBVIOUS
  <2>2. new.row = review.row /\ new.status # "NONE" /\ new.signoff = "CONCERN_RAISED"
    BY <1>2, <2>1 DEF Review
  <2>3. ~IsLocked /\ concern[arg[p].c] = "OPEN" /\ arg[p].c \in Concerns
    BY <1>0, <1>9, Held DEF RaiseFlag, Suits
  <2>4. Flagged(Now)
    BY <2>3 DEF Flagged, Live, Now, Steady
  <2>5. Tells(new)
    BY <2>2, <2>4 DEF Tells, Locked
  <2>8. WriteReview(p, new)
    BY <1>9, <2>1 DEF RaiseFlag
  <2>9. review' = new /\ Finish(p) /\ UNCHANGED <<annual, changed, concern>>
    BY <1>1, <2>8
  <2>. QED  BY <1>0, <1>9, <2>2, <2>3, <2>5, <2>9 DEF IsLocked, Locked
<1>10. CASE SyncWrite(p)
  <2>1. PICK new : new = [review EXCEPT
           !.signoff = IF Flagged(seen[p]) THEN "CONCERN_RAISED"
                        ELSE IF seen[p].review.shared THEN "SHARED" ELSE "PENDING_RELEASE"]
    OBVIOUS
  <2>2. ~IsLocked /\ seen[p] = Now
    BY <1>0, <1>10 DEF SyncWrite, Suits
  <2>3. /\ new.row = review.row /\ new.status # "NONE"
        /\ new.signoff \notin Locked /\ new.signoff # "FINALISED"
        /\ new.signoff = "CONCERN_RAISED" <=> Flagged(Now)
    <3>1. /\ new.row = review.row /\ new.status = review.status
          /\ new.signoff = IF Flagged(Now) THEN "CONCERN_RAISED"
                        ELSE IF seen[p].review.shared THEN "SHARED" ELSE "PENDING_RELEASE"
      BY <1>2, <2>1, <2>2 DEF Review
    <3>. QED  BY <1>2, <3>1 DEF Locked
  <2>4. Tells(new)
    BY <2>3 DEF Tells
  <2>8. WriteReview(p, new)
    BY <1>10, <2>1 DEF SyncWrite
  <2>9. review' = new /\ Finish(p) /\ UNCHANGED <<annual, changed, concern>>
    BY <1>1, <2>8
  <2>. QED  BY <1>0, <1>10, <2>2, <2>3, <2>4, <2>9 DEF IsLocked, Locked
<1>11. CASE FinaliseWrite(p)
  <2>1. PICK new : new = [review EXCEPT !.signoff = "FINALISED", !.status = "COMPLETED"]
    OBVIOUS
  <2>2. /\ new.row = review.row /\ new.status # "NONE" /\ new.signoff = "FINALISED"
        /\ new.manager = review.manager /\ new.hr = review.hr
    BY <1>2, <2>1 DEF Review
  <2>3. Answered /\ \A c \in Concerns : concern[c] # "RESOLVED"
    BY <1>0, <1>11 DEF FinaliseWrite, Suits
  <2>4. Steady => ~Flagged(Now)
    BY <2>3 DEF Flagged, Live, Now, Steady, Answered, Unanswered
  <2>5. Tells(new)
    BY <2>2, <2>3, <2>4 DEF Tells, Locked
  <2>8. WriteReview(p, new)
    BY <1>11, <2>1 DEF FinaliseWrite
  <2>9. review' = new /\ Finish(p) /\ UNCHANGED <<annual, changed, concern>>
    BY <1>1, <2>8
  <2>. QED  BY <1>0, <1>11, <2>2, <2>5, <2>9 DEF Lasts
<1>. QED  BY <1>3, <1>4, <1>5, <1>6, <1>7, <1>8, <1>9, <1>10, <1>11 DEF Writes

LEMMA WriteSafe ==
  ASSUME TypeInv, RowInv, OneAtATime, NEW p \in Procs, Handling(p), Writes(p)
  PROVE  RowInv' /\ Handling(p)'
<1>1. /\ pc'[p] = "idle" /\ annual' = annual /\ changed' = changed /\ concern' = concern
      /\ review'.status # "NONE" /\ Tells(review')
  BY ReviewWrites, TurnFacts
<1>2. Handling(p)'
  BY <1>1 DEF Handling
<1>3. RowInv'
  BY <1>1 DEF RowInv, Tells, Exists, IsLocked, Answered, Unanswered, Flagged, Live, Now, Steady
<1>. QED  BY <1>2, <1>3

-----------------------------------------------------------------------------
(* The other statements, and what the employee sees of each.               *)

PromiseStep ==
  \/ Promise!Raise \/ Promise!Answer \/ Promise!Dispute \/ Promise!AnswerFinally
  \/ Promise!Close \/ Promise!Sign \/ Promise!Renew

\* A statement that writes no row.
LEMMA QuietSafe ==
  ASSUME RowInv, OneAtATime, NEW p \in Procs, UNCHANGED rows,
         pc[p] \notin Unsettled \/ pc'[p] \in Unsettled \/ IsLocked
  PROVE  RowInv' /\ UNCHANGED Promise!vars
<1>1. annual' = annual /\ changed' = changed /\ review' = review /\ concern' = concern
  BY DEF rows, cycle
<1>2. \/ \A q \in Procs : pc[q] \notin Unsettled
      \/ ~ \A q \in Procs : pc'[q] \notin Unsettled
      \/ IsLocked
  BY DEF OneAtATime
<1>3. RowInv'
  BY <1>1, <1>2 DEF RowInv, Exists, IsLocked, Answered, Unanswered, Flagged, Live, Now, Steady
<1>. QED  BY <1>1, <1>3 DEF Promise!vars, IsLocked, Steady

\* A statement that writes one concern, in a handler that has the sign-off to
\* follow; over what is signed off, concerns are only closed.
LEMMA ConcernSafe ==
  ASSUME TypeInv, RowInv, NEW p \in Procs, Exists, UNCHANGED <<annual, changed, review>>,
         NEW c \in Concerns, NEW s \in ConcernStatus, concern' = [concern EXCEPT ![c] = s],
         Steady => pc'[p] \in Unsettled /\ (~IsLocked \/ s = "CLOSED")
  PROVE  RowInv'
<1>0. concern \in [Concerns -> ConcernStatus] /\ annual' = annual /\ changed' = changed /\ review' = review
  BY DEF TypeInv, RowsOK
<1>1. Exists'
  BY <1>0 DEF Exists
<1>2. ASSUME Steady, IsLocked, Answered PROVE Answered'
  BY <1>0, <1>2 DEF Answered, Unanswered
<1>3. ASSUME Steady, review.signoff = "FINALISED", ~Flagged(Now) PROVE ~Flagged(Now)'
  BY <1>0, <1>3 DEF Flagged, Live, Now, Steady, IsLocked, Locked
<1>. QED  BY <1>0, <1>1, <1>2, <1>3 DEF RowInv, IsLocked, Steady

LEMMA Moves ==
  ASSUME TypeInv, NEW c \in Concerns, NEW s, concern' = [concern EXCEPT ![c] = s],
         UNCHANGED <<annual, changed, review>>
  PROVE  /\ Steady => Promise!Move(concern[c], s)
         /\ ~Steady => UNCHANGED Promise!vars
BY DEF Promise!Move, Promise!vars, IsLocked, NoConcern, Steady

\* The review is created: another one begins, with no concerns.
LEMMA CreateSafe ==
  ASSUME TypeInv, RowInv, NEW p \in Procs, Create(p)
  PROVE  RowInv' /\ Handling(p)' /\ PromiseStep
<1>1. PICK new : new = [NoReview(review.row + 1) EXCEPT !.status = "DRAFT"]
  OBVIOUS
<1>2. new.row = review.row + 1 /\ new.status = "DRAFT" /\ new.signoff = "PENDING_RELEASE"
  BY <1>1 DEF NoReview
<1>3. /\ review' = new /\ concern' = concern /\ concern = NoConcern
      /\ annual' = annual /\ changed' = changed /\ pc' = pc /\ pc[p] = "idle"
  BY <1>1 DEF Create, RowInv, cycle
<1>4. ~Flagged(Now)'
  BY <1>3 DEF Flagged, Live, Now, Steady, NoConcern
<1>5. RowInv'
  BY <1>2, <1>3, <1>4 DEF RowInv, Exists, IsLocked, Locked
<1>6. Handling(p)'
  BY <1>3 DEF Handling
<1>7. Promise!Renew
  BY <1>2, <1>3 DEF Promise!Renew, NoConcern, IsLocked, Locked
<1>. QED  BY <1>5, <1>6, <1>7 DEF PromiseStep

LEMMA DeleteSafe ==
  ASSUME TypeInv, NEW p \in Procs, Handling(p), DeleteWrite(p)
  PROVE  RowInv' /\ Handling(p)' /\ PromiseStep /\ review'.status = "NONE"
<1>1. Current(p)
  BY DEF Handling, DeleteWrite, cycle
<1>2. PICK new : new = NoReview(review.row)
  OBVIOUS
<1>3. new.row = review.row /\ new.status = "NONE" /\ new.signoff = "PENDING_RELEASE"
  BY <1>2 DEF NoReview
<1>4. review' = new /\ concern' = NoConcern /\ annual' = annual /\ changed' = changed /\ pc'[p] = "idle"
  BY <1>1, <1>2, TurnFacts DEF DeleteWrite, cycle
<1>5. ~Flagged(Now)'
  BY <1>4 DEF Flagged, Live, Now, Steady, NoConcern
<1>6. RowInv'
  BY <1>3, <1>4, <1>5 DEF RowInv, Exists, IsLocked, Locked
<1>7. Promise!Renew
  BY <1>3, <1>4 DEF Promise!Renew, NoConcern, IsLocked, Locked
<1>. QED  BY <1>3, <1>4, <1>6, <1>7 DEF PromiseStep, Handling

\* A cycle whose frequency is changed has not always been annual.
LEMMA CycleSafe ==
  ASSUME RowInv, NEW p \in Procs, UpdateCycle(p)
  PROVE  RowInv' /\ Handling(p)' /\ PromiseStep /\ review' = review
<1>1. /\ changed' = TRUE /\ review' = review /\ concern' = concern /\ pc' = pc /\ pc[p] = "idle"
  BY DEF UpdateCycle
<1>2. ~Steady'
  BY <1>1 DEF Steady
<1>3. RowInv' /\ Handling(p)'
  BY <1>1, <1>2 DEF RowInv, Handling, Exists
<1>4. Promise!Renew
  BY <1>1, <1>2 DEF Promise!Renew, NoConcern
<1>. QED  BY <1>1, <1>3, <1>4 DEF PromiseStep

\* The statements that only look.
LEMMA LookSafe ==
  ASSUME TypeInv, RowInv, OneAtATime, NEW p \in Procs, Handling(p),
         AuditCount(p) \/ SyncRead(p) \/ FinaliseCount(p)
  PROVE  RowInv' /\ Handling(p)' /\ UNCHANGED Promise!vars /\ UNCHANGED rows
<1>0. /\ Current(p) /\ Suits(pc[p], arg[p]) /\ UNCHANGED rows
      /\ annual' = annual /\ changed' = changed /\ review' = review /\ concern' = concern
      /\ pc \in [Procs -> Stage] /\ seen \in [Procs -> Seen]
  BY DEF Handling, AuditCount, SyncRead, FinaliseCount, rows, TypeInv, FlightOK, cycle
<1>1. CASE AuditCount(p)
  <2>1. pc[p] = "auditCount" /\ seen[p] = Now /\ review.signoff # "RELEASED"
    BY <1>0, <1>1 DEF AuditCount, Handling, Suits
  <2>2. \/ pc'[p] = "idle"
        \/ pc'[p] = "auditWrite" /\ seen'[p] = seen[p] /\ Answered
    BY <1>1, TurnFacts DEF AuditCount
  <2>3. Handling(p)'
    BY <1>0, <2>1, <2>2 DEF Handling, Current, Exists, Now, Suits, Answered, Unanswered
  <2>. QED  BY <1>0, <2>1, <2>3, QuietSafe DEF Unsettled
<1>2. CASE SyncRead(p)
  <2>1. \/ pc'[p] = "idle" /\ IsLocked
        \/ pc'[p] = "syncWrite" /\ seen'[p] = Now /\ ~IsLocked
    <3>1. [Now EXCEPT !.annual = seen[p].annual] = Now
      BY <1>2 DEF SyncRead, Handling, Now
    <3>. QED  BY <1>0, <1>2, <3>1, TurnFacts DEF SyncRead
  <2>2. Handling(p)'
    BY <1>0, <2>1 DEF Handling, Current, Exists, Now, Suits, IsLocked
  <2>. QED  BY <1>0, <2>1, <2>2, QuietSafe DEF Unsettled
<1>3. CASE FinaliseCount(p)
  <2>1. pc[p] = "finaliseCount" /\ seen[p] = Now
    BY <1>3 DEF FinaliseCount, Handling
  <2>2. \/ pc'[p] = "idle"
        \/ pc'[p] = "finaliseClose" /\ seen'[p] = Now /\ Answered
    <3>1. [Now EXCEPT !.concern = concern] = Now
      BY DEF Now
    <3>. QED  BY <1>0, <1>3, <2>1, <3>1, TurnFacts DEF FinaliseCount
  <2>3. Handling(p)'
    BY <1>0, <2>1, <2>2 DEF Handling, Current, Exists, Now, Suits, Answered, Unanswered
  <2>. QED  BY <1>0, <2>1, <2>3, QuietSafe DEF Unsettled
<1>. QED  BY <1>0, <1>1, <1>2, <1>3

LEMMA RaiseSafe ==
  ASSUME TypeInv, RowInv, OneAtATime, NEW p \in Procs, Handling(p), RaiseCreate(p)
  PROVE  RowInv' /\ Handling(p)' /\ (PromiseStep \/ UNCHANGED Promise!vars) /\ review' = review
<1>0. /\ Current(p) /\ pc[p] = "raiseCreate" /\ ~IsLocked /\ arg[p].c \in Concerns
      /\ pc \in [Procs -> Stage] /\ concern \in [Concerns -> ConcernStatus]
  BY Held DEF Handling, RaiseCreate, Suits, TypeInv, FlightOK, RowsOK
<1>1. CASE concern[arg[p].c] = "NONE"
  <2>1. PICK c \in Concerns : c = arg[p].c
    BY <1>0
  <2>2. /\ concern' = [concern EXCEPT ![c] = "OPEN"] /\ concern[c] = "NONE"
        /\ annual' = annual /\ changed' = changed /\ review' = review
        /\ pc'[p] = "raiseFlag" /\ arg'[p] = arg[p] /\ seen'[p] = seen[p]
    BY <1>0, <1>1, <2>1, TurnFacts DEF RaiseCreate, WriteConcern, cycle
  <2>3. concern'[c] = "OPEN"
    BY <1>0, <2>2
  <2>4. RowInv'
    BY <1>0, <2>2, ConcernSafe DEF Unsettled, ConcernStatus, Current
  <2>5. Handling(p)'
    BY <1>0, <2>1, <2>2, <2>3 DEF Handling, Current, Exists, Suits, IsLocked
  <2>6. Promise!Move("NONE", "OPEN") \/ UNCHANGED Promise!vars
    BY <2>2, Moves
  <2>7. Promise!Raise \/ UNCHANGED Promise!vars
    BY <1>0, <2>6 DEF Promise!Raise
  <2>. QED  BY <2>2, <2>4, <2>5, <2>7 DEF PromiseStep
<1>2. CASE concern[arg[p].c] # "NONE"
  <2>1. pc'[p] = "idle" /\ UNCHANGED rows
    BY <1>2, TurnFacts DEF RaiseCreate
  <2>. QED  BY <1>0, <2>1, QuietSafe DEF Unsettled, Handling, rows, cycle
<1>. QED  BY <1>1, <1>2

LEMMA RespondSafe ==
  ASSUME TypeInv, RowInv, OneAtATime, NEW p \in Procs, Handling(p), RespondWrite(p)
  PROVE  RowInv' /\ Handling(p)' /\ (PromiseStep \/ UNCHANGED Promise!vars) /\ review' = review
<1>0. /\ Current(p) /\ pc[p] = "respondWrite" /\ arg[p].c \in Concerns
      /\ seen[p].concern = concern /\ seen[p].annual = annual
      /\ annual => arg[p].flag /\ concern[arg[p].c] \in {"OPEN", "ESCALATED"}
      /\ concern \in [Concerns -> ConcernStatus]
  BY Held DEF Handling, RespondWrite, Suits, Now, TypeInv, RowsOK
<1>1. PICK c \in Concerns : c = arg[p].c
  BY <1>0
<1>2. PICK s : s = IF arg[p].flag THEN AnswerOf(p) ELSE "OPEN"
  OBVIOUS
<1>3. /\ s \in ConcernStatus
      /\ annual => s = IF concern[c] = "ESCALATED" THEN "CLOSED" ELSE "RESOLVED"
  BY <1>0, <1>1, <1>2 DEF AnswerOf, ConcernStatus
<1>4. /\ concern' = [concern EXCEPT ![c] = s] /\ annual' = annual /\ changed' = changed /\ review' = review
      /\ IF arg[p].flag THEN Goto(p, "syncRead") ELSE Finish(p)
  BY <1>0, <1>1, <1>2 DEF RespondWrite, WriteConcern, cycle, Steady
<1>5. /\ pc'[p] = "idle" \/ (pc'[p] = "syncRead" /\ seen'[p] = seen[p] /\ arg'[p] = arg[p])
      /\ annual => pc'[p] = "syncRead"
  BY <1>0, <1>4, TurnFacts
<1>6. Steady => ~IsLocked
  BY <1>0, <1>1 DEF RowInv, Answered, Unanswered, Steady
<1>7. RowInv'
  BY <1>0, <1>3, <1>4, <1>5, <1>6, ConcernSafe DEF Unsettled, Current, Steady
<1>8. Handling(p)'
  BY <1>0, <1>4, <1>5 DEF Handling, Current, Exists, Suits
<1>9. CASE Steady
  <2>1. Promise!Move(concern[c], s) /\ ~(Steady /\ IsLocked)
    BY <1>4, <1>6, <1>9, Moves
  <2>2. Promise!Answer \/ Promise!AnswerFinally
    BY <1>0, <1>1, <1>3, <1>9, <2>1 DEF Promise!Answer, Promise!AnswerFinally, Steady
  <2>. QED  BY <1>4, <1>7, <1>8, <2>2 DEF PromiseStep
<1>10. CASE ~Steady
  BY <1>4, <1>7, <1>8, <1>10, Moves
<1>. QED  BY <1>9, <1>10

LEMMA DecideSafe ==
  ASSUME TypeInv, RowInv, OneAtATime, NEW p \in Procs, Handling(p), DecideWrite(p)
  PROVE  RowInv' /\ Handling(p)' /\ (PromiseStep \/ UNCHANGED Promise!vars) /\ review' = review
<1>0. /\ Current(p) /\ pc[p] = "decideWrite" /\ arg[p].c \in Concerns
      /\ annual /\ concern[arg[p].c] = "RESOLVED" /\ ~IsLocked
  BY Held DEF Handling, DecideWrite, Suits
<1>1. PICK c \in Concerns : c = arg[p].c
  BY <1>0
<1>2. PICK s \in {"CLOSED", "ESCALATED"} : s = IF arg[p].flag THEN "CLOSED" ELSE "ESCALATED"
  OBVIOUS
<1>3. /\ concern' = [concern EXCEPT ![c] = s] /\ annual' = annual /\ changed' = changed /\ review' = review
      /\ pc'[p] = "syncRead" /\ seen'[p] = seen[p]
  BY <1>0, <1>1, <1>2, TurnFacts DEF DecideWrite, WriteConcern, cycle
<1>4. RowInv'
  BY <1>0, <1>3, ConcernSafe DEF Unsettled, ConcernStatus, Current
<1>5. Handling(p)'
  BY <1>0, <1>3 DEF Handling, Current, Exists, Suits
<1>6. (Promise!Move("RESOLVED", s) \/ UNCHANGED Promise!vars) /\ ~(Steady /\ IsLocked)
  BY <1>0, <1>1, <1>3, Moves DEF Steady
<1>7. Promise!Close \/ Promise!Dispute \/ UNCHANGED Promise!vars
  BY <1>6 DEF Promise!Close, Promise!Dispute
<1>. QED  BY <1>3, <1>4, <1>5, <1>7 DEF PromiseStep

LEMMA CloseSafe ==
  ASSUME TypeInv, RowInv, OneAtATime, NEW p \in Procs, Handling(p), FinaliseClose(p)
  PROVE  RowInv' /\ Handling(p)' /\ (PromiseStep \/ UNCHANGED Promise!vars) /\ review' = review
<1>0. /\ Current(p) /\ pc[p] = "finaliseClose" /\ seen[p] = Now /\ Answered
      /\ seen \in [Procs -> Seen] /\ concern \in [Concerns -> ConcernStatus]
  BY DEF Handling, FinaliseClose, Suits, TypeInv, FlightOK, RowsOK
<1>1. seen[p].concern = concern
  BY <1>0 DEF Now
<1>2. CASE Goto(p, "finaliseWrite") /\ UNCHANGED rows /\ Awaiting(p) = {}
  <2>1. /\ pc'[p] = "finaliseWrite" /\ seen'[p] = seen[p] /\ arg'[p] = arg[p]
        /\ annual' = annual /\ changed' = changed /\ review' = review /\ concern' = concern
    BY <1>2, TurnFacts DEF rows, cycle
  <2>2. \A c \in Concerns : concern[c] # "RESOLVED"
    BY <1>1, <1>2 DEF Awaiting
  <2>3. Handling(p)'
    BY <1>0, <2>1, <2>2 DEF Handling, Current, Exists, Now, Suits, Answered, Unanswered
  <2>. QED  BY <1>2, <2>1, <2>3, QuietSafe DEF Unsettled
<1>3. ASSUME NEW c \in Concerns, concern[c] = "RESOLVED", WriteConcern(p, c, "CLOSED"),
             seen' = [seen EXCEPT ![p].concern[c] = "CLOSED"], UNCHANGED <<pc, arg>>
      PROVE  RowInv' /\ Handling(p)' /\ (PromiseStep \/ UNCHANGED Promise!vars) /\ review' = review
  <2>1. /\ concern' = [concern EXCEPT ![c] = "CLOSED"] /\ annual' = annual /\ changed' = changed /\ review' = review
        /\ pc' = pc /\ arg' = arg
    BY <1>3 DEF WriteConcern, cycle
  <2>2. seen'[p] = [annual |-> annual, review |-> review, concern |-> concern']
    <3>1. seen'[p] = [seen[p] EXCEPT !.concern = [seen[p].concern EXCEPT ![c] = "CLOSED"]]
      BY <1>0, <1>3
    <3>. QED  BY <1>0, <1>1, <2>1, <3>1 DEF Now
  <2>3. Answered'
    BY <1>0, <2>1 DEF Answered, Unanswered
  <2>4. Handling(p)'
    BY <1>0, <2>1, <2>2, <2>3 DEF Handling, Current, Exists, Now, Suits
  <2>5. RowInv'
    BY <1>0, <2>1, ConcernSafe DEF Unsettled, ConcernStatus, Current
  <2>6. Promise!Move("RESOLVED", "CLOSED") \/ UNCHANGED Promise!vars
    BY <1>3, <2>1, Moves
  <2>. QED  BY <2>1, <2>4, <2>5, <2>6 DEF PromiseStep, Promise!Close
<1>. QED  BY <1>0, <1>1, <1>2, <1>3 DEF FinaliseClose, Awaiting

-----------------------------------------------------------------------------
(* A step, whichever it is.                                                *)

LEMMA SafeStep ==
  ASSUME OneAtATime, Safe, NEW p \in Procs, Step(p)
  PROVE  /\ Safe' /\ (PromiseStep \/ UNCHANGED Promise!vars)
         /\ (review.signoff = "RELEASED" /\ review'.row = review.row /\ review'.status # "NONE")
              => review' = review \/ Lasts(p)
<1>0. TypeInv /\ RowInv /\ Handling(p) /\ TypeInv'
  BY TypeStep DEF Safe, Next
<1>1. SUFFICES /\ RowInv' /\ Handling(p)' /\ (PromiseStep \/ UNCHANGED Promise!vars)
               /\ (review.signoff = "RELEASED" /\ review'.row = review.row
                     /\ review'.status # "NONE")
                    => review' = review \/ Lasts(p)
  <2>1. ASSUME Handling(p)' PROVE \A q \in Procs : Handling(q)'
    BY <2>1 DEF OneAtATime
  <2>. QED  BY <1>0, <2>1 DEF Safe
<1>2. CASE Writes(p)
  <2>1. RowInv' /\ Handling(p)'
    BY <1>0, <1>2, WriteSafe
  <2>2. annual' = annual /\ changed' = changed /\ concern' = concern /\ review'.row = review.row /\ Tells(review')
    BY <1>0, <1>2, ReviewWrites
  <2>3. CASE (Steady /\ IsLocked)' = (Steady /\ IsLocked)
    BY <1>0, <1>2, <2>1, <2>2, <2>3, ReviewWrites DEF Promise!vars, Steady
  <2>4. CASE (Steady /\ IsLocked)' # (Steady /\ IsLocked)
    <3>1. Answered /\ Steady
      BY <1>0, <2>2, <2>4 DEF Tells, IsLocked, RowInv, Steady
    <3>2. Promise!Sign
      BY <2>2, <3>1 DEF Promise!Sign, Answered, Unanswered, IsLocked, Steady
    <3>. QED  BY <1>0, <1>2, <2>1, <3>2, ReviewWrites DEF PromiseStep
  <2>. QED  BY <2>3, <2>4
<1>3. CASE Create(p)
  BY <1>0, <1>3, CreateSafe DEF Create, RowInv, cycle
<1>4. CASE DeleteWrite(p)
  BY <1>0, <1>4, DeleteSafe
<1>5. CASE AuditCount(p) \/ SyncRead(p) \/ FinaliseCount(p)
  BY <1>0, <1>5, LookSafe DEF rows, cycle
<1>6. CASE RaiseCreate(p) \/ RespondWrite(p) \/ DecideWrite(p) \/ FinaliseClose(p)
  BY <1>0, <1>6, RaiseSafe, RespondSafe, DecideSafe, CloseSafe
<1>8. CASE UpdateCycle(p)
  BY <1>0, <1>8, CycleSafe
<1>7. CASE ~(\/ Writes(p) \/ UpdateCycle(p) \/ Create(p) \/ DeleteWrite(p) \/ AuditCount(p) \/ SyncRead(p)
             \/ FinaliseCount(p) \/ RaiseCreate(p) \/ RespondWrite(p) \/ DecideWrite(p)
             \/ FinaliseClose(p))
  <2>1. RowInv' /\ Handling(p)'
    BY <1>0, <1>7, StepKinds, AskSafe DEF Writes
  <2>2. UNCHANGED rows
    BY <1>7, StepKinds DEF Writes, Delete, Lock, Finalise, SelfSave, ManagerReview, Audit,
       Share, Edit, Raise, Respond, Decide, Begin
  <2>. QED  BY <2>1, <2>2 DEF rows, Promise!vars, IsLocked, cycle, Steady
<1>. QED  BY <1>2, <1>3, <1>4, <1>5, <1>6, <1>7, <1>8

LEMMA SafeNext == ASSUME OneAtATime PROVE Safe /\ [Next]_vars => Safe'
<1>. SUFFICES ASSUME Safe, [Next]_vars PROVE Safe'
  OBVIOUS
<1>1. CASE Next
  BY <1>1, SafeStep DEF Next
<1>2. CASE UNCHANGED vars
  <2>1. TypeInv'
    BY TypeStep DEF Safe
  <2>2. /\ annual' = annual /\ changed' = changed /\ review' = review /\ concern' = concern
        /\ pc' = pc /\ arg' = arg /\ seen' = seen
    BY <1>2 DEF vars, cycle, rows
  <2>3. RowInv'
    BY <2>2 DEF Safe, RowInv, Exists, IsLocked, Answered, Unanswered, Flagged, Live, Now, Steady
  <2>4. ASSUME NEW p \in Procs PROVE Handling(p)'
    BY <2>2 DEF Safe, Handling, Current, Exists, Now, Suits, IsLocked, Answered, Unanswered
  <2>. QED  BY <2>1, <2>3, <2>4 DEF Safe
<1>. QED  BY <1>1, <1>2

LEMMA SafeInit == Init => Safe
<1>. SUFFICES ASSUME Init PROVE Safe
  OBVIOUS
<1>1. review.signoff = "PENDING_RELEASE" /\ concern = NoConcern
  BY DEF Init, NoReview
<1>2. ~Flagged(Now)
  BY <1>1 DEF Flagged, Live, Now, Steady, NoConcern
<1>3. RowInv
  BY <1>1, <1>2 DEF RowInv, IsLocked, Locked
<1>. QED  BY <1>3, TypeInit DEF Safe, Init, Handling

-----------------------------------------------------------------------------
(* The theorems.                                                           *)

\* Handlers that run one at a time never lock the ratings of an annual review,
\* nor leave them locked, over a concern that waits for HR: neither the audit's
\* release nor a finalisation, and no answer, dispute or reopening after it.
THEOREM NothingUnansweredAlways ==
  ASSUME OneAtATime
  PROVE  Spec => []NothingUnansweredWhenLocked
<1>1. Safe => NothingUnansweredWhenLocked
  BY DEF Safe, RowInv, NothingUnansweredWhenLocked, Answered
<1>2. Safe /\ [Next]_vars => Safe'
  BY SafeNext
<1>. QED  BY <1>1, <1>2, SafeInit, PTL DEF Spec

\* Handlers that run one at a time leave, whenever none is in flight, a sign-off
\* that says CONCERN_RAISED exactly when a concern is live.
THEOREM SignoffAlwaysTells ==
  ASSUME OneAtATime
  PROVE  Spec => []SignoffTellsConcerns
<1>1. Safe => SignoffTellsConcerns
  BY DEF Safe, RowInv, SignoffTellsConcerns, AtRest, Unsettled
<1>2. Safe /\ [Next]_vars => Safe'
  BY SafeNext
<1>. QED  BY <1>1, <1>2, SafeInit, PTL DEF Spec

\* Handlers that run one at a time end a release by the final sign-off only, and
\* until then change no rating of it but, by a direct edit, the manager's.
THEOREM ReleaseAlwaysLasts ==
  ASSUME OneAtATime
  PROVE  Spec => ReleaseLastsToSignoff
<1>1. Safe /\ [Next]_vars
        => [review.signoff = "RELEASED" /\ review'.row = review.row /\ review'.status # "NONE"
            => /\ review'.hr = review.hr
               /\ review'.signoff = "RELEASED" \/ \E p \in Procs : FinaliseWrite(p) \/ LockWrite(p)
               /\ review'.manager = review.manager \/ \E p \in Procs : EditWrite(p)]_vars
  <2>1. ASSUME Safe, NEW p \in Procs, Step(p), review.signoff = "RELEASED",
               review'.row = review.row, review'.status # "NONE"
        PROVE  review' = review \/ Lasts(p)
    BY <2>1, SafeStep
  <2>. QED  BY <2>1 DEF Next, Lasts
<1>2. Safe /\ [Next]_vars => Safe'
  BY SafeNext
<1>. QED  BY <1>1, <1>2, SafeInit, PTL DEF Spec, ReleaseLastsToSignoff

\* Handlers that run one at a time keep ConcernProcess: every statement is a
\* step of the promised process, or none that the employee sees.
THEOREM ConcernsAlwaysKeepTheirPromise ==
  ASSUME OneAtATime
  PROVE  Spec => ConcernsKeepTheirPromise
<1>1. Init => Promise!Init
  BY DEF Init, Promise!Init, NoReview, NoConcern, IsLocked, Locked
<1>2. Safe /\ [Next]_vars => [PromiseStep]_(Promise!vars)
  <2>1. ASSUME Safe, Next PROVE PromiseStep \/ UNCHANGED Promise!vars
    BY <2>1, SafeStep DEF Next
  <2>2. ASSUME UNCHANGED vars PROVE UNCHANGED Promise!vars
    BY <2>2 DEF vars, Promise!vars, IsLocked, cycle, Steady, rows
  <2>. QED  BY <2>1, <2>2
<1>3. Safe /\ [Next]_vars => Safe'
  BY SafeNext
<1>. QED  BY <1>1, <1>2, <1>3, SafeInit, PTL
          DEF Spec, ConcernsKeepTheirPromise, Promise!Spec, PromiseStep
=============================================================================
