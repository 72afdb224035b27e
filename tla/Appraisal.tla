----------------------------- MODULE Appraisal -----------------------------
(***************************************************************************)
(* The review of one employee in one appraisal cycle                       *)
(* (appraisal.controller.js, periodicAppraisal.controller.js) and the      *)
(* concerns he raises about it.                                            *)
(*                                                                         *)
(* The sign-off status of the review repeats what the concerns say: a      *)
(* handler writes a concern, and then counts concerns and writes the       *)
(* review.  No two statements are one transaction.                         *)
(***************************************************************************)
EXTENDS Integers, FiniteSets

CONSTANTS
  Procs,     \* HTTP requests in flight
  Concerns,  \* the concerns that may be raised about a review
  Ratings,   \* what a manager or HR may give; 0 is no rating
  MaxRows    \* bound: reviews created, one after the other

ASSUME AppraisalConstants ==
  /\ Ratings \subseteq Nat \ {0} /\ MaxRows \in Nat
  /\ IsFiniteSet(Concerns) /\ Concerns # {}

VARIABLES
  annual,    \* the cycle is annual, not monthly or quarterly
  changed,   \* history: HR has changed its frequency
  review,    \* performance_reviews: the row, numbered, at most one at a time
  concern,   \* review_concerns: the status of each
  pc, arg, seen  \* the requests in flight, their parameters, what they have read

cycle == <<annual, changed>>
rows == <<cycle, review, concern>>
vars == <<rows, pc, arg, seen>>

Reviewed == {"MANAGER_REVIEWED", "COMPLETED"}
Status == {"NONE", "DRAFT", "SUBMITTED"} \cup Reviewed
Locked == {"FINALISED", "RELEASED"}
Signoff == {"PENDING_RELEASE", "SHARED", "CONCERN_RAISED"} \cup Locked
Rating == Ratings \cup {0}
ConcernStatus == {"NONE", "OPEN", "RESOLVED", "ESCALATED", "CLOSED"}
Review == [row : Nat, status : Status, signoff : Signoff, shared : BOOLEAN,
           manager : Rating, hr : Rating]
Stage == {"idle", "selfWrite", "managerWrite", "auditCount", "auditWrite", "shareWrite",
          "raiseCreate", "raiseFlag", "respondWrite", "decideWrite", "syncRead", "syncWrite",
          "finaliseCount", "finaliseClose", "finaliseWrite", "lockWrite", "editWrite",
          "deleteWrite"}
Arg == [c : Concerns, flag : BOOLEAN, rating : Rating, to : Signoff \cup Status]
Seen == [annual : BOOLEAN, review : Review, concern : [Concerns -> ConcernStatus]]

NoReview(n) == [row |-> n, status |-> "NONE", signoff |-> "PENDING_RELEASE", shared |-> FALSE,
                manager |-> 0, hr |-> 0]
NoConcern == [c \in Concerns |-> "NONE"]
NoArg == [c |-> CHOOSE c \in Concerns : TRUE, flag |-> FALSE, rating |-> 0, to |-> "NONE"]
NothingSeen == [annual |-> FALSE, review |-> NoReview(0), concern |-> NoConcern]

\* The state is of these types.
TypeOK ==
  /\ annual \in BOOLEAN /\ changed \in BOOLEAN /\ review \in Review
  /\ concern \in [Concerns -> ConcernStatus]
  /\ pc \in [Procs -> Stage] /\ arg \in [Procs -> Arg] /\ seen \in [Procs -> Seen]

Init ==
  /\ annual \in BOOLEAN /\ changed = FALSE /\ review = NoReview(0) /\ concern = NoConcern
  /\ pc = [p \in Procs |-> "idle"]
  /\ arg = [p \in Procs |-> NoArg]
  /\ seen = [p \in Procs |-> NothingSeen]

-----------------------------------------------------------------------------
(* Requests in flight.                                                     *)

Exists == review.status # "NONE"
Now == [annual |-> annual, review |-> review, concern |-> concern]

\* A request that its first read lets through, to its next statement.
Begin(p, stage, a) ==
  /\ pc[p] = "idle" /\ Exists
  /\ pc' = [pc EXCEPT ![p] = stage]
  /\ arg' = [arg EXCEPT ![p] = a]
  /\ seen' = [seen EXCEPT ![p] = Now]
  /\ UNCHANGED rows

Goto(p, stage) == pc' = [pc EXCEPT ![p] = stage] /\ UNCHANGED <<arg, seen>>

Finish(p) ==
  /\ pc' = [pc EXCEPT ![p] = "idle"]
  /\ arg' = [arg EXCEPT ![p] = NoArg]
  /\ seen' = [seen EXCEPT ![p] = NothingSeen]

\* The row that was read is still there: a write to it by id fails otherwise.
Current(p) == Exists /\ review.row = seen[p].review.row

\* annualStageBlock: first the employee, then the manager, then HR.
ManagerTurn == annual => review.status \notin {"NONE", "DRAFT"}
HrTurn == annual => review.status \in Reviewed

IsLocked == review.signoff \in Locked
\* Concerns that HR has yet to answer.
Unanswered(table) == {c \in Concerns : table[c] \in {"OPEN", "ESCALATED"}}

\* Statements that write the review, and nothing else, and end the request.
WriteReview(p, new) ==
  /\ review' = IF Current(p) THEN new ELSE review
  /\ Finish(p)
  /\ UNCHANGED <<cycle, concern>>

WriteConcern(p, c, status) ==
  /\ concern' = [concern EXCEPT ![c] = status]
  /\ UNCHANGED <<cycle, review>>

\* What a request sets only if the rating came with it.
Given(rating, old) == IF rating = 0 THEN old ELSE rating

-----------------------------------------------------------------------------
(* The review is created, filled in by the employee, and deleted.          *)

\* getOrCreateReview
Create(p) ==
  /\ pc[p] = "idle" /\ ~Exists
  /\ review' = [NoReview(review.row + 1) EXCEPT !.status = "DRAFT"]
  /\ UNCHANGED <<cycle, concern, pc, arg, seen>>

\* updateCycle, where it changes the frequency: of a cycle with reviews, as well.
UpdateCycle(p) ==
  /\ pc[p] = "idle" /\ annual' = ~annual /\ changed' = TRUE
  /\ UNCHANGED <<review, concern, pc, arg, seen>>

SelfOpen == review.status \notin Reviewed /\ review.signoff # "RELEASED"

\* saveSelfAssessment; flag: submitted, not just saved.
SelfSave(p, submit) == SelfOpen /\ Begin(p, "selfWrite", [NoArg EXCEPT !.flag = submit])

SelfWrite(p) ==
  /\ pc[p] = "selfWrite"
  /\ WriteReview(p, [review EXCEPT !.status = IF arg[p].flag THEN "SUBMITTED" ELSE @])

\* deleteReview, by those whose role allows it; the concerns go with the row.
Delete(p) == review.row < MaxRows /\ Begin(p, "deleteWrite", NoArg)

DeleteWrite(p) ==
  /\ pc[p] = "deleteWrite"
  /\ IF Current(p) THEN review' = NoReview(review.row) /\ concern' = NoConcern
     ELSE UNCHANGED <<review, concern>>
  /\ Finish(p) /\ UNCHANGED cycle

-----------------------------------------------------------------------------
(* The manager's review, and HR's.                                         *)

\* (mutant) A completed review is open to the manager until it is released.
ManagerUntilReleased == annual /\ ManagerTurn
\* updateManagerReview: annual reviews only, and not after HR is done.
ManagerMay ==
  annual /\ review.signoff # "RELEASED" /\ review.status # "COMPLETED" /\ ManagerTurn

ManagerReview(p, rating, submit) ==
  ManagerMay /\ Begin(p, "managerWrite", [NoArg EXCEPT !.flag = submit, !.rating = rating])

ManagerWrite(p) ==
  /\ pc[p] = "managerWrite"
  /\ WriteReview(p, [review EXCEPT
       !.manager = Given(arg[p].rating, seen[p].review.manager),
       !.status = IF arg[p].flag \/ seen[p].review.status = "MANAGER_REVIEWED"
                   THEN "MANAGER_REVIEWED" ELSE @])

\* updateHrAuditReview: a review that is FINALISED, but not RELEASED, is let through.
Audit(p, rating, to) ==
  /\ review.signoff # "RELEASED" /\ HrTurn
  /\ Begin(p, IF to = "RELEASED" THEN "auditCount" ELSE "auditWrite",
           [NoArg EXCEPT !.rating = rating, !.to = to])

\* (mutant) Only concerns that were never answered stand in the way.
BlockedByOpen == \A c \in Concerns : concern[c] # "OPEN"
\* Nothing may be released or finalised over a concern that waits for HR.
Answered == Unanswered(concern) = {}

AuditCount(p) ==
  /\ pc[p] = "auditCount"
  /\ IF Answered THEN Goto(p, "auditWrite") ELSE Finish(p)
  /\ UNCHANGED rows

\* (mutant) A plain save resets the sign-off.
NothingKept(was) == FALSE
\* "A plain save must not undo shared or concern raised."
Kept(was) == was \in {"SHARED", "CONCERN_RAISED"}

AuditSignoff(p) ==
  IF arg[p].to = "NONE" \/ (arg[p].to = "PENDING_RELEASE" /\ Kept(seen[p].review.signoff))
  THEN review.signoff ELSE arg[p].to

AuditWrite(p) ==
  /\ pc[p] = "auditWrite"
  /\ WriteReview(p, [review EXCEPT
       !.hr = Given(arg[p].rating, @), !.signoff = AuditSignoff(p),
       !.status = IF arg[p].to = "RELEASED" THEN "COMPLETED" ELSE @])

\* shareReviewResults
Share(p, rating) ==
  /\ ~IsLocked /\ HrTurn
  /\ Begin(p, "shareWrite", [NoArg EXCEPT !.rating = rating])

ShareWrite(p) ==
  /\ pc[p] = "shareWrite"
  /\ WriteReview(p, [review EXCEPT
       !.hr = Given(arg[p].rating, @), !.shared = TRUE,
       !.signoff = IF seen[p].review.signoff = "CONCERN_RAISED" THEN "CONCERN_RAISED" ELSE "SHARED"])

\* hrReviewPeriodicAppraisal that locks; a comment alone changes nothing here.
\* It looks at no concern.
Lock(p) ==
  /\ ~annual /\ review.status \in {"SUBMITTED", "MANAGER_REVIEWED"}
  /\ Begin(p, "lockWrite", NoArg)

LockWrite(p) ==
  /\ pc[p] = "lockWrite"
  /\ WriteReview(p, [review EXCEPT !.status = "COMPLETED", !.signoff = "FINALISED"])

\* updateReview by an elevated role: any status, and the manager's rating
\* (or the owner, between DRAFT and SUBMITTED, which SelfSave and this cover).
Edit(p, rating, to) ==
  /\ rating # 0 => ManagerTurn
  /\ Begin(p, "editWrite", [NoArg EXCEPT !.rating = rating, !.to = to])

EditWrite(p) ==
  /\ pc[p] = "editWrite"
  /\ WriteReview(p, [review EXCEPT
       !.manager = Given(arg[p].rating, @),
       !.status = IF arg[p].to = "NONE" THEN @ ELSE arg[p].to])

-----------------------------------------------------------------------------
(* Concerns.                                                               *)

\* raiseReviewConcern
Raise(p, c) ==
  /\ concern[c] = "NONE" /\ ~IsLocked
  /\ annual => review.status \in Reviewed
  /\ Begin(p, "raiseCreate", [NoArg EXCEPT !.c = c])

RaiseCreate(p) ==
  /\ pc[p] = "raiseCreate"
  /\ IF Current(p) /\ concern[arg[p].c] = "NONE"
     THEN WriteConcern(p, arg[p].c, "OPEN") /\ Goto(p, "raiseFlag")
     ELSE Finish(p) /\ UNCHANGED rows

RaiseFlag(p) ==
  /\ pc[p] = "raiseFlag"
  /\ WriteReview(p, [review EXCEPT !.signoff = "CONCERN_RAISED"])

\* respondReviewConcern, where it decides: HR on an annual review, and either
\* HR or the manager on another (flag: markResolved).  Notes and the manager's
\* side change no status.
Respond(p, c, resolved) ==
  /\ concern[c] # "NONE"
  /\ IF annual THEN resolved /\ concern[c] \in {"OPEN", "ESCALATED"} ELSE TRUE
  /\ Begin(p, "respondWrite", [NoArg EXCEPT !.c = c, !.flag = resolved])

\* (mutant) The answer to a dispute goes back to the employee.
NeverFinal(p) == "RESOLVED"
\* (mutant) A status that the column does not have.
AnswerMisnamed(p) == "ANSWERED"
\* An answer to what was escalated is final.
AnswerOf(p) ==
  IF seen[p].annual /\ seen[p].concern[arg[p].c] = "ESCALATED" THEN "CLOSED" ELSE "RESOLVED"

RespondWrite(p) ==
  /\ pc[p] = "respondWrite"
  /\ LET c == arg[p].c IN
     IF ~Current(p) THEN Finish(p) /\ UNCHANGED rows
     ELSE /\ WriteConcern(p, c, IF arg[p].flag THEN AnswerOf(p) ELSE "OPEN")
          /\ IF arg[p].flag THEN Goto(p, "syncRead") ELSE Finish(p)

\* decideReviewConcern; flag: accepted, otherwise disputed and escalated.
Decide(p, c, accept) ==
  /\ annual /\ concern[c] = "RESOLVED" /\ ~IsLocked
  /\ Begin(p, "decideWrite", [NoArg EXCEPT !.c = c, !.flag = accept])

DecideWrite(p) ==
  /\ pc[p] = "decideWrite"
  /\ IF Current(p)
     THEN /\ WriteConcern(p, arg[p].c, IF arg[p].flag THEN "CLOSED" ELSE "ESCALATED")
          /\ Goto(p, "syncRead")
     ELSE Finish(p) /\ UNCHANGED rows

\* Which concerns keep the review flagged.
Live(yearly) == IF yearly THEN {"OPEN", "RESOLVED", "ESCALATED"} ELSE {"OPEN"}
Flagged(s) == \E c \in Concerns : s.concern[c] \in Live(s.annual)

\* syncConcernStatus: the fresh read, then the count; the cycle is as first read.
SyncRead(p) ==
  /\ pc[p] = "syncRead"
  /\ IF Current(p) /\ ~IsLocked
     THEN /\ pc' = [pc EXCEPT ![p] = "syncWrite"]
          /\ seen' = [seen EXCEPT ![p] = [Now EXCEPT !.annual = seen[p].annual]] /\ UNCHANGED arg
     ELSE Finish(p)
  /\ UNCHANGED rows

SyncWrite(p) ==
  /\ pc[p] = "syncWrite"
  /\ WriteReview(p, [review EXCEPT
       !.signoff = IF Flagged(seen[p]) THEN "CONCERN_RAISED"
                    ELSE IF seen[p].review.shared THEN "SHARED" ELSE "PENDING_RELEASE"])

-----------------------------------------------------------------------------
(* finaliseReview: what waits for the employee is closed, one by one.      *)

Finalise(p) == HrTurn /\ Begin(p, "finaliseCount", NoArg)

FinaliseCount(p) ==
  /\ pc[p] = "finaliseCount"
  /\ IF Answered
     THEN /\ pc' = [pc EXCEPT ![p] = "finaliseClose"]
          /\ seen' = [seen EXCEPT ![p].concern = concern] /\ UNCHANGED arg
     ELSE Finish(p)
  /\ UNCHANGED rows

Awaiting(p) == {c \in Concerns : seen[p].concern[c] = "RESOLVED"}

FinaliseClose(p) ==
  /\ pc[p] = "finaliseClose"
  /\ IF Awaiting(p) = {} THEN Goto(p, "finaliseWrite") /\ UNCHANGED rows
     ELSE IF ~Current(p) THEN Finish(p) /\ UNCHANGED rows
     ELSE \E c \in Awaiting(p) :
            /\ WriteConcern(p, c, "CLOSED")
            /\ seen' = [seen EXCEPT ![p].concern[c] = "CLOSED"]
            /\ UNCHANGED <<pc, arg>>

FinaliseWrite(p) ==
  /\ pc[p] = "finaliseWrite"
  /\ WriteReview(p, [review EXCEPT !.signoff = "FINALISED", !.status = "COMPLETED"])

-----------------------------------------------------------------------------

Step(p) ==
  \/ UpdateCycle(p) \/ Create(p) \/ Delete(p) \/ DeleteWrite(p)
  \/ \E submit \in BOOLEAN : SelfSave(p, submit)
  \/ \E submit \in BOOLEAN, rating \in Rating : ManagerReview(p, rating, submit)
  \/ \E rating \in Rating, to \in {"NONE", "PENDING_RELEASE", "RELEASED"} : Audit(p, rating, to)
  \/ \E rating \in Rating : Share(p, rating)
  \/ \E rating \in Rating, to \in Status : Edit(p, rating, to)
  \/ SelfWrite(p) \/ ManagerWrite(p) \/ AuditCount(p) \/ AuditWrite(p) \/ ShareWrite(p)
  \/ Lock(p) \/ LockWrite(p) \/ EditWrite(p)
  \/ \E c \in Concerns : Raise(p, c)
  \/ \E c \in Concerns, flag \in BOOLEAN : Respond(p, c, flag) \/ Decide(p, c, flag)
  \/ RaiseCreate(p) \/ RaiseFlag(p) \/ RespondWrite(p) \/ DecideWrite(p)
  \/ SyncRead(p) \/ SyncWrite(p)
  \/ Finalise(p) \/ FinaliseCount(p) \/ FinaliseClose(p) \/ FinaliseWrite(p)

Next == \E p \in Procs : Step(p)

Spec == Init /\ [][Next]_vars

-----------------------------------------------------------------------------
(* Properties.                                                             *)

AtRest == \A p \in Procs : pc[p] = "idle"
\* The review is annual and has always been.
Steady == annual /\ ~changed

\* An annual review whose ratings are locked leaves no concern of the employee
\* waiting for HR (updateHrAuditReview, finaliseReview), in spite of answers,
\* disputes and late releases.  One request at a time.
NothingUnansweredWhenLocked == Steady /\ IsLocked => Unanswered(concern) = {}

\* Between requests the sign-off status of an annual review that is not locked says
\* whether a concern is live (syncConcernStatus, shareReviewResults, the plain
\* save of an audit).  One request at a time.
SignoffTellsConcerns ==
  Steady /\ AtRest /\ ~IsLocked => (review.signoff = "CONCERN_RAISED" <=> Flagged(Now))

\* A release ends with the final sign-off and with nothing else; until then HR's
\* rating stays what it was, and the manager's as well but for a direct edit of the
\* review (updateHrAuditReview: "irreversible once RELEASED", updateManagerReview,
\* shareReviewResults, syncConcernStatus).  It says nothing of the time after:
\* finaliseReview takes a released review, and an audit opens a finalised one again,
\* with another rating.  One request at a time.
ReleaseLastsToSignoff ==
  [][review.signoff = "RELEASED" /\ review'.row = review.row /\ review'.status # "NONE"
     => /\ review'.hr = review.hr
        /\ review'.signoff = "RELEASED" \/ \E p \in Procs : FinaliseWrite(p) \/ LockWrite(p)
        /\ review'.manager = review.manager \/ \E p \in Procs : EditWrite(p)]_vars

=============================================================================
