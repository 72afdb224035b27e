---------------------------- MODULE MCAppraisal ----------------------------
(* One review of an employee, one request at a time.                       *)
EXTENDS Appraisal

\* The concerns of a review that is annual throughout, as the employee sees them.
Promise == INSTANCE ConcernProcess WITH
  concern <- IF Steady THEN concern ELSE NoConcern,
  locked <- Steady /\ IsLocked, row <- review.row

\* Concerns on such reviews keep to ConcernProcess, whatever reviews, audits,
\* releases and deletions come between (respondReviewConcern, decideReviewConcern,
\* finaliseReview).  One request at a time.
ConcernsKeepTheirPromise == Promise!Spec
=============================================================================
