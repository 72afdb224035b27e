------------------------------ MODULE MCLeave ------------------------------
(* An instance of Leave for TLC.                                           *)
EXTENDS Leave, TLC

CONSTANTS r1, r2, r3, r4, casual, special, unpaid, wfh, p

Ask(t, first, last, part) == [type |-> t, first |-> first, last |-> last, part |-> part]

\* Days 1 and 2 are a weekend, and year 1 ends with day 3.  Two halves of that day,
\* of two types, a leave of the weekend, and work from home from that day into the
\* next year.
Mixed == (r1 :> Ask(casual, 3, 3, "FIRST_HALF")) @@ (r2 :> Ask(unpaid, 3, 3, "SECOND_HALF"))
        @@ (r3 :> Ask(special, 1, 2, "FULL")) @@ (r4 :> Ask(wfh, 3, 4, "FULL"))

\* The name of casual occurs in the name of special, and what special takes of the
\* one day of casual leaves no half-day.
PartOfName == [t \in Types |-> IF t = casual THEN {casual, special} ELSE {t}]
OneDay == [t \in Types |-> CASE t = casual -> 2 [] t = unpaid -> 0 [] OTHER -> 4]
WfhAccount == {<<wfh, 1>>}
=============================================================================
