# A TLA+ model of ueibi-service

`ueibi-service` is the back end of a multi-tenant HR product: an Express server
over PostgreSQL (Prisma), with Socket.IO, mail, and Kafka projections to
MongoDB for chat and gallery. This directory holds TLA+ modules of its core
logic, TLC configurations that check them on small instances, and theorems
checked by TLAPS. Paths below are relative to `src/src/`.

Contents: [inventory](#1-inventory) - [how the code is modelled](#2-how-the-code-is-modelled) -
[modules](#3-the-modules) - [runs](#4-the-runs) - [proofs](#5-the-proofs) -
[what is not covered](#6-what-is-not-covered) - [plan](#7-plan).

## 1. Inventory

Everything the components share is in PostgreSQL. A handler is a sequence of
awaited Prisma calls; between two of them every other request may run, on the
same server process or another. 73 places use `$transaction`, at PostgreSQL's
default READ COMMITTED, so a transaction makes writes atomic but its reads do not
exclude other writers. Only `services/goalWeight.service.js:285` runs at
Serializable (and retries P2034), and only `controllers/auth.controller.js`
(password reset) locks a row it has read (`FOR UPDATE`). There are no version
columns; a few guards are left to unique columns (`subscriptions.renewedFromId`,
`exit_details.userId`, e-mail addresses, invoice numbers).

The hard behaviours are therefore of one kind more than any other: a value is
read, checked, carried across awaits and written unconditionally. Others are
partial failure of sequences that are not one transaction, retries of what was
half done, counters kept beside the rows they count, several copies of one fact
(the manager's clearance, the seat limit, the wallet), and long legal sequences
of decisions and their revocations.

| Component | State | Operations | Interacts with | Correct when |
|---|---|---|---|---|
| **Licensing** (`services/license.service.js`, parts of `employee`, `platform`, `auth`, `hr` controllers) | account status and `isDeleted`, `licenseLimit`, `creditBalance`, subscriptions, licence requests, wallet ledger | invite, bulk invite, log in, exit, block, reactivate, restore, retract, request/pay/reject/buy licences, renew, end of a term, operator's limit and (de)activation | Exit and Auth write account status; Billing prices; Invoices; Platform subscriptions | never more accounts than seats; wallet = ledger; a renewal replaces a term, never adds one; a paid request stays paid and has its seats |
| **Leave and WFH** (`services/leave.service.js`) | requests with two stamps, balance counters, types and policy | submit, manager/HR/admin decision, revoke, cancel, adjust, edit, toggle and delete a type | work schedule (working days), holidays, notifications | counters = requests; decided once; no double booking; allowance respected; no orphaned request |
| **Exit and clearance** (`controllers/exit.controller.js`, `services/exitClearance.service.js`) | exit row, five clearance rows, JSON remarks, account, ex-employee records | initiate, interview, approve/revoke clearance and sub-step, block access, complete (override), certificates and e-mail | Licensing (account status), dispatch, handover goals | ready only when all is cleared; in order; the three copies of the manager's clearance agree; settlement follows Finance; filed once; a completed exit is final |
| Exit document dispatch (`services/exitDispatch.service.js`) | in-memory lock, mail | dispatch, retry | Exit, mail | a document is not sent twice |
| **Registration and finance approval** (`registration`, `finance`, `hr` controllers, `lib/actionTokens.js`) | registration, links by mail, coupon | register, approve, verify payment, activate | Licensing (first limit and term), coupons, mail | stages in order; a registration becomes one company; its use of a coupon is counted |
| **Coupons** and billing arithmetic (`controllers/coupon.controller.js`, `lib/pricing.js`, `services/billing.service.js`) | coupon, its counter, redemptions | create, deactivate, delete, redeem, price | Licensing, Registration, Invoices | every redemption counted, none loses its coupon |
| **Invoices, payments, refunds** (`controllers/invoice.controller.js`, `services/billing.service.js`) | invoices with the sums of their payments and refunds | draft, issue, void, record payment, refund | Licensing (invoices of seats), coupons | sums = rows; paid never above owed; state as the payments say; numbers unique and without gaps above the operator's floor |
| Platform subscriptions (`controllers/subscription.controller.js`, `services/subscriptionEngine.service.js`) | subscriptions of platform packages | start and renew (both always throw), expire, cancel | Licensing (the same rows), Invoices | state follows the dates; one successor |
| **Goals** (`services/goal.service.js`, `lib/workflowStatus.js`) | goal, its assignments, progress | activate, submit, review by manager and HR, resubmit, add assignees | Tasks, weights, escalations, appraisals, exit handover | roll-up = assignments; nothing signed off that was never approved |
| **Task weights** (`services/goalWeight.service.js`) | weights of a goal's tasks | set, redistribute (serializable, retried) | Goals, Tasks | sum at most 100; a write ends |
| **Tasks, milestones, reviews** (`task*` controllers, `services/taskReview.service.js`, `lib/milestoneGate.js`) | task, milestones, ratings | progress, complete, review, reopen | Goals, escalations | gates hold, the task follows its milestones, the last approval completes the goal |
| Escalations (`goalEscalation`, `milestoneEscalation`, `milestoneWatcher` services) | escalation level, last alert | timer sweep, resolve | Goals, Tasks, notifications | each level once, stops when resolved |
| **Appraisals** (`appraisal`, `periodicAppraisal` controllers) | review with status and sign-off, concerns | self-assessment, manager review, HR audit, share, concerns and answers, final sign-off | Goals | the sign-off says what the concerns say; HR answers before it locks; what is released stands until the sign-off |
| **Policies** (`services/policy.service.js`) | policy, versions, assignments, signatures | create, edit, publish, restore, archive, assign, sign | notifications | one version current; none written over; one signature, of what its version says |
| CXO assignments and disputes (`services/cxo.service.js`, `controllers/dispute.controller.js`) | assignment, dispute stage | assign, raise, respond, close | reporting lines | one CXO, stages in order |
| Reporting lines (`services/roleHierarchy.service.js`, `employee.controller.js`) | `managerId`, role levels | move, bulk change | Exit, Leave, Goals (who decides) | no cycles |
| Sessions and passwords (`auth` controller, `services/passwordReset.service.js`, sub-logins) | account status, reset tokens, sub-logins | log in, set, reset, switch | Licensing | reset token acts once; closed accounts stay out |
| Chat and gallery (`message*`, `gallery*` services) | PostgreSQL rows, Kafka topic, MongoDB copies | send, edit, project | Kafka, MongoDB, Socket.IO | each message once, in spite of redelivery |
| Platform operations (`platform*` controllers) | tenants, staff, tickets, audit | limit, suspend, staff roles, tickets | Licensing | limit not below the seats taken |
| Notifications, comments, followers, attachments | rows | create, list, read | all | recipients exist |
| Documents and PDF | templates, tokens | render, sign | Exit, Invoices | placeholders resolved |
| Reports and dashboards | none | aggregate | reads all | read-only |
| Settings, departments, legal, reviews, media | rows | CRUD | - | - |
| Transport, validation, start-up, seeds | none | - | all | - |

The components in bold have modules of their own: they decide who may work in a company, what a
company and an employee are owed and what an employee has signed, achieved or been
rated, and each keeps facts in more than one place. `PROJECT.json` lists every component with its status and every hazard
found in the code at its line.

## 2. How the code is modelled

* **A process is one HTTP request in flight.** `pc[p]` names the statement it
  runs next, `arg[p]` its validated parameters, `seen[p]` the rows it has read
  and still uses. A handler's first action is its first read with the early
  returns that depend on it alone; a read that matters later is an action of its
  own; a transaction's writes are one action. A process becomes idle again when the
  handler answers, and may then be any other request.
* **One step where nothing read is used.** A handler that writes constants
  whatever it has read (exits, blockings, deletions) is one step: no other
  handler could tell the difference.
* **Failure.** In Licensing, ExitClearance, Policies, Invoices and Registrations a
  request may stop between any two statements (`Fail`, `Abandon`): what was committed
  stays. In Leave every handler has one
  write, a transaction and its last statement, so stopping before it changes
  nothing and stopping after it changes nothing either; there is no `Fail`.
* **Left out everywhere:** wording, audit rows, notifications, mail, the
  authorisation of callers (any caller the routes let through is possible), and
  concurrent requests' timing. No property depends on them.
* **Properties are of two kinds.** Most hold when the requests about one company's
  purchases, one employee's leave, one exit, one review or one goal do not overlap; the code does not
  enforce that. The constant `Procs` says how many overlap, and the proofs carry
  the assumption in their statement (`OneAtATime`, `Lanes`, `OneSpender` and the others
  of section 5). Some hold whatever
  overlaps: the types, `StampsAgree`, `OneTermPerChain`, `OverOnlyUnguarded`,
  `ProgressNeedsApproval`, `SignedOnce`, `HistoryKept`, `SignatureNamesItsVersion`,
  `NeverOverstated`, `SeriesUnbroken`. Section 4 says what goes wrong otherwise.
* **Overlaps.** Policies and Billing have two processes and a history variable that
  counts the requests that begin while another is in flight. Their bound `Overlaps`
  admits one; `overlaps = 0` in a property says that it is about requests that did not
  overlap so far, and a property without it is about all.
* **Transactions.** A READ COMMITTED transaction is one step where none of its reads
  decides what it writes, and otherwise a step for what it reads and one for its
  commit (`Sum` and `Book`). Where it updates rows that another may have locked, the selection
  of the rows, the end of the wait for them and the commit are three (`ArchiveCurrents`,
  `ArchiveLocked`, `Commit`). A SERIALIZABLE one (`GoalWeights`) is a step for its
  snapshot and one for its commit, which fails when another has committed meanwhile
  what it read.

Bounds appear in guards only, and each is a named constant: `MaxLimit`,
`MaxTerms`, `MaxRetracted` (Licensing), `DayChoices`, `MaxAdjust`, `Editable`,
`Adjustable` (Leave), `MaxRounds`, `MaxRecords` (ExitClearance), `MaxRows`
(Appraisal), `Private` (GoalWorkflow), `Fields` (Milestones), `MaxVersion`, `Overlaps`
(Policies), `Overlaps`, `Totals`, `Amounts`, `Refunds`, `Floors` (Invoices). The theorems hold for every value of them.

**Fairness.** Only GoalWeights assumes any: weak fairness of each request in flight
(`Answer`). Node's event loop resumes every handler whose promise has settled, and
PostgreSQL ends every statement, by success or by an error; neither starves one
request for others. Under it `GuardedWriteEnds`: a write that must retry ends, because
its attempts are counted, however many others commit before it. No fairness is
assumed of requests that begin. In the other components nothing obliges a person to
ever decide, pay, sign or clear, no timer acts on their rows, and a handler has no
loop; they are claimed no liveness.

## 3. The modules

### Licensing, SeatPool, MCLicensing, LicensingProofs

`Licensing` is one company. `status`/`deleted` are `TenantUser.status` and
`isDeleted`; `limit` and `credit` are `Tenant.licenseLimit` and `creditBalance`;
`terms` the subscriptions from oldest to newest; `request` the licence
requests; `ledger` the totals of the wallet transactions.

| Code | Actions |
|---|---|
| `inviteEmployee`, `bulkInviteEmployees` | `Invite`, `AssertLicense`, `InviteCommit` |
| `reactivateEmployee`, `restoreExEmployee` | `Reactivate`, `AssertLicense`, `ReactivateCommit` |
| login, onboarding, HR verification | `Login`, `LoginCommit` |
| `exitEmployee`, `deleteEmployee`, `createExEmployee`, `completeExit` | `Exit` |
| `blockExitAccess`, `deactivatePlatformUser` | `Block` |
| `retractUnusedLicenses` | `Retract`, `RetractCount`, `RetractCommit` |
| `requestTenantLicenses`, `payAndAddLicenses`, `rejectLicenseRequest` | `RequestLicenses`, `Pay`/`Buy`, `PayCheck`, `PayMark`, `PayLimit`, `PaySub`, `Reject`, `RejectCommit` |
| `renewTenantSubscription` | `Renew`, `RenewCount`, `RenewCommit` |
| `cancelSubscription`; `runSubscriptionLifecycleCheck`, a term past its end | `CancelSubscription`; `LapseSubscription` |
| `updateTenantLicences`, `reactivatePlatformUser` | `SetLicences`, `SetCount`, `SetCommit`, `Revive`, `ReviveCommit` |

Processes come in four lanes (`HrProcs`, `LoginProcs`, `FinanceProcs`,
`PlatformProcs`) by the requests they may be; the sets may share processes, and
a process in all of them is "one request at a time".

`SeatPool` is the promise: seats are taken only if free, released, or the pool is
resized to no less than is taken. `SeatPoolSpec` maps it onto `limit` and `Used`.

`OneTermPerChain` states what the unique `renewedFromId` is there for: renewing never adds a
subscription to those in force. It speaks of `Begun`, the terms with `renewedFromId` NULL,
because a term may end without a successor (cancelled, or past its date); then two renewals
that overlap, or a renewal and a payment, each begin a new one, and the column does not tell
two NULLs apart: two subscriptions are in force. That one at most is in force is stated for
requests that do not overlap, by `SubscriptionFollowsLimit`.

Abstractions: dates are left out, any term in force may be past its end; prices are a price
per seat and a credit per seat returned; the invoices of licences are in `Invoices`. `hr`
activation, which creates up to three accounts whatever quantity was bought, is the initial
state;
`Lanes` has to assume that the founders fit.

### Leave, LeaveLifecycle, MCLeave, LeaveProofs

`Leave` is one employee: balances and overlaps never cross employees. `request`
is `LeaveRequest.status`, `managerStatus` and `hrStatus`; `pending`, `used` and
`adjusted` the columns of `LeaveBalance`; `days` and `typeStatus` the leave types;
work from home is the type `Wfh`, whose policy row plays the part of a type.

| Code | Actions |
|---|---|
| `submitRequest` with `checkOverlap`, `getBalances` | `Submit`, `Balances`, `CheckType`, `Create` |
| `managerAction` (which may hand over to `hrAction`) | `ManagerAction`, `Delegated`, `ManagerWrite` |
| `hrAction`, `adminAction`, `cancelRequest` | `HrAction`/`HrWrite`, `AdminAction`/`AdminWrite`, `Cancel`/`CancelWrite` |
| `adjustEmployeeBalance` | `Adjust` |
| `updateLeaveType`, `toggleLeaveTypeStatus`, `updateWfhPolicy` | `EditType` |
| `deleteLeaveType` | `DeleteType`, `DeleteWrite` |

What an employee asks for is the constant `Asked` (type, first and last day,
part of the day); rules about a request alone (notice, dates in the past,
maximum length) only restrict which requests exist and are left to it. `Named`
says which type names contain which, for `getBalances`, that also matches by name.
Days are numbered, costs are in half-days, `WorkingDays` is
`calculateWorkingDays` with its minimum of one. Whether a balance row exists yet
is not distinguished from a row of zeros: the code creates it where needed.

`LeaveLifecycle` is the promise: a request is decided once, only a decision in
its favour can be taken back, and no two requests in force are for the same
time.

### ExitClearance, ExitProcess, MCExit, ExitProofs

`ExitClearance` is one employee's exit. `exit` is the `ExitDetail` row, numbered by
`round`, because a write by id fails on a row that was replaced; `cleared` the
`ExitClearance` rows that are CLEARED (the `<key>Cleared` columns are written
with them in the same transaction and are not separate); `remarks` the JSON text
`feedbackRemarks`, as far as it decides anything; `account` the status of the
account; `records` the ex-employee records filed.

| Code | Actions |
|---|---|
| `initiateExit` | `Initiate`, `InitiateRead`, `InitiateDelete`, `InitiateCreate` |
| `saveExitInterview` | `Interview`, `InterviewWrite` |
| `approveClearance` with `ensureClearanceRows`, `resolveManagerSubSteps`, `evaluateSequence` | `Clear`, `ClearRows`, `ClearWrite` |
| `completeExit` | `Complete`, `CompleteRows`, `CompleteWrite` |
| `blockExitAccess` | `Block`, `BlockRows`, `BlockWrite` |
| `generateCertificate`, `sendExitDocuments` | `Document`, `DocumentRows`, `DocumentWrite` |
| `exitEmployee`, `addExEmployee` of a serving employee | `Leave`, `LeaveWrite` |
| `deleteEmployee`; `deactivatePlatformUser`; the reactivations | `Delete`; `Deactivate`; `Return` |

`ExitProcess` is the promise: clearances in order, access blocked only when
nothing but Finance is left, completion with everything cleared or with the
override on record, and no change to a completed exit.

Abstractions: a `findFirst` with its includes is one read; open handover goals and
the permissions of approvers only refuse, so the requests considered are those
they let through; backfilling of clearance rows for exits older than the module is
not modelled; template editing rewrites the remarks the way `Document` does. A
record entered by hand for somebody already gone is not counted in `records`.
`Enforced` is the rule by `CLEARANCE_ENFORCED_FROM`; the runs use TRUE, the proofs
both.

### Appraisal, ConcernProcess, MCAppraisal, AppraisalProofs

`Appraisal` is one review of one employee in one cycle. `review` is the row of
`performance_reviews` (`status`, `hrSignoffStatus`, whether its results were shared, the
two ratings), numbered by `row` because a review may be deleted and created again;
`concern` the statuses of the concerns raised about it.

| Code | Actions |
|---|---|
| `updateCycle` | `UpdateCycle` |
| `getOrCreateReview`, `deleteReview` | `Create`, `Delete`, `DeleteWrite` |
| `submitSelfRating`, `updateSelfAssessment` | `SelfSave`, `SelfWrite` |
| `updateManagerReview` | `ManagerReview`, `ManagerWrite` |
| `updateHrAuditReview`, `shareReviewResults` | `Audit`, `AuditCount`, `AuditWrite`; `Share`, `ShareWrite` |
| `updateReview`; `hrReviewPeriodicAppraisal` | `Edit`, `EditWrite`; `Lock`, `LockWrite` |
| `raiseReviewConcern` | `Raise`, `RaiseCreate`, `RaiseFlag` |
| `respondReviewConcern`, `decideReviewConcern` with `syncConcernStatus` | `Respond`, `RespondWrite`, `Decide`, `DecideWrite`, `SyncRead`, `SyncWrite` |
| `finaliseReview` | `Finalise`, `FinaliseCount`, `FinaliseClose`, `FinaliseWrite` |

`ConcernProcess` is the promise about a concern: HR answers, the employee accepts or
disputes, a dispute gets one final answer, the sign-off waits for HR's answers. It is
refined on reviews that are annual and have always been (`Steady`): monthly and quarterly
ones lock whatever concern is open, and `updateCycle` may change the frequency under a
review with concerns, which then obeys the other rules (`changed` records it).
`ReleaseLastsToSignoff` is the part of "Irreversible once RELEASED" that holds: a release
ends with the final sign-off alone, and HR's rating stays what it was until then. What comes
after is said in section 4. Abstractions: of the frequency only whether it is annual; a rating is one of a
small set, scores and parameters are not there; `Edit` also stands for the owner who
moves his own draft between DRAFT and SUBMITTED.

### GoalWeights, MCGoalWeights, GoalWeightsProofs

The weights of the tasks of one goal. `task` is what the sum knows of each row: of this
goal and counted, of this goal and private or standalone, or not of this goal.
`withWeightGuard` is `GuardBegin` (the snapshot), `GuardCommit` (the sum over it and
the write) and `GuardLost` (P2034, tried again `Retries` times); every other write is
`PlainWrite`. `Create`, `Weigh`, `Move`, `Hide`, `Unhide` and `Remove` are the handlers
of `task.controller.js` after their checks, with what they read by then. `unguarded`
records that a plain write has added weight: a task that is moved to the goal, or
written with the weight it had when it was read, is not summed again.

### GoalWorkflow, MCGoals; Milestones, MCMilestones, MilestonesProofs

`GoalWorkflow` is one goal: `goal` and `asg` its status and those of its assignments,
`task` the tasks with the status of work and of review, `progress` and `ahead` whether
the goal's and an assignment's progress is above 0.

| Code | Actions |
|---|---|
| `activateGoal`, `submitGoal` | `Activate`, `ActivateWrite`, `Submit`, `SubmitForFirst`, `WorkflowWrite` |
| `managerReview`, `hrReview`, `resubmitGoal` | `ManagerReview`, `HrReview`, `Resubmit`, `WorkflowWrite`, `GoalWrite` |
| `updateGoal` with new assignees | `Add`, `AddWrite` |
| `createTask`, `updateTask`, `deleteTask` with `recalculateProgress` | `Create`, `Update`, `TaskWrite`, `Delete`, `DeleteWrite`, `AsgWrite`, `GoalWrite` |
| `submitTaskForReview`, `approveTaskReview`, `rejectTaskReview` | `SubmitTask`, `ApproveTask`, `RejectTask` |
| `completeGoalIfAllApproved` | `CompleteRead`, `CompleteWrite`, `GoalWrite` |

`Milestones` EXTENDS it: the milestones of a tracked task, created with it or later
(`CreateTracked`, `CreateMilestone`, `Wait`), updated (`UpdateMilestone`, up to `Fields`
fields at once, in the order the handler applies them: `WithProgress`, `WithDates`,
`WithDecision`, `WithTick`), deleted, and the task that is unlocked (`Unlock`) and
follows them (`Sync`). A task done by milestones is submitted and may complete the goal
through the actions of `GoalWorkflow`.

Abstractions: `done` is `isWorkComplete`, `in_progress` every status of work under way; a
REJECTED review is as none to the code; `private` is private or standalone, and a request that
calls a task standalone without being allowed to make it so is not asked; the statuses DRAFT, IN_PROGRESS,
READY_FOR_SUBMISSION and PENDING_HR_REVIEW are in the ranking but nothing sets them on
goals made today; ratings and the gate of weights only refuse; `deleteGoal` is left
out; a milestone is read and written in one step. In the run of milestones requests do
not ask a task to be private (`Private`).

### Policies, MCPolicies, PoliciesProofs

`Policies` is one policy: `policy` its row, which repeats number, text and hash of the
version in force; `versions` the `PolicyVersion` rows; `assigned` and `accepted`, which
name versions by their number.

| Code | Actions |
|---|---|
| `createPolicy` | `Create`, `FirstRow` (its errors are swallowed), `AssignWrite` |
| `updatePolicy`; `archivePolicy`, `deletePolicy`; `publishPolicy` | `Update`, `UpdateWrite`; `Archive`, `Delete`; `Publish` |
| `createPolicyVersion`, `publishPolicyVersion`, `restorePolicyVersion` | `NewVersion`, `PublishVersion`, `Restore`, then `ArchiveCurrents`, `ArchiveLocked` and `Commit` |
| `getPolicyVersions`, `getMyPolicies` (which write what is missing) | `ListVersions`, `Backfill`, `MyPolicies` |
| `assignPolicy`; `signPolicy` | `Assign`, `AssignWrite`; `Sign`, `SignWrite` |

`raised` records that an edit raised the number without writing a version. Left out:
reminders, audit, the roles that may be assigned; the first text is one fixed text.

### Invoices, Registrations, MCBilling, BillingProofs

`Invoices` are the rows of `invoice.controller.js`: `invoice` with the sums it repeats,
`received` and `returned` the sums of the payments and refunds themselves, `floor` the
operator's `nextNumber`, `coupon` and `redeemed` the coupon and its redemption rows.

| Code | Actions |
|---|---|
| `createInvoice`, the draft of `runSubscriptionLifecycleCheck`; `issueInvoice` with `withInvoiceNumber` | `Draft`; `Issue`, `TakeNumber`, `IssueWrite`, `IssueAgain` |
| invoices of `payAndAddLicenses` and `renewTenantSubscription` | `SeatInvoice`, `SeatInvoiceWrite` |
| `updateSettings`; `nextInvoiceNumber` | `SetFloor`; `NextInvoiceNumber` |
| `voidInvoice` | `Void`, `VoidWrite` |
| `recordPayment`, `recordRefund` with `syncInvoiceTotals` | `Pay`, `Refund`, `Sum`, `Book` |
| coupons: `remove`, `update`, `removePermanently` | `Deactivate`, `Reactivate`, `Drop`, `DropWrite` |

`Registrations` EXTENDS it with companies that register (`Register`, `RegisterWrite`),
are approved by Finance, perhaps with the same coupon (`Approve`, `Lookup`,
`ApproveWrite`, which also stand for `verifyPayment`), and activated by HR
(`Activate`, `ActivateWrite`); `tenants` counts the tenants made for each. Its last
state is the initial one of Licensing.

Four histories qualify what holds. `renumbered`: a draft was issued twice, under two numbers.
`outnumbered`: a purchase has no invoice because its number was taken. `raised`: the highest
floor there was, below which numbers may be missing. `overlaps`: section 2. A purchase whose
invoice fails for another reason has none either (`payAndAddLicenses` swallows the error, and
`Fail` at `seats` is this); no property says anything of it.

`Covered` is the one invoice whose state does not follow from its payments: a renewal that
the wallet covers, PAID with a total of 0 and nothing received. `BooksBalance` names it.

Abstractions: money is in units and an invoice comes to one of `Totals`, of which 0 is a
discount or the wallet covering all; GST, prices and what a coupon takes off are left out, as
is the proof of an e-mail address. The platform's numbers are those of one prefix and one
financial year, in which `nextInvoiceNumber` looks for the highest; with another prefix or
year a new series begins, of which the same holds.

## 4. The runs

| Run | Expected | Shows |
|---|---|---|
| `licensing_serial` | pass | one request at a time, none of which stops half way: wallet = ledger, subscription = limit, every seat of the limit paid for |
| `licensing_lanes` | pass | a request that takes or returns seats may overlap one that buys or renews, and either may stop half way: no seat is given twice, `SeatPool` is implemented |
| `licensing_renewals` | pass | whatever renewals, purchases, retractions and ends of terms overlap, a renewal adds no subscription to those in force: the unique `renewedFromId` |
| `leave_serial` | pass | the rules of leave and the refinement of `LeaveLifecycle`, with half-days of one day, work from home across the year's end, a leave of a weekend, and a type whose name occurs in another |
| `exit_serial` | pass | two exits in a row of one employee, with failures between statements: the rules of exit and the refinement of `ExitProcess` |
| `appraisal_serial` | pass | one review, deleted and created again, with two concerns: the sign-off in step with the concerns, the release that lasts to the sign-off, the refinement of `ConcernProcess`, with changes of the frequency |
| `goal_weights` | pass | two overlapping requests and their retries: only unguarded writes exceed the limit, and a guarded write ends |
| `goals_serial` | pass | a goal of two employees: goal and assignments completed together, the last approval completes |
| `milestones_serial` | pass | a tracked task and two milestones: progress waits for approval, the task is done with its milestones |
| `policies` | pass | one policy in two versions, one overlap, steps that fail: one signature of what the version says, one version current, none written over |
| `billing` | pass | two invoices, a registration and their coupon, one overlap, steps that fail, a floor set at any time: sums, states, numbers, redemptions, one company |
| `goals_unapproved` | violation | one request at a time: a proposal that a manager declined is worked on and submitted for sign-off without ever being approved |

The violation is the finding of `PROJECT.json`, with the comment of the repository that it
contradicts.

**Bounds.** Licensing: three accounts and two initial seats are the least with a
founder, one free seat and two candidates for it; two requests for one and two
seats; three terms allow a renewal of a renewed term; two seats may be returned, so
the pool grows and shrinks on both sides of use. `licensing_renewals` has two requests that
both may renew, one of which may also return a seat or be an operator's, and two terms: a
term ended before the renewal of it commits is among its states. Leave: four requests and
four days, of which the first two are a weekend and the third ends the year: two half-days of
one day, complementary and in different types; a leave of nothing but the weekend (one day,
by the minimum) in a type of the same year, without overdraft, whose name contains that of
the first half-day's, so that it alone uses up the one day of the latter (`Named`); and work
from home that crosses the year's end. A type is deactivated, deprived of
its allocation and deleted, in use and out of use. Exit:
all five clearances and both sub-steps are there; two rounds let a completed exit make
way for another and a handler hold a row that is gone. Appraisal: two concerns, one
answered while the other is disputed; two ratings, a rating that changes; two rows; the
frequency changes either way.
GoalWeights: two tasks that fit alone and not together, one retry, so that a transaction
can lose, win at the second attempt and lose for good. Goals: two employees with a task
each have one who is finished before the other and, with his task deleted, one without
a task. Milestones: two, of which one settles before the other, two fields at once, since
each two write one status. Policies: two versions, two texts, one member: a version that
replaces another, a number that is reused; two publications that overlap. Billing:
two invoices for a number that both want, two payments to pay one and one refund of both (a
refund in part is left to the theorems), totals of 0 and of two payments, a floor past the first number, a coupon with one use, four attempts as in
the code, of which one request that overlaps another uses two; requests and invoices are each symmetric.
One process suffices where the question is about orders of whole requests, two where it
is about an overlap; no handler involves a third. `billing` does not check deadlock: with
every invoice void, the coupon gone and the company active nothing is left to ask.

**Overlaps that are known to break rules.** Giving the other runs two processes makes
TLC find, among others: two invitations that share the last seat; the credit of one of
two overlapping retractions lost; a rejection that overwrites PAID; a login that ends
with ACTIVE over a deactivation; an approved leave cancelled by a cancellation that read
it pending; a day booked twice; balance counters that drift when two decisions overlap;
an approved request put back to PENDING by the manager's approval; two subscriptions in force,
begun by two renewals when none was; a clearance that
reopens a completed exit; two records filed for one departure; the override marker or a
sub-step erased by a late write of the remarks; a new exit deleted by a second
`initiateExit`; a goal taken back from COMPLETED by a recalculated progress. The
properties that begin with `overlaps = 0` fail without it: two publications that leave two
versions current; two payments that exceed an invoice, or that it does not add together;
an invoice issued twice, under another number; a purchase without an invoice; a coupon
approved twice and counted once, or deleted under an approval; an activated registration
put back by a late approval, which can then never be activated again. All are instances
of the one mechanism of section 1, and are listed as hazards.

**One request at a time,** the code also does what its comments, or a reader, would not
expect; none of it is a property of a run:

* `updateTenantLicences` compares the new limit with ACTIVE accounts
  (`platform.controller.js:535`), although invited ones hold seats everywhere else:
  the limit can be set below the seats in use, without the warning its comment announces.
* A payment of licences that stops after its second statement is "already paid and
  processed" when retried (`employee.controller.js:1175`), and the seats never come.
* A leave request that ends next year is counted in neither year (`leave.service.js:550`):
  its days can be taken again.
* An interview saved after the last clearance takes the exit back from ALL_CLEARED to
  INTERVIEW_DONE (`exit.controller.js:226`).
* A released review can be finalised (`finaliseReview` does not ask whether it is), and a
  plain save of the HR audit then takes it back to PENDING_RELEASE with another rating
  (`appraisal.controller.js:2558`), although a release is "Irreversible once RELEASED" (2512)
  and the sign-off "locks review permanently" (3626).
* A change of the frequency of a cycle leaves its reviews flagged, or not, by the rules of
  the frequency they had (`appraisal.controller.js:592`).
* A renewal that wallet credit covers is written PAID with a total of 0 and no payment
  (`employee.controller.js:3077`), although "payment state is never set by hand"
  (`invoice.controller.js:11`) and `stateForPayment` calls such an invoice ISSUED.
* Seats are bought, and the invoice of them is lost to any error, which is only logged
  (`employee.controller.js:1312`).
* After the last subscription was cancelled or has ended, the seats stay as they are, and a
  purchase begins a subscription for all of them.
* A goal whose last reviewed task is approved at its creation, or whose last task not
  approved is deleted, does not become COMPLETED "by itself" (`taskReview.service.js:13`).
* An extension is taken on a milestone that is DONE; reopening the only milestone of a
  task leaves the task done; deleting its last pending milestone leaves it waiting
  (`taskMilestone.controller.js:612`, `871`).
* `activateGoal` writes assignments and goal in two statements under the comment
  "Atomically" (`goal.service.js:473`).
* `restorePolicyVersion` gives the new version the hash of the old one, whose number it
  was computed with; `updatePolicy` may raise the number without a version, and the next
  version reuses it, with the signatures; `publishPolicy` leaves the version row a DRAFT;
  `getMyPolicies` completes only the first member's missing assignment.
* Two drafts made while a coupon has one use left both redeem it at issue; a draft whose
  coupon was deleted since can never be issued.

Each property of a passing run has a mutant in `PROJECT.json`: a small change of a
mapped definition, of the kind a slip in that code would be, under which TLC
finds the property violated. The mutated forms stand in the modules, before the
definitions they replace, marked `(mutant)`.

## 5. The proofs

Every invariant that a run checks, and every action property and refinement, is also a
theorem, for every value of the constants. The one property left to TLC is liveness.

**Assumptions.** The `ASSUME` of each module, which TLC evaluates in its runs: the types of
the constants; that there are finitely many users, requests, concerns, invoices and
registrations, and at least one concern, task, invoice and registration; `Founders` inside
`Users`, with `Admin` among them; `Wfh` a type without overdraft; and of the sum of weights
in GoalWeights, a constant there, that it is a number, 0 for nothing, and no less
when no weight is less (the runs give it the fold). Beside them, where a theorem states it:

* `Lanes` (Licensing): at most one request that takes or returns seats, at most one
  that buys or renews, the two may overlap; no operator's request; the founders fit.
* `OneSpender` (Licensing): one request at a time takes, returns, buys or renews;
  operators may overlap it, and it may stop half way. `OneHandler` adds that it does not
  stop half way and that there is no operator's request: a payment that stops between
  its statements, and an operator who sets a limit, do leave the subscription behind.
  `Orderly` is `OneHandler` and `Lanes`.
* `OneAtATime` (Leave, ExitClearance, Appraisal, Milestones): at most one request about this
  employee's leave, this exit, this review, this goal in flight.

None is enforced by the code. They say what the callers must arrange, by
accident or by a lock, for the rules to hold. In Policies and Billing no
assumption is needed: what depends on it is stated with `overlaps = 0`.

| Theorem | Assuming | States |
|---|---|---|
| `LicensingProofs!TypeCorrect` | - | `[]TypeOK`, any overlap |
| `LicensingProofs!SeatsSafe` | `Lanes` | no more accounts than seats |
| `LicensingProofs!ImplementsSeatPool` | `Lanes` | every step is a step of the seat pool |
| `LicensingProofs!OneTermPerChainAlways` | - | no more subscriptions in force than were begun anew, any overlap |
| `LicensingProofs!WalletBalances` | `OneSpender` | the wallet is the sum of its ledger |
| `LicensingProofs!SubscriptionSells` | `OneHandler` | one subscription is in force at most, and it sells the limit |
| `LicensingProofs!CapacityIsAccounted` | `Orderly` | the limit is what was registered and paid for, less what was returned |
| `LeaveProofs!TypeCorrect` | - | `[]TypeOK`, any overlap |
| `LeaveProofs!StampsAlwaysAgree` | - | status and stamps agree, any overlap |
| `LeaveProofs!NeverDoubleBooked`, `NeverOrphaned` | `OneAtATime` | no two requests in force clash; no type deleted under a request |
| `LeaveProofs!CountersAlwaysMatch` | `OneAtATime` | balances are the sums over the requests |
| `LeaveProofs!AllowanceAlwaysChecked` | `OneAtATime` | nothing accepted beyond the allowance |
| `LeaveProofs!ImplementsLifecycle` | `OneAtATime` | `LeaveLifecycle` is implemented |
| `ExitProofs!TypeCorrect` | - | `[]TypeOK`, any overlap |
| `ExitProofs!ReadyOnlyWhenCleared`, `ManagerAlwaysAgrees`, `SettlementAlwaysFollows`, `AlwaysFiledOnce` | `OneAtATime` | the safety rules of exit |
| `ExitProofs!ImplementsExitProcess` | `OneAtATime` | `ExitProcess` is implemented |
| `AppraisalProofs!TypeCorrect` | - | `[]TypeOK`, any overlap |
| `AppraisalProofs!NothingUnansweredAlways`, `SignoffAlwaysTells`, `ReleaseAlwaysLasts` | `OneAtATime` | the sign-off waits for HR's answers and says what the concerns say; a release lasts to the final sign-off |
| `AppraisalProofs!ConcernsAlwaysKeepTheirPromise` | `OneAtATime` | `ConcernProcess` is implemented |
| `GoalWeightsProofs!TypeCorrect` | - | `[]TypeOK`, any overlap |
| `GoalWeightsProofs!GuardedStaysWithin` | - | unless a plain write added weight, the tasks weigh no more than the goal's limit, any overlap |
| `MilestonesProofs!MilestonesTypeCorrect` | - | `[]MTypeOK`, any overlap |
| `MilestonesProofs!ProgressAlwaysApproved` | - | no progress without approval where it is required, any overlap |
| `MilestonesProofs!AlwaysCompletedTogether`, `ApprovalAlwaysCompletes` | `OneAtATime` | goal and assignments are completed together, by the last approval |
| `MilestonesProofs!DoneOnlyWithMilestones` | `OneAtATime` | a task becomes done only over done milestones |
| `PoliciesProofs!TypeCorrect` | - | `[]TypeOK`, any overlap |
| `PoliciesProofs!SignedOnceAlways`, `HistoryIsKept` | - | one acceptance per signature; no version written over; any overlap |
| `PoliciesProofs!SignaturesNameTheirVersion` | - | unless an edit raised the number alone, a signature has the hash of its version, any overlap |
| `PoliciesProofs!OneIsCurrent` | - | without overlaps, one version is current |
| `BillingProofs!BillingTypeCorrect` | - | `[]RTypeOK`, any overlap |
| `BillingProofs!NeverOverstatedAlways` | - | no invoice says that more was paid or refunded than was, any overlap |
| `BillingProofs!BooksBalanceAlways` | - | without overlaps, invoices say exactly that, and are in the state that follows, or PAID where credit covers them |
| `BillingProofs!SeriesUnbrokenAlways` | - | numbers are unique, and without gaps above the highest floor unless an invoice was issued twice, any overlap; without overlaps none is, and no purchase loses its invoice to a number that is taken |
| `BillingProofs!CouponCountedAlways` | - | no use by an invoice goes uncounted, any overlap; without overlaps the counter is exact |
| `BillingProofs!OneCompanyAlways` | - | one company at most, any overlap; exactly one of an active registration without overlaps |

`MilestonesProofs` and `BillingProofs` prove about `MSpec` and `RSpec`, the larger of the two
modules they cover; the steps of the smaller one are steps of these.

The arguments:

* *Types.* `TypeOK` is strengthened to say that a handler past its first read holds
  a request, type or account it can be at that stage with (`TypeInv`); without that,
  `request[arg[p].r]` could be applied outside its domain.
* *Seats.* `SeatsWithinLimit` is not inductive: the commit of an invitation
  does not look at the seats. `LaneInv` adds that the seat request in flight has read a
  limit no larger than the present one and has counted enough free seats for
  what it will take, and that the purchase in flight has read a limit no smaller,
  so that its absolute write does not lower it. Taking seats only makes the first
  claim about the other lane weaker, and buying only the second.
* *Terms.* `ChainInv`: terms form chains, in which a term is renewed once at most (the unique
  `renewedFromId`) and is then out of force. A renewing term names the one it renewed, no two
  name the same, so there are no more renewing terms than renewed ones; what is in force is
  not renewed, hence no more than what is not renewing, the terms begun anew (`OnePerChain`).
* *Wallet, subscription, capacity.* `WalletInv`: the balance a request has read is the
  present one. `SubInv`: so are the limit and the
  term, unless that has ended since, and only a payment that has written
  the limit still owes the subscription its seats. `CapInv`: the limit of a payment that
  has marked its request and not yet written it is short of exactly the request's seats.
  Here `Lanes` is needed: a purchase takes a limit of 0 for "none yet" and starts
  from the default; the administrator's account, which no request removes, is a seat
  in use, and so the limit stays above 0.
* *Sums.* `CountersMatchRequests` and `CapacityAccounted` are folds over a set of requests.
  The library's induction theorems cannot be used (below), so the lemmas about sums
  (one member more, one member's share changed, equal shares) each take a smallest set for
  which they fail, by the well-foundedness of `<` on cardinalities, and remove a member.
* *Leave and exit.* `SerialInv` says that what a handler has read is still so when
  it writes (`UpToDate`), with, for exits, two facts about rows that are absent
  (`Blank`) and the override marker (`NotOverridden`). With one process every step
  of another handler is excluded, so a read stays true; each write then follows
  from its handler's checks. `CoverInv` adds, for the allowance, that a request
  about to be created still fits. The refinements take one lemma per writing action,
  all other steps stutter.
* *Appraisal.* `Safe`: what the handler has read is there, its guards still hold
  (`Suits`), and the sign-off agrees with the concerns except between the write of a
  concern and that of the sign-off (`Unsettled`).
* *Weights.* The limit is not inductive: a commit sums over a snapshot, not over the
  tasks. `WeightInv` adds that a transaction that can still commit has seen, of every
  task but its own, at least what that task weighs now, unless an unguarded write has
  added weight. Every other write of a weight makes it lose (its snapshot is old) or
  makes a task lighter; what it commits is therefore no more than what it summed.
* *Goals and milestones.* The roll-up is the least advanced assignment (`RollUpComplete`).
  `GoalInv`: a completed goal agrees with its assignments except before the last write of
  a request, which holds a roll-up that does. `FollowInv`: a task that does not exist
  has no milestones, and when a request is about to write a task done its milestones
  are done. `ApprovedInv` (any overlap): a milestone with work recorded, approved or done
  has been approved by a manager, and none is created with progress.
* *Policies.* `NameInv`: each number has one hash, its row's or, while the first version
  has no row, the one the policy was created with; the policy, the signatures and every
  request in flight carry that one. `AloneInv`: without overlaps one
  request is in flight, what it read and the rows it selected are so (`Fresh`), and only the
  version shown is current (`SoleCurrent`).
* *Billing.* `BooksInv`: an invoice's sums may lag behind its payments and are never ahead,
  and neither is what a request has summed, its own payment included. `SeriesInv`: the
  numbers of the platform's series and those below the highest floor (`Spent`) are `1 .. c`
  for some `c`, and no request that is about to issue holds one above `c + 1`; a higher floor
  lengthens the run (`LongerRun`), and a second use of a number is refused by the unique
  column.
  `SignupInv`: redemptions do not exceed the counter, a coupon that is redeemed or attached
  to a registration is there, and no registration has two companies. `AloneInv`: without
  overlaps one request is in flight, what it read is so (`Fresh`), the books balance, and the
  counter is the redemptions and the registrations with the coupon (`Exact`).

The type invariants of Licensing, Leave, ExitClearance and GoalWeights are proved and not
checked again by the runs, nor are the inductive invariants. The runs of the other modules
check their type invariant as well.

**Only model-checked:** `GuardedWriteEnds`, that a guarded write of a weight ends, which is
liveness under fairness. Liveness and `ENABLED` are beyond the prover, and so are
RECURSIVE operators and theorems with an operator as a parameter (the library's forms of
induction); the modules declare no RECURSIVE operator. `SignedOffWasApproved` is false of
the code and has no theorem.

## 6. What is not covered

The components without a module in section 1, with reasons in `PROJECT.json`:

* *Platform subscriptions*: starting and renewing one always throws
  (`subscription.controller.js:395`, `560` name variables of another function) before its
  transaction, so these two change nothing. Cancelling one and its end do, and are actions of
  Licensing (`CancelSubscription`, `LapseSubscription`); the drafts of invoices that the
  lifecycle check makes are `Draft` in Invoices.
* *Exit dispatch, escalations, reporting lines, CXO and disputes, sessions and
  passwords, chat*: planned below. Kafka and MongoDB are outside `src/`; the chat would
  be modelled from how the code uses them.
* *Transport, validation, reports, dashboards, PDF, templates, media, company settings,
  seed data*: create, read, update and delete of single rows, formatting, or
  descriptions of the API (`swagger.js` and `swaggerExtensions.js` alone are 12 000
  lines); there is no order of steps to check in them. They are most of the lines of the
  repository, which is why the share of it that the modules stand for is small.

Within the modelled components: notifications, audit and mail, reading routes, the
arithmetic of prices, GST and discounts, calendars and holidays beyond weekends, legacy
exits, peer feedback and the scores of appraisals, deletion of goals. Account status is
written by Licensing and by ExitClearance; each module has the other's writes as
environment steps (`Exit`, `Block`; `Leave`, `Delete`, `Deactivate`, `Return`), and the
two are not composed.

## 7. Plan

Done, most important first: Licensing with SeatPool; Leave with LeaveLifecycle;
ExitClearance with ExitProcess; GoalWeights; Appraisal with ConcernProcess; GoalWorkflow
and Milestones; Policies; Invoices and Registrations; each with runs and proofs.

Next, in this order:

1. Composition of Licensing and ExitClearance over one account status, replacing
   the environment steps by each other's actions; seats are freed by exits.
2. `PasswordReset` (the one locked row: a token acts once, a theorem for any overlap).
3. `Escalation`: the sweeps over goals and milestones (a timer, hence fairness: an
   overdue goal is escalated), composed with GoalWorkflow.
4. `Hierarchy` (no cycles of managers; the walk up the line ends); CXO assignments and
   disputes; exit dispatch with its lock in one process.
5. `ChatProjection`: PostgreSQL, Kafka at least once, MongoDB; refinement of "each
   message once".

More proofs: the promises that have no abstract specification yet (a policy and what is
signed of it; an invoice and its payments as a ledger; a goal), stated, refined and proved;
weaker hypotheses than `OneAtATime` where only some pairs of handlers must not overlap (as
`Lanes` is for seats); the theorems of the components above as they are modelled.
