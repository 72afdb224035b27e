------------------------------ MODULE Policies ------------------------------
(***************************************************************************)
(* One policy, its versions, and who signed them (policy.service.js).      *)
(*                                                                         *)
(* The row of the policy repeats the number, the text and the hash of the  *)
(* version in force; assignments and signatures name a version by its      *)
(* number alone.  Publishing archives the versions that are current and    *)
(* writes the new one in a READ COMMITTED transaction: three steps here, and*)
(* the rows it archives are locked from the first to the second.           *)
(***************************************************************************)
EXTENDS Naturals, Sequences, FiniteSets

CONSTANTS
  Procs,      \* HTTP requests in flight
  Emps,       \* members of the tenant, ACTIVE or INVITED
  Texts,      \* contents a policy may have
  MaxVersion, \* bound: version numbers
  Overlaps    \* bound: requests that begin while another is in flight

ASSUME PolicyConstants == Texts # {} /\ MaxVersion \in Nat \ {0} /\ Overlaps \in Nat

VARIABLES
  policy,      \* the row of the policy
  versions,    \* its PolicyVersion rows, by number
  assigned,    \* PolicyAssignment: of each version, to each member
  accepted,    \* PolicyAcceptance: the hashes signed, by version and member
  raised,      \* history: an edit raised the number without a version of it
  overlaps,    \* history: the requests that began while another was in flight
  stage, req   \* requests: where they are, what they read and will write

rows == <<policy, versions, assigned, accepted>>
vars == <<rows, raised, overlaps, stage, req>>

Version == 1 .. MaxVersion
\* computeContentHash: differs when the number or the text does.
Hash(n, t) == <<n, t>>
NoHash == <<>>
Hashes == {Hash(n, t) : n \in Version, t \in Texts}
Status == {"DRAFT", "PUBLISHED", "ARCHIVED"}
AText == CHOOSE t \in Texts : TRUE

Policy == [status : Status \cup {"NONE"}, version : Version, text : Texts, hash : Hashes \cup {NoHash}]
NoPolicy == [status |-> "NONE", version |-> 1, text |-> AText, hash |-> NoHash]
Row == [status : Status \cup {"NONE"}, current : BOOLEAN, text : Texts, hash : Hashes \cup {NoHash}]
NoRow == [status |-> "NONE", current |-> FALSE, text |-> AText, hash |-> NoHash]
Keep == "keep"  \* a field the request does not carry

Stage == {"idle", "firstRow", "update", "backfill", "archive", "lock", "commit", "assign", "sign"}
\* n, text, hash: what will be written, of the policy or of a version; base:
\* the number read; to: whom it names; also: whom else to assign; locked: the
\* versions its transaction selects, and then has archived.
Others == {"nobody", "before", "ever"}
Req == [op : {"none", "edit", "new", "publish"}, n : Version, base : Version,
        text : Texts \cup {Keep}, status : Status \cup {Keep}, hash : Hashes \cup {NoHash},
        to : SUBSET Emps, also : Others, locked : SUBSET Version]
NoReq == [op |-> "none", n |-> 1, base |-> 1, text |-> Keep, status |-> Keep, hash |-> NoHash,
          to |-> {}, also |-> "nobody", locked |-> {}]

\* The state is of these types.
TypeOK ==
  /\ policy \in Policy /\ versions \in [Version -> Row]
  /\ assigned \in [Version -> [Emps -> {"NONE", "PENDING", "SIGNED"}]]
  /\ accepted \in [Version -> [Emps -> Seq(Hashes)]]
  /\ raised \in BOOLEAN /\ overlaps \in 0 .. Overlaps
  /\ stage \in [Procs -> Stage] /\ req \in [Procs -> Req]

NoVersions == [n \in Version |-> NoRow]
Unassigned == [n \in Version |-> [e \in Emps |-> "NONE"]]
Unsigned == [n \in Version |-> [e \in Emps |-> <<>>]]

Init ==
  /\ policy = NoPolicy /\ versions = NoVersions
  /\ assigned = Unassigned /\ accepted = Unsigned
  /\ raised = FALSE /\ overlaps = 0
  /\ stage = [p \in Procs |-> "idle"] /\ req = [p \in Procs |-> NoReq]

-----------------------------------------------------------------------------
(* Requests.                                                               *)

Exists == policy.status # "NONE"
Rows == {n \in Version : versions[n].status # "NONE"}
Currents == {n \in Rows : versions[n].current}
Idle == \A p \in Procs : stage[p] = "idle"

\* The first statement of a request.
Begins(p) ==
  /\ stage[p] = "idle"
  /\ overlaps' = IF Idle THEN overlaps ELSE overlaps + 1
  /\ overlaps' <= Overlaps
Go(p, at, r) == stage' = [stage EXCEPT ![p] = at] /\ req' = [req EXCEPT ![p] = r]
Finish(p) == Go(p, "idle", NoReq)
Once(p) == Begins(p) /\ UNCHANGED <<raised, stage, req>>
Reads(p, at, r) == Exists /\ Begins(p) /\ Go(p, at, r) /\ UNCHANGED <<rows, raised>>
At(p, at) == stage[p] = at /\ UNCHANGED overlaps

\* A statement or a transaction fails; what was written before it stays.
Fail(p) == stage[p] # "idle" /\ Finish(p) /\ UNCHANGED <<rows, raised, overlaps>>

\* createPolicy: the policy, then its first version, whose failure is logged
\* and forgotten, then the assignments.  A deleted policy may be followed by
\* another, with nothing of the old one in flight.
Create(p, t, published, to) ==
  LET st == IF published THEN "PUBLISHED" ELSE "DRAFT" IN
  /\ ~Exists /\ Idle
  /\ policy' = [status |-> st, version |-> 1, text |-> t, hash |-> Hash(1, t)]
  /\ Go(p, "firstRow", [NoReq EXCEPT !.text = t, !.status = st, !.hash = Hash(1, t),
                                     !.to = IF published THEN to ELSE {}])
  /\ raised' = FALSE /\ overlaps' = 0
  /\ UNCHANGED <<versions, assigned, accepted>>

\* (mutant) Nothing keeps two versions of one number apart.
AnyNumber(n) == n \in Version
\* @@unique([policyId, versionNumber])
Vacant(n) == n \in Version \ Rows

FirstRow(p) ==
  /\ At(p, "firstRow")
  /\ \/ Exists /\ Vacant(1)
        /\ versions' = [versions EXCEPT ![1] =
             [status |-> req[p].status, current |-> req[p].status = "PUBLISHED",
              text |-> req[p].text, hash |-> req[p].hash]]
     \/ UNCHANGED versions
  /\ Go(p, "assign", [NoReq EXCEPT !.to = req[p].to])
  /\ UNCHANGED <<policy, assigned, accepted, raised>>

\* (mutant) Archived policies are withdrawn.
Withdrawn == "WITHDRAWN"
Retired == "ARCHIVED"
\* archivePolicy
Archive(p) ==
  /\ Exists /\ Once(p) /\ policy' = [policy EXCEPT !.status = Retired]
  /\ UNCHANGED <<versions, assigned, accepted>>
\* deletePolicy: the rows of the policy go with it.
Delete(p) ==
  /\ Exists /\ stage[p] = "idle"
  /\ policy' = NoPolicy /\ versions' = NoVersions
  /\ assigned' = Unassigned /\ accepted' = Unsigned
  /\ UNCHANGED <<raised, overlaps, stage, req>>

\* publishPolicy: the row of the version is left as it is.
Publish(p, to) ==
  /\ Exists /\ Begins(p) /\ policy' = [policy EXCEPT !.status = "PUBLISHED"]
  /\ Go(p, "assign", [NoReq EXCEPT !.n = policy.version, !.to = to])
  /\ UNCHANGED <<versions, assigned, accepted, raised>>

\* updatePolicy: a new text, or incrementVersion, raises the number; whoever
\* was to sign the number it was is to sign the one it is.
Update(p, t, st, bump, to) ==
  LET up == bump \/ t \notin {Keep, policy.text}
      n == IF up THEN policy.version + 1 ELSE policy.version
      now == IF t = Keep THEN policy.text ELSE t
  IN /\ n <= MaxVersion
     /\ Reads(p, "update",
          [NoReq EXCEPT !.op = "edit", !.n = n, !.base = policy.version, !.text = t, !.status = st,
                        !.hash = IF up THEN Hash(n, now) ELSE policy.hash,
                        !.to = to, !.also = IF up THEN "before" ELSE "nobody"])
UpdateWrite(p) ==
  LET r == req[p] IN
  /\ At(p, "update") /\ Exists
  /\ policy' = [status |-> IF r.status = Keep THEN policy.status ELSE r.status,
                version |-> r.n, hash |-> r.hash,
                text |-> IF r.text = Keep THEN policy.text ELSE r.text]
  /\ raised' = (raised \/ r.n > r.base)
  /\ Go(p, "assign", [NoReq EXCEPT !.n = r.n, !.base = r.base, !.to = r.to, !.also = r.also])
  /\ UNCHANGED <<versions, assigned, accepted>>

\* getPolicyVersions: a policy without versions is given the one it shows.
ListVersions(p) == Rows = {} /\ Reads(p, "backfill", NoReq)
Backfill(p) ==
  /\ At(p, "backfill") /\ Exists /\ Vacant(policy.version)
  /\ versions' = [versions EXCEPT ![policy.version] =
       [status |-> policy.status, current |-> policy.status = "PUBLISHED",
        text |-> policy.text, hash |-> policy.hash]]
  /\ Finish(p) /\ UNCHANGED <<policy, assigned, accepted, raised>>

-----------------------------------------------------------------------------
(* Versions.                                                               *)

NextNumber == IF Rows = {} THEN policy.version + 1
              ELSE (CHOOSE n \in Rows : \A k \in Rows : k <= n) + 1

\* createPolicyVersion: published, it goes to those named, else to everyone who
\* was ever assigned the policy.
NewVersion(p, t, published, to) ==
  LET now == IF t = Keep THEN policy.text ELSE t IN
  /\ NextNumber <= MaxVersion
  /\ Reads(p, IF published THEN "archive" ELSE "commit",
       [NoReq EXCEPT !.op = "new", !.n = NextNumber, !.text = now, !.hash = Hash(NextNumber, now),
                     !.status = IF published THEN "PUBLISHED" ELSE "DRAFT",
                     !.to = IF published THEN to ELSE {},
                     !.also = IF published /\ to = {} THEN "ever" ELSE "nobody"])

\* publishPolicyVersion: any version of the policy, whatever its status.
PublishVersion(p, n, to) ==
  /\ n \in Rows
  /\ Reads(p, "archive", [NoReq EXCEPT !.op = "publish", !.n = n, !.status = "PUBLISHED", !.to = to])

\* restorePolicyVersion: a version with the text and the hash of an older one,
\* for everyone who was ever assigned the policy.
Restore(p, n) ==
  /\ n \in Rows /\ NextNumber <= MaxVersion
  /\ Reads(p, "archive",
       [NoReq EXCEPT !.op = "new", !.n = NextNumber, !.text = versions[n].text,
                     !.hash = versions[n].hash, !.status = "PUBLISHED", !.also = "ever"])

\* The transaction selects the current versions but its own, and archives those
\* that still are: a row that another transaction has archived is waited for.
Locked(p) == UNION {req[q].locked : q \in {q \in Procs \ {p} : stage[q] = "commit"}}
\* (mutant) A version that replaces another leaves it current.
ArchivesOnPublish(p) == IF req[p].op = "publish" THEN Currents \ {req[p].n} ELSE {}
Archives(p) == IF req[p].op = "publish" THEN Currents \ {req[p].n} ELSE Currents
ArchiveCurrents(p) ==
  /\ At(p, "archive") /\ Go(p, "lock", [req[p] EXCEPT !.locked = Archives(p)])
  /\ UNCHANGED <<rows, raised>>
ArchiveLocked(p) ==
  /\ At(p, "lock") /\ req[p].locked \cap Locked(p) = {}
  /\ Go(p, "commit", [req[p] EXCEPT !.locked = @ \cap Archives(p)])
  /\ UNCHANGED <<rows, raised>>

\* ... and writes its own, and the policy, if it is published.
Written(r, n) ==
  CASE n = r.n /\ r.op = "publish" -> [versions[n] EXCEPT !.status = "PUBLISHED", !.current = TRUE]
    [] n = r.n /\ r.op = "new" -> [status |-> r.status, current |-> r.status = "PUBLISHED",
                                   text |-> r.text, hash |-> r.hash]
    [] n # r.n /\ n \in r.locked -> [versions[n] EXCEPT !.status = "ARCHIVED", !.current = FALSE]
    [] OTHER -> versions[n]
\* (mutant) The policy keeps the hash it had.
ShowsOldHash(r, v) ==
  [status |-> "PUBLISHED", version |-> r.n, text |-> v.text, hash |-> policy.hash]
Shows(r, v) ==
  [status |-> "PUBLISHED", version |-> r.n, text |-> v.text, hash |-> v.hash]
Commit(p) ==
  LET r == req[p] IN
  /\ At(p, "commit") /\ r.n \notin Locked(p)
  /\ Exists /\ IF r.op = "new" THEN Vacant(r.n) ELSE r.n \in Rows
  /\ versions' = [n \in Version |-> Written(r, n)]
  /\ policy' = IF r.status = "PUBLISHED" THEN Shows(r, Written(r, r.n)) ELSE policy
  /\ Go(p, "assign", [r EXCEPT !.locked = {}])
  /\ UNCHANGED <<assigned, accepted, raised>>

-----------------------------------------------------------------------------
(* Assignments and signatures.                                             *)

\* assignPolicy
Assign(p, to) ==
  /\ policy.status = "PUBLISHED"
  /\ Reads(p, "assign", [NoReq EXCEPT !.n = policy.version, !.to = to])

\* getMyPolicies: a published policy that is assigned to nobody goes to whoever asks.
MyPolicies(p, e) ==
  /\ policy.status = "PUBLISHED" /\ assigned = Unassigned
  /\ Reads(p, "assign", [NoReq EXCEPT !.n = policy.version, !.to = {e}])

Has(n) == {e \in Emps : assigned[n][e] # "NONE"}
Whom(r) ==
  r.to \cup CASE r.also = "before" -> Has(r.base)
              [] r.also = "ever" -> UNION {Has(n) : n \in Version}
              [] OTHER -> {}
\* assignPolicyInternal: whoever has no assignment of the version gets one.
AssignWrite(p) ==
  LET r == req[p] IN
  /\ At(p, "assign") /\ Exists
  /\ assigned' = [assigned EXCEPT ![r.n] =
       [e \in Emps |-> IF e \in Whom(r) /\ @[e] = "NONE" THEN "PENDING" ELSE @[e]]]
  /\ Finish(p) /\ UNCHANGED <<policy, versions, accepted, raised>>

\* signPolicy: the version in force, as it is read.
Sign(p, e) ==
  /\ policy.status = "PUBLISHED" /\ assigned[policy.version][e] = "PENDING"
  /\ Reads(p, "sign", [NoReq EXCEPT !.n = policy.version, !.hash = policy.hash, !.to = {e}])
\* (mutant) Nothing keeps two signatures of one assignment apart.
AnyTimes(n, e) == TRUE
\* assignmentId @unique
Unaccepted(n, e) == accepted[n][e] = <<>>
SignWrite(p) ==
  LET r == req[p] IN
  /\ At(p, "sign") /\ Exists
  /\ \E e \in r.to :
       /\ Unaccepted(r.n, e)
       /\ accepted' = [accepted EXCEPT ![r.n][e] = Append(@, r.hash)]
       /\ assigned' = [assigned EXCEPT ![r.n][e] = "SIGNED"]
  /\ Finish(p) /\ UNCHANGED <<policy, versions, raised>>

-----------------------------------------------------------------------------
Ask(p) ==
  \/ Archive(p) \/ Delete(p) \/ ListVersions(p)
  \/ \E n \in Version : Restore(p, n)
  \/ \E e \in Emps : MyPolicies(p, e) \/ Sign(p, e)
  \/ \E to \in SUBSET Emps :
       \/ Publish(p, to) \/ Assign(p, to)
       \/ \E n \in Version : PublishVersion(p, n, to)
       \/ \E published \in BOOLEAN : Create(p, AText, published, to)
       \/ \E t \in Texts \cup {Keep}, published \in BOOLEAN : NewVersion(p, t, published, to)
       \/ \E t \in Texts : Update(p, t, Keep, FALSE, to)
       \/ \E st \in Status \cup {Keep}, bump \in BOOLEAN : Update(p, Keep, st, bump, to)

Answer(p) ==
  \/ FirstRow(p) \/ UpdateWrite(p) \/ Backfill(p) \/ ArchiveCurrents(p) \/ ArchiveLocked(p) \/ Commit(p)
  \/ AssignWrite(p) \/ SignWrite(p) \/ Fail(p)

Next == \E p \in Procs : Ask(p) \/ Answer(p)
Spec == Init /\ [][Next]_vars

-----------------------------------------------------------------------------
(* Properties.                                                             *)

\* However requests overlap, an assignment is signed exactly when there is one
\* acceptance of it (signPolicy, assignPolicyInternal).
SignedOnce == \A n \in Version, e \in Emps :
  Len(accepted[n][e]) = (IF assigned[n][e] = "SIGNED" THEN 1 ELSE 0)

\* However requests overlap, who signed a version signed the hash that its row
\* has (signPolicy signs the hash that the policy repeats), as long as no edit
\* raised the number (updatePolicy, which writes no version).
SignatureNamesItsVersion == ~raised => \A n \in Rows, e \in Emps :
  \A i \in 1 .. Len(accepted[n][e]) : accepted[n][e][i] = versions[n].hash

\* Requests that do not overlap leave at most one version current; it is
\* published, and the policy repeats its number, its text and its hash, as long as
\* no edit raised the number (createPolicyVersion, publishPolicyVersion,
\* restorePolicyVersion, whichever of their steps fail).
OneCurrentVersion == overlaps = 0 =>
  /\ Cardinality(Currents) <= 1
  /\ \A n \in Currents :
       /\ versions[n].status = "PUBLISHED"
       /\ ~raised => policy.version = n /\ policy.text = versions[n].text /\ policy.hash = versions[n].hash

\* However requests overlap, what a version says is never written over, as
\* long as the policy is there ("Never overwrite or delete the existing policy
\* document", createPolicyVersion).
HistoryKept == [][Exists' => \A n \in Rows :
  /\ versions'[n].text = versions[n].text
  /\ versions'[n].hash = versions[n].hash]_vars
=============================================================================
