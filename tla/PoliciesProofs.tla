--------------------------- MODULE PoliciesProofs ---------------------------
(***************************************************************************)
(* What Policies promises, proved for any number of requests, members,     *)
(* texts and versions.                                                     *)
(***************************************************************************)
EXTENDS Policies, FiniteSetTheorems, WellFoundedInduction, TLAPS

(* What the statements in flight hold, beyond the types of the rows.       *)

\* A request that writes has something to write.
Carries(at, r) ==
  /\ at = "firstRow" => r.text \in Texts /\ r.status \in Status /\ r.hash \in Hashes
  /\ at \in {"update", "sign"} => r.hash \in Hashes
  /\ at = "update" => r.base <= r.n
  /\ at \in {"archive", "lock", "commit"} =>
       /\ r.status \in Status /\ r.op \in {"new", "publish"}
       /\ r.op = "publish" \/ at # "commit" => r.status = "PUBLISHED"
       /\ r.op = "new" => r.n # 1 /\ r.text \in Texts /\ r.hash \in Hashes
  /\ at \notin {"lock", "commit"} => r.locked = {}

\* What is there has a hash, and nothing is left of a policy that is not.
RowsOK ==
  /\ policy \in Policy /\ versions \in [Version -> Row]
  /\ assigned \in [Version -> [Emps -> {"NONE", "PENDING", "SIGNED"}]]
  /\ accepted \in [Version -> [Emps -> Seq(Hashes)]]
  /\ raised \in BOOLEAN /\ overlaps \in 0 .. Overlaps
  /\ Exists => policy.hash \in Hashes
  /\ \A n \in Rows : versions[n].hash \in Hashes
  /\ ~Exists => versions = NoVersions /\ accepted = Unsigned

\* The rows that a transaction has selected are there.
LocksOK == Exists => \A p \in Procs : req[p].locked \subseteq Rows

TypeInv == TypeOK /\ RowsOK /\ LocksOK /\ \A p \in Procs : Carries(stage[p], req[p])

(* One hash for one number: the row's, or, while the first version has no  *)
(* row, the one that the policy was created with.                          *)
Says(h, n, x) == IF n \in Rows THEN x = versions[n].hash ELSE n = 1 /\ x = h
ReqNamed(h, at, r) ==
  /\ at = "sign" => Says(h, r.n, r.hash)
  /\ at = "update" /\ r.n = r.base => Says(h, r.n, r.hash)
  /\ at = "firstRow" => r.hash = h
SignedNamed(h) ==
  \A n \in Version, e \in Emps : \A i \in 1 .. Len(accepted[n][e]) : Says(h, n, accepted[n][e][i])
Named(h) ==
  /\ Says(h, policy.version, policy.hash)
  /\ SignedNamed(h)
  /\ \A p \in Procs : ReqNamed(h, stage[p], req[p])
NameInv == ~raised /\ Exists => \E h \in Hashes : Named(h)

(* Without overlaps the policy does not change between a request's read    *)
(* and its write.                                                          *)
Alone == \A p, q \in Procs : stage[p] # "idle" /\ stage[q] # "idle" => p = q
Fresh(p) ==
  /\ stage[p] = "firstRow" => Rows = {} /\ policy.version = 1 /\ policy.status = req[p].status
                              /\ policy.text = req[p].text /\ policy.hash = req[p].hash
  /\ stage[p] = "backfill" => Rows = {}
  /\ stage[p] = "update" /\ req[p].n = req[p].base =>
       policy.version = req[p].n /\ policy.hash = req[p].hash /\ req[p].text \in {Keep, policy.text}
  /\ stage[p] = "lock" => req[p].locked = Archives(p) /\ req[p].status = "PUBLISHED"
  /\ stage[p] = "commit" => req[p].locked =
       IF req[p].status = "PUBLISHED" THEN Archives(p) ELSE {}
SoleCurrent ==
  /\ \A m, n \in Currents : m = n
  /\ \A n \in Currents :
       /\ versions[n].status = "PUBLISHED"
       /\ ~raised => policy.version = n /\ policy.text = versions[n].text /\ policy.hash = versions[n].hash
AloneInv == overlaps = 0 => Alone /\ SoleCurrent /\ (Exists => \A p \in Procs : Fresh(p))

-----------------------------------------------------------------------------
(* Lemmas about the operators.                                             *)

\* A set of version numbers that is not empty has a largest.
LEMMA MaxOfVersions ==
  ASSUME NEW S \in SUBSET Version, S # {}
  PROVE  \E n \in S : \A k \in S : k <= n
<1>. DEFINE Bounds == {m \in Nat : \A k \in S : k <= m}
<1>1. MaxVersion \in Bounds
  BY PolicyConstants DEF Version
<1>2. PICK m \in Bounds : \A y \in Bounds : <<y, m>> \notin OpToRel(<, Nat)
  BY <1>1, NatLessThanWellFounded, WFMin
<1>3. m \in Nat /\ (\A k \in S : k <= m) /\ \A y \in Bounds : ~(y < m)
  BY <1>2 DEF OpToRel
<1>4. m \in S
  <2>. SUFFICES ASSUME m \notin S PROVE FALSE
    OBVIOUS
  <2>. HIDE DEF Bounds
  <2>1. ASSUME NEW k \in S PROVE k \in Nat /\ k >= 1 /\ k <= m - 1
    <3>1. k \in Nat /\ k >= 1 /\ k <= m /\ k # m
      BY <1>3, PolicyConstants DEF Version
    <3>. QED  BY <1>3, <3>1
  <2>2. PICK k \in S : TRUE
    OBVIOUS
  <2>3. m - 1 \in Nat /\ m - 1 < m
    BY <1>3, <2>1, <2>2
  <2>4. m - 1 \in Bounds
    BY <2>1, <2>3 DEF Bounds
  <2>. QED  BY <1>3, <2>3, <2>4
<1>. QED  BY <1>3, <1>4

\* The number after the newest is never 1, and nobody has it.
LEMMA NextNumberType ==
  ASSUME TypeOK, NextNumber <= MaxVersion
  PROVE  NextNumber \in Version /\ NextNumber # 1
<1>. Rows \in SUBSET Version /\ policy.version \in Version
  BY DEF Rows, TypeOK, Policy
<1>1. CASE Rows = {}
  BY <1>1, PolicyConstants DEF NextNumber, Version
<1>2. CASE Rows # {}
  <2>. DEFINE n == CHOOSE n \in Rows : \A k \in Rows : k <= n
  <2>1. n \in Version
    BY <1>2, MaxOfVersions
  <2>2. NextNumber = n + 1
    BY <1>2 DEF NextNumber
  <2>. QED  BY <2>1, <2>2, PolicyConstants DEF Version
<1>. QED  BY <1>1, <1>2

\* A request moves alone.
LEMMA GoFacts ==
  ASSUME TypeOK, NEW p \in Procs, NEW at, NEW r, Go(p, at, r)
  PROVE  /\ stage'[p] = at /\ req'[p] = r
         /\ \A q \in Procs \ {p} : stage'[q] = stage[q] /\ req'[q] = req[q]
         /\ at \in Stage /\ r \in Req => stage' \in [Procs -> Stage] /\ req' \in [Procs -> Req]
BY DEF Go, TypeOK

LEMMA NoReqType == NoReq \in Req
BY PolicyConstants DEF NoReq, Req, Version, Others

LEMMA HashType ==
  ASSUME NEW n \in Version, NEW t \in Texts
  PROVE  Hash(n, t) \in Hashes
BY DEF Hashes

LEMMA ATextType == AText \in Texts
BY PolicyConstants DEF AText

\* The overlaps are counted up to the bound.
LEMMA BeginsType ==
  ASSUME TypeOK, NEW p \in Procs, Begins(p)
  PROVE  overlaps' \in 0 .. Overlaps
BY PolicyConstants DEF Begins, TypeOK

-----------------------------------------------------------------------------
(* The types.                                                              *)

LEMMA EmptyTypes ==
  /\ NoPolicy \in Policy /\ NoVersions \in [Version -> Row]
  /\ Unassigned \in [Version -> [Emps -> {"NONE", "PENDING", "SIGNED"}]]
  /\ Unsigned \in [Version -> [Emps -> Seq(Hashes)]]
<1>1. NoPolicy \in Policy /\ NoRow \in Row
  BY ATextType, PolicyConstants DEF NoPolicy, NoRow, Policy, Row, Version
<1>2. <<>> \in Seq(Hashes)
  OBVIOUS
<1>. QED  BY <1>1, <1>2 DEF NoVersions, Unassigned, Unsigned

LEMMA TypeInit == Init => TypeInv
<1>. SUFFICES ASSUME Init PROVE TypeInv
  OBVIOUS
<1>1. ~Exists /\ Rows = {}
  BY DEF Init, Exists, Rows, NoPolicy, NoVersions, NoRow
<1>2. 0 \in 0 .. Overlaps
  BY PolicyConstants
<1>3. RowsOK /\ LocksOK
  BY <1>1, <1>2, EmptyTypes DEF RowsOK, LocksOK, Init
<1>4. stage \in [Procs -> Stage] /\ req \in [Procs -> Req]
  BY NoReqType DEF Init, Stage
<1>5. \A p \in Procs : Carries(stage[p], req[p])
  BY DEF Init, Carries, NoReq
<1>. QED  BY <1>3, <1>4, <1>5 DEF TypeInv, TypeOK, RowsOK

\* A step of one request that leaves the rows well typed and gives it what its
\* next statement needs.
LEMMA MoveType ==
  ASSUME TypeInv, NEW p \in Procs, NEW at \in Stage, NEW r \in Req,
         Go(p, at, r), Carries(at, r), RowsOK',
         Exists' => Idle \/ (Exists /\ Rows \subseteq Rows'),
         r.locked \subseteq Rows'
  PROVE  TypeInv'
<1>1. /\ stage'[p] = at /\ req'[p] = r
      /\ \A q \in Procs \ {p} : stage'[q] = stage[q] /\ req'[q] = req[q]
      /\ stage' \in [Procs -> Stage] /\ req' \in [Procs -> Req]
  BY GoFacts DEF TypeInv
<1>2. \A q \in Procs : Carries(stage'[q], req'[q])
  BY <1>1 DEF TypeInv
<1>3. Idle => \A q \in Procs : req[q].locked = {}
  BY DEF Idle, TypeInv, Carries
<1>4. LocksOK'
  BY <1>1, <1>3 DEF LocksOK, TypeInv
<1>. QED  BY <1>1, <1>2, <1>4 DEF TypeInv, TypeOK, RowsOK

LEMMA FinishType ==
  ASSUME TypeInv, NEW p \in Procs, Finish(p), RowsOK',
         Exists' => Exists /\ Rows \subseteq Rows'
  PROVE  TypeInv'
<1>1. Carries("idle", NoReq) /\ "idle" \in Stage /\ NoReq.locked = {}
  BY DEF Carries, Stage, NoReq
<1>. QED  BY <1>1, NoReqType, MoveType DEF Finish

\* A request that only reads, and what it carries from there.
LEMMA ReadsType ==
  ASSUME TypeInv, NEW p \in Procs, NEW at \in Stage, NEW r \in Req,
         Reads(p, at, r), Carries(at, r), r.locked = {}
  PROVE  TypeInv'
<1>1. overlaps' \in 0 .. Overlaps
  BY BeginsType DEF TypeInv, Reads
<1>2. RowsOK' /\ Exists' /\ Exists /\ Rows' = Rows
  BY <1>1 DEF TypeInv, Reads, RowsOK, rows, Exists, Rows
<1>. QED  BY <1>2, MoveType DEF Reads

\* The requests that read before they write.
Reading(p) ==
  \/ ListVersions(p)
  \/ \E n \in Version : Restore(p, n)
  \/ \E e \in Emps : MyPolicies(p, e) \/ Sign(p, e)
  \/ \E to \in SUBSET Emps :
       \/ Assign(p, to)
       \/ \E n \in Version : PublishVersion(p, n, to)
       \/ \E t \in Texts \cup {Keep}, published \in BOOLEAN : NewVersion(p, t, published, to)
       \/ \E t \in Texts : Update(p, t, Keep, FALSE, to)
       \/ \E st \in Status \cup {Keep}, bump \in BOOLEAN : Update(p, Keep, st, bump, to)

LEMMA UpdateType ==
  ASSUME TypeInv, NEW p \in Procs, NEW t \in Texts \cup {Keep}, NEW st \in Status \cup {Keep},
         NEW bump \in BOOLEAN, NEW to \in SUBSET Emps, Update(p, t, st, bump, to)
  PROVE  TypeInv'
<1>. DEFINE up == bump \/ t \notin {Keep, policy.text}
            n == IF up THEN policy.version + 1 ELSE policy.version
            now == IF t = Keep THEN policy.text ELSE t
            h == IF up THEN Hash(n, now) ELSE policy.hash
            r == [NoReq EXCEPT !.op = "edit", !.n = n, !.base = policy.version, !.text = t,
                               !.status = st, !.hash = h, !.to = to,
                               !.also = IF up THEN "before" ELSE "nobody"]
<1>1. n <= MaxVersion /\ Reads(p, "update", r)
  BY DEF Update
<1>2. policy \in Policy /\ policy.hash \in Hashes
  BY <1>1 DEF Reads, TypeInv, RowsOK
<1>3. n \in Version /\ policy.version \in Version /\ now \in Texts /\ policy.version <= n
  BY <1>1, <1>2, PolicyConstants DEF Policy, Version
<1>4. h \in Hashes
  BY <1>2, <1>3, HashType
<1>. HIDE DEF up, n, now, h
<1>5. r \in Req
  BY <1>3, <1>4, NoReqType DEF Req, Others, NoReq
<1>6. Carries("update", r) /\ "update" \in Stage /\ r.locked = {}
  BY <1>3, <1>4 DEF Carries, NoReq, Stage
<1>. QED  BY <1>1, <1>5, <1>6, ReadsType

LEMMA NewVersionType ==
  ASSUME TypeInv, NEW p \in Procs, NEW t \in Texts \cup {Keep},
         NEW published \in BOOLEAN, NEW to \in SUBSET Emps, NewVersion(p, t, published, to)
  PROVE  TypeInv'
<1>. DEFINE now == IF t = Keep THEN policy.text ELSE t
            at == IF published THEN "archive" ELSE "commit"
            r == [NoReq EXCEPT !.op = "new", !.n = NextNumber, !.text = now,
                     !.hash = Hash(NextNumber, now),
                     !.status = IF published THEN "PUBLISHED" ELSE "DRAFT",
                     !.to = IF published THEN to ELSE {},
                     !.also = IF published /\ to = {} THEN "ever" ELSE "nobody"]
<1>1. NextNumber <= MaxVersion /\ Reads(p, at, r)
  BY DEF NewVersion
<1>2. NextNumber \in Version /\ NextNumber # 1
  BY <1>1, NextNumberType DEF TypeInv
<1>3. now \in Texts
  BY DEF TypeInv, RowsOK, Policy
<1>4. Hash(NextNumber, now) \in Hashes
  BY <1>2, <1>3, HashType
<1>. HIDE DEF now
<1>5. r \in Req
  BY <1>2, <1>3, <1>4, NoReqType DEF Req, Others, NoReq, Status
<1>6. Carries(at, r) /\ at \in Stage /\ r.locked = {}
  BY <1>2, <1>3, <1>4 DEF Carries, NoReq, Stage, Status
<1>. QED  BY <1>1, <1>5, <1>6, ReadsType

LEMMA ReadingType ==
  ASSUME TypeInv, NEW p \in Procs, Reading(p)
  PROVE  TypeInv'
<1>0. policy \in Policy /\ policy.version \in Version /\ (Exists => policy.hash \in Hashes)
  BY DEF TypeInv, RowsOK, Policy
<1>1. CASE ListVersions(p)
  <2>1. Carries("backfill", NoReq) /\ "backfill" \in Stage /\ NoReq.locked = {}
    BY DEF Carries, Stage, NoReq
  <2>. QED  BY <1>1, <2>1, NoReqType, ReadsType DEF ListVersions
<1>2. ASSUME NEW n \in Version, Restore(p, n)
      PROVE  TypeInv'
  <2>. DEFINE r == [NoReq EXCEPT !.op = "new", !.n = NextNumber, !.text = versions[n].text,
                     !.hash = versions[n].hash, !.status = "PUBLISHED", !.also = "ever"]
  <2>1. NextNumber <= MaxVersion /\ n \in Rows /\ Reads(p, "archive", r)
    BY <1>2 DEF Restore
  <2>2. NextNumber \in Version /\ NextNumber # 1
    BY <2>1, NextNumberType DEF TypeInv
  <2>3. versions[n].text \in Texts /\ versions[n].hash \in Hashes
    BY <2>1 DEF TypeInv, RowsOK, Row
  <2>4. r \in Req
    BY <2>2, <2>3, NoReqType DEF Req, Others, NoReq, Status
  <2>5. Carries("archive", r) /\ "archive" \in Stage /\ r.locked = {}
    BY <2>2, <2>3 DEF Carries, NoReq, Stage, Status
  <2>. QED  BY <2>1, <2>4, <2>5, ReadsType
<1>3. ASSUME NEW to \in SUBSET Emps, Reads(p, "assign", [NoReq EXCEPT !.n = policy.version, !.to = to])
      PROVE  TypeInv'
  <2>1. [NoReq EXCEPT !.n = policy.version, !.to = to] \in Req
    BY <1>0, NoReqType DEF Req, NoReq
  <2>2. Carries("assign", [NoReq EXCEPT !.n = policy.version, !.to = to]) /\ "assign" \in Stage
        /\ [NoReq EXCEPT !.n = policy.version, !.to = to].locked = {}
    BY DEF Carries, Stage, NoReq
  <2>. QED  BY <1>3, <2>1, <2>2, ReadsType
<1>4. ASSUME NEW e \in Emps, Sign(p, e)
      PROVE  TypeInv'
  <2>. DEFINE r == [NoReq EXCEPT !.n = policy.version, !.hash = policy.hash, !.to = {e}]
  <2>1. Reads(p, "sign", r)
    BY <1>4 DEF Sign
  <2>2. policy.hash \in Hashes
    BY <1>0, <2>1 DEF Reads
  <2>3. r \in Req
    BY <1>0, <2>2, NoReqType DEF Req, NoReq
  <2>4. Carries("sign", r) /\ "sign" \in Stage /\ r.locked = {}
    BY <2>2 DEF Carries, Stage, NoReq
  <2>. QED  BY <2>1, <2>3, <2>4, ReadsType
<1>5. ASSUME NEW to \in SUBSET Emps, NEW n \in Version, PublishVersion(p, n, to)
      PROVE  TypeInv'
  <2>. DEFINE r == [NoReq EXCEPT !.op = "publish", !.n = n, !.status = "PUBLISHED", !.to = to]
  <2>1. r \in Req
    BY NoReqType DEF Req, NoReq, Status
  <2>2. Carries("archive", r) /\ "archive" \in Stage /\ r.locked = {}
    BY DEF Carries, Stage, NoReq, Status
  <2>. QED  BY <1>5, <2>1, <2>2, ReadsType DEF PublishVersion
<1>6. CASE \E e \in Emps : MyPolicies(p, e)
  BY <1>3, <1>6 DEF MyPolicies
<1>7. CASE \E to \in SUBSET Emps : Assign(p, to)
  BY <1>3, <1>7 DEF Assign
<1>. QED  BY <1>1, <1>2, <1>4, <1>5, <1>6, <1>7, NewVersionType, UpdateType DEF Reading

\* The statements that write.
LEMMA CreateType ==
  ASSUME TypeInv, NEW p \in Procs, NEW published \in BOOLEAN, NEW to \in SUBSET Emps,
         Create(p, AText, published, to)
  PROVE  TypeInv'
<1>. DEFINE st == IF published THEN "PUBLISHED" ELSE "DRAFT"
            r == [NoReq EXCEPT !.text = AText, !.status = st, !.hash = Hash(1, AText),
                               !.to = IF published THEN to ELSE {}]
<1>1. 1 \in Version /\ AText \in Texts /\ Hash(1, AText) \in Hashes
  BY ATextType, HashType, PolicyConstants DEF Version
<1>2. /\ policy' = [status |-> st, version |-> 1, text |-> AText, hash |-> Hash(1, AText)]
      /\ Go(p, "firstRow", r)
      /\ versions' = versions /\ assigned' = assigned /\ accepted' = accepted
      /\ raised' = FALSE /\ overlaps' = 0
  BY DEF Create
<1>3. st \in Status
  BY DEF Status
<1>. HIDE DEF st
<1>4. r \in Req
  BY <1>1, <1>3, NoReqType DEF Req, NoReq
<1>5. Carries("firstRow", r) /\ "firstRow" \in Stage
  BY <1>1, <1>3 DEF Carries, NoReq, Stage
<1>6. policy' \in Policy /\ policy'.hash \in Hashes /\ Exists'
  BY <1>1, <1>2, <1>3 DEF Policy, Exists, Status
<1>7. Rows' = Rows
  BY <1>2 DEF Rows
<1>8. 0 \in 0 .. Overlaps
  BY PolicyConstants
<1>9. RowsOK'
  BY <1>2, <1>6, <1>7, <1>8 DEF RowsOK, TypeInv
<1>10. Idle /\ r.locked \subseteq Rows'
  BY DEF Create, NoReq
<1>11. Go(p, "firstRow", r)
  BY <1>2
<1>. HIDE DEF r
<1>. QED  BY <1>4, <1>5, <1>9, <1>10, <1>11, MoveType

LEMMA ArchiveType ==
  ASSUME TypeInv, NEW p \in Procs, Archive(p)
  PROVE  TypeInv'
<1>1. overlaps' \in 0 .. Overlaps
  BY BeginsType DEF TypeInv, Archive, Once
<1>2. /\ policy' = [policy EXCEPT !.status = "ARCHIVED"] /\ Exists
      /\ UNCHANGED <<versions, assigned, accepted, raised, stage, req>>
  BY DEF Archive, Once, Retired
<1>3. policy \in Policy /\ policy.hash \in Hashes
  BY <1>2 DEF TypeInv, RowsOK
<1>4. policy' \in Policy /\ policy'.hash \in Hashes /\ Exists'
  BY <1>2, <1>3 DEF Policy, Exists, Status
<1>5. RowsOK'
  BY <1>1, <1>2, <1>4 DEF RowsOK, TypeInv, Rows
<1>. QED  BY <1>2, <1>5 DEF TypeInv, TypeOK, RowsOK, LocksOK, Rows

LEMMA DeleteType ==
  ASSUME TypeInv, NEW p \in Procs, Delete(p)
  PROVE  TypeInv'
<1>1. /\ policy' = NoPolicy /\ versions' = NoVersions
      /\ assigned' = Unassigned /\ accepted' = Unsigned
      /\ UNCHANGED <<raised, overlaps, stage, req>>
  BY DEF Delete
<1>2. ~Exists' /\ Rows' = {}
  BY <1>1 DEF Exists, Rows, NoPolicy, NoVersions, NoRow
<1>3. RowsOK'
  BY <1>1, <1>2, EmptyTypes DEF RowsOK, TypeInv
<1>. QED  BY <1>1, <1>2, <1>3 DEF TypeInv, TypeOK, RowsOK, LocksOK

LEMMA PublishType ==
  ASSUME TypeInv, NEW p \in Procs, NEW to \in SUBSET Emps, Publish(p, to)
  PROVE  TypeInv'
<1>. DEFINE r == [NoReq EXCEPT !.n = policy.version, !.to = to]
<1>1. overlaps' \in 0 .. Overlaps
  BY BeginsType DEF TypeInv, Publish
<1>2. /\ policy' = [policy EXCEPT !.status = "PUBLISHED"] /\ Exists
      /\ Go(p, "assign", r)
      /\ UNCHANGED <<versions, assigned, accepted, raised>>
  BY DEF Publish
<1>3. policy \in Policy /\ policy.hash \in Hashes
  BY <1>2 DEF TypeInv, RowsOK
<1>4. policy' \in Policy /\ policy'.hash \in Hashes /\ Exists'
  BY <1>2, <1>3 DEF Policy, Exists, Status
<1>5. RowsOK'
  BY <1>1, <1>2, <1>4 DEF RowsOK, TypeInv, Rows
<1>6. r \in Req /\ Carries("assign", r) /\ "assign" \in Stage
  BY <1>3, NoReqType DEF Req, NoReq, Policy, Carries, Stage
<1>7. Rows' = Rows /\ r.locked = {}
  BY <1>2 DEF Rows, NoReq
<1>. QED  BY <1>2, <1>5, <1>6, <1>7, MoveType

LEMMA FirstRowType ==
  ASSUME TypeInv, NEW p \in Procs, FirstRow(p)
  PROVE  TypeInv'
<1>. DEFINE r == [NoReq EXCEPT !.to = req[p].to]
            row == [status |-> req[p].status, current |-> req[p].status = "PUBLISHED",
                    text |-> req[p].text, hash |-> req[p].hash]
<1>1. /\ stage[p] = "firstRow" /\ Go(p, "assign", r)
      /\ UNCHANGED <<policy, assigned, accepted, raised, overlaps>>
      /\ \/ Exists /\ versions' = [versions EXCEPT ![1] = row]
         \/ versions' = versions
  BY DEF FirstRow, At
<1>2. Carries(stage[p], req[p]) /\ req[p] \in Req
  BY DEF TypeInv, TypeOK
<1>3. row \in Row /\ row.hash \in Hashes
  BY <1>1, <1>2 DEF Carries, Row
<1>4. 1 \in Version /\ versions \in [Version -> Row]
  BY PolicyConstants DEF Version, TypeInv, RowsOK
<1>. HIDE DEF row
<1>5. versions' \in [Version -> Row] /\ \A n \in Rows' : versions'[n].hash \in Hashes
  BY <1>1, <1>3, <1>4 DEF TypeInv, RowsOK, Rows
<1>6. Exists' = Exists
  BY <1>1 DEF Exists
<1>7. RowsOK'
  BY <1>1, <1>5, <1>6 DEF RowsOK, TypeInv
<1>8. r \in Req /\ Carries("assign", r) /\ "assign" \in Stage
  BY <1>2, NoReqType DEF Req, NoReq, Carries, Stage
<1>9. Rows \subseteq Rows' /\ r.locked = {}
  <2>1. row.status # "NONE"
    BY <1>1, <1>2 DEF Carries, Status, row
  <2>. QED  BY <1>1, <1>4, <2>1 DEF Rows, NoReq, TypeInv, RowsOK
<1>. QED  BY <1>1, <1>6, <1>7, <1>8, <1>9, MoveType

LEMMA UpdateWriteType ==
  ASSUME TypeInv, NEW p \in Procs, UpdateWrite(p)
  PROVE  TypeInv'
<1>. DEFINE r == req[p]
            next == [NoReq EXCEPT !.n = r.n, !.base = r.base, !.to = r.to, !.also = r.also]
<1>1. /\ stage[p] = "update" /\ Exists /\ Go(p, "assign", next)
      /\ UNCHANGED <<versions, assigned, accepted, overlaps>>
      /\ raised' = (raised \/ r.n > r.base)
      /\ policy' = [status |-> IF r.status = Keep THEN policy.status ELSE r.status,
                    version |-> r.n, hash |-> r.hash,
                    text |-> IF r.text = Keep THEN policy.text ELSE r.text]
  BY DEF UpdateWrite, At
<1>2. r \in Req /\ r.hash \in Hashes /\ policy \in Policy
  BY <1>1 DEF TypeInv, TypeOK, Carries
<1>3. policy' \in Policy /\ policy'.hash \in Hashes /\ Exists'
  BY <1>1, <1>2 DEF Policy, Exists, Status, Req
<1>4. RowsOK'
  BY <1>1, <1>3 DEF RowsOK, TypeInv, Rows
<1>5. next \in Req /\ Carries("assign", next) /\ "assign" \in Stage
  BY <1>2, NoReqType DEF Req, NoReq, Carries, Stage
<1>6. Rows' = Rows /\ next.locked = {}
  BY <1>1 DEF Rows, NoReq
<1>. QED  BY <1>1, <1>4, <1>5, <1>6, MoveType

LEMMA BackfillType ==
  ASSUME TypeInv, NEW p \in Procs, Backfill(p)
  PROVE  TypeInv'
<1>. DEFINE row == [status |-> policy.status, current |-> policy.status = "PUBLISHED",
                    text |-> policy.text, hash |-> policy.hash]
<1>1. /\ Exists /\ Finish(p) /\ UNCHANGED <<policy, assigned, accepted, raised, overlaps>>
      /\ versions' = [versions EXCEPT ![policy.version] = row]
  BY DEF Backfill, At
<1>2. policy \in Policy /\ policy.hash \in Hashes /\ versions \in [Version -> Row]
  BY <1>1 DEF TypeInv, RowsOK
<1>3. row \in Row /\ row.hash \in Hashes /\ policy.version \in Version
  BY <1>2 DEF Policy, Row
<1>. HIDE DEF row
<1>4. versions' \in [Version -> Row] /\ \A n \in Rows' : versions'[n].hash \in Hashes
  BY <1>1, <1>2, <1>3 DEF TypeInv, RowsOK, Rows
<1>5. RowsOK'
  BY <1>1, <1>4 DEF RowsOK, TypeInv, Exists
<1>6. Rows \subseteq Rows'
  BY <1>1, <1>2 DEF Rows, row, Exists
<1>. QED  BY <1>1, <1>5, <1>6, FinishType DEF Exists

LEMMA ArchiveCurrentsType ==
  ASSUME TypeInv, NEW p \in Procs, ArchiveCurrents(p)
  PROVE  TypeInv'
<1>. DEFINE r == [req[p] EXCEPT !.locked = Archives(p)]
<1>1. stage[p] = "archive" /\ Go(p, "lock", r) /\ UNCHANGED <<rows, raised, overlaps>>
  BY DEF ArchiveCurrents, At
<1>2. req[p] \in Req /\ Carries("archive", req[p])
  BY <1>1 DEF TypeInv, TypeOK
<1>3. Archives(p) \in SUBSET Version
  BY DEF Archives, Currents, Rows
<1>4. r \in Req /\ Carries("lock", r) /\ "lock" \in Stage
  BY <1>2, <1>3 DEF Req, Carries, Stage
<1>5. RowsOK'
  BY <1>1 DEF TypeInv, RowsOK, rows, Exists, Rows
<1>6. Rows' = Rows /\ Exists' = Exists /\ r.locked \subseteq Rows
  BY <1>1, <1>2 DEF Rows, Exists, rows, Archives, Currents, Req
<1>. QED  BY <1>1, <1>4, <1>5, <1>6, MoveType

LEMMA ArchiveLockedType ==
  ASSUME TypeInv, NEW p \in Procs, ArchiveLocked(p)
  PROVE  TypeInv'
<1>. DEFINE r == [req[p] EXCEPT !.locked = @ \cap Archives(p)]
<1>1. stage[p] = "lock" /\ Go(p, "commit", r) /\ UNCHANGED <<rows, raised, overlaps>>
  BY DEF ArchiveLocked, At
<1>2. req[p] \in Req /\ Carries("lock", req[p])
  BY <1>1 DEF TypeInv, TypeOK
<1>3. req[p].locked \cap Archives(p) \in SUBSET Version
  BY <1>2 DEF Req
<1>4. r \in Req /\ Carries("commit", r) /\ "commit" \in Stage
  BY <1>2, <1>3 DEF Req, Carries, Stage
<1>5. RowsOK'
  BY <1>1 DEF TypeInv, RowsOK, rows, Exists, Rows
<1>6. Rows' = Rows /\ Exists' = Exists /\ r.locked \subseteq Rows
  BY <1>1, <1>2 DEF Rows, Exists, rows, Archives, Currents, Req
<1>. QED  BY <1>1, <1>4, <1>5, <1>6, MoveType

\* What Commit makes of a version is a row of it.
LEMMA WrittenType ==
  ASSUME TypeInv, NEW p \in Procs, stage[p] = "commit",
         Exists, req[p].op = "publish" => req[p].n \in Rows, NEW n \in Version
  PROVE  /\ Written(req[p], n) \in Row
         /\ Written(req[p], n).status # "NONE" => Written(req[p], n).hash \in Hashes
<1>. DEFINE r == req[p]
<1>1. r \in Req /\ Carries("commit", r) /\ versions[n] \in Row
      /\ (versions[n].status # "NONE" => versions[n].hash \in Hashes)
  BY DEF TypeInv, TypeOK, Rows, RowsOK
<1>2. CASE n = r.n /\ r.op = "publish"
  <2>1. Written(r, n) = [versions[n] EXCEPT !.status = "PUBLISHED", !.current = TRUE]
    BY <1>2 DEF Written
  <2>2. n \in Rows
    BY <1>2
  <2>. QED  BY <1>1, <2>1, <2>2 DEF Row, Rows, Status
<1>3. CASE n = r.n /\ r.op = "new"
  <2>1. Written(r, n) = [status |-> r.status, current |-> r.status = "PUBLISHED",
                         text |-> r.text, hash |-> r.hash]
    BY <1>3 DEF Written
  <2>. QED  BY <1>1, <1>3, <2>1 DEF Row, Carries
<1>4. CASE n # r.n /\ n \in r.locked
  <2>1. Written(r, n) = [versions[n] EXCEPT !.status = "ARCHIVED", !.current = FALSE]
    BY <1>4 DEF Written
  <2>2. n \in Rows
    BY <1>4 DEF TypeInv, LocksOK
  <2>. QED  BY <1>1, <2>1, <2>2 DEF Row, Rows, Status
<1>5. CASE n # r.n /\ n \notin r.locked
  BY <1>1, <1>5 DEF Written
<1>. QED  BY <1>1, <1>2, <1>3, <1>4, <1>5 DEF Carries

LEMMA CommitType ==
  ASSUME TypeInv, NEW p \in Procs, Commit(p)
  PROVE  TypeInv'
<1>. DEFINE r == req[p]
            next == [r EXCEPT !.locked = {}]
<1>1. /\ stage[p] = "commit" /\ Exists /\ Go(p, "assign", next)
      /\ IF r.op = "new" THEN Vacant(r.n) ELSE r.n \in Rows
      /\ versions' = [n \in Version |-> Written(r, n)]
      /\ policy' = IF r.status = "PUBLISHED" THEN Shows(r, Written(r, r.n)) ELSE policy
      /\ UNCHANGED <<assigned, accepted, raised, overlaps>>
  BY DEF Commit, At
<1>2. r \in Req /\ Carries("commit", r) /\ policy \in Policy /\ policy.hash \in Hashes
  BY <1>1 DEF TypeInv, TypeOK, RowsOK
<1>3. r.op = "publish" => r.n \in Rows
  BY <1>1
<1>4. \A n \in Version : /\ Written(r, n) \in Row
                         /\ Written(r, n).status # "NONE" => Written(r, n).hash \in Hashes
  BY <1>1, <1>3, WrittenType
<1>5. versions' \in [Version -> Row] /\ \A n \in Rows' : versions'[n].hash \in Hashes
  BY <1>1, <1>4 DEF Rows
<1>6. Written(r, r.n).status # "NONE" /\ r.n \in Version
  <2>1. versions \in [Version -> Row] /\ r.n \in Version
    BY <1>2 DEF TypeInv, RowsOK, Req
  <2>2. CASE r.op = "publish"
    <3>1. Written(r, r.n) = [versions[r.n] EXCEPT !.status = "PUBLISHED", !.current = TRUE]
      BY <2>2 DEF Written
    <3>. QED  BY <2>1, <3>1 DEF Row
  <2>3. CASE r.op = "new"
    <3>1. Written(r, r.n) = [status |-> r.status, current |-> r.status = "PUBLISHED",
                             text |-> r.text, hash |-> r.hash]
      BY <2>3 DEF Written
    <3>. QED  BY <1>2, <2>1, <3>1 DEF Carries, Status
  <2>. QED  BY <1>2, <2>2, <2>3 DEF Carries
<1>7. Shows(r, Written(r, r.n)) \in Policy /\ Shows(r, Written(r, r.n)).hash \in Hashes
  BY <1>4, <1>6 DEF Shows, Policy, Row, Status
<1>8. policy' \in Policy /\ policy'.hash \in Hashes /\ Exists'
  BY <1>1, <1>2, <1>7 DEF Exists, Shows
<1>9. RowsOK'
  BY <1>1, <1>5, <1>8 DEF RowsOK, TypeInv
<1>10. Rows \subseteq Rows'
  <2>1. ASSUME NEW n \in Rows PROVE Written(r, n).status # "NONE"
    <3>1. CASE n = r.n
      BY <1>6, <3>1
    <3>2. CASE n # r.n /\ n \in r.locked
      <4>1. Written(r, n) = [versions[n] EXCEPT !.status = "ARCHIVED", !.current = FALSE]
        BY <3>2 DEF Written
      <4>. QED  BY <4>1 DEF TypeInv, RowsOK, Row, Rows
    <3>3. CASE n # r.n /\ n \notin r.locked
      BY <3>3 DEF Written, Rows
    <3>. QED  BY <3>1, <3>2, <3>3
  <2>. QED  BY <1>1, <2>1 DEF Rows
<1>11. next \in Req /\ Carries("assign", next) /\ "assign" \in Stage /\ next.locked = {}
  BY <1>2 DEF Req, Carries, Stage
<1>. QED  BY <1>1, <1>9, <1>10, <1>11, MoveType

LEMMA AssignWriteType ==
  ASSUME TypeInv, NEW p \in Procs, AssignWrite(p)
  PROVE  TypeInv'
<1>1. /\ Finish(p) /\ UNCHANGED <<policy, versions, accepted, raised, overlaps>>
      /\ assigned' = [assigned EXCEPT ![req[p].n] =
           [e \in Emps |-> IF e \in Whom(req[p]) /\ @[e] = "NONE" THEN "PENDING" ELSE @[e]]]
  BY DEF AssignWrite, At
<1>2. req[p].n \in Version /\ assigned \in [Version -> [Emps -> {"NONE", "PENDING", "SIGNED"}]]
  BY DEF TypeInv, TypeOK, Req
<1>3. assigned' \in [Version -> [Emps -> {"NONE", "PENDING", "SIGNED"}]]
  BY <1>1, <1>2
<1>4. RowsOK' /\ Exists' = Exists /\ Rows' = Rows
  BY <1>1, <1>3 DEF RowsOK, TypeInv, Exists, Rows
<1>. QED  BY <1>1, <1>4, FinishType

\* One signature is added, and its assignment is SIGNED.
LEMMA SignFacts ==
  ASSUME TypeInv, NEW p \in Procs, SignWrite(p)
  PROVE  \E e \in Emps :
           /\ req[p].n \in Version /\ req[p].hash \in Hashes /\ accepted[req[p].n][e] = <<>>
           /\ accepted' = [accepted EXCEPT ![req[p].n] = [@ EXCEPT ![e] = <<req[p].hash>>]]
           /\ assigned' = [assigned EXCEPT ![req[p].n] = [@ EXCEPT ![e] = "SIGNED"]]
<1>1. req[p] \in Req /\ req[p].hash \in Hashes
  BY DEF SignWrite, At, TypeInv, TypeOK, Carries
<1>2. PICK e \in req[p].to :
           /\ accepted[req[p].n][e] = <<>>
           /\ accepted' = [accepted EXCEPT ![req[p].n][e] = Append(@, req[p].hash)]
           /\ assigned' = [assigned EXCEPT ![req[p].n][e] = "SIGNED"]
  BY DEF SignWrite, Unaccepted
<1>3. e \in Emps /\ req[p].n \in Version
  BY <1>1 DEF Req
<1>4. Append(accepted[req[p].n][e], req[p].hash) = <<req[p].hash>>
  BY <1>2
<1>. QED  BY <1>1, <1>2, <1>3, <1>4

LEMMA SignWriteType ==
  ASSUME TypeInv, NEW p \in Procs, SignWrite(p)
  PROVE  TypeInv'
<1>1. Finish(p) /\ UNCHANGED <<policy, versions, raised, overlaps>> /\ Exists
  BY DEF SignWrite, At
<1>2. PICK e \in Emps :
           /\ req[p].n \in Version /\ req[p].hash \in Hashes
           /\ accepted' = [accepted EXCEPT ![req[p].n] = [@ EXCEPT ![e] = <<req[p].hash>>]]
           /\ assigned' = [assigned EXCEPT ![req[p].n] = [@ EXCEPT ![e] = "SIGNED"]]
  BY SignFacts
<1>3. <<req[p].hash>> \in Seq(Hashes)
  BY <1>2
<1>4. /\ assigned' \in [Version -> [Emps -> {"NONE", "PENDING", "SIGNED"}]]
      /\ accepted' \in [Version -> [Emps -> Seq(Hashes)]]
  BY <1>2, <1>3 DEF TypeInv, RowsOK
<1>5. RowsOK' /\ Exists' = Exists /\ Rows' = Rows
  BY <1>1, <1>4 DEF RowsOK, TypeInv, Exists, Rows
<1>. QED  BY <1>1, <1>5, FinishType

LEMMA FailType ==
  ASSUME TypeInv, NEW p \in Procs, Fail(p)
  PROVE  TypeInv'
<1>1. Finish(p) /\ UNCHANGED <<rows, raised, overlaps>>
  BY DEF Fail
<1>2. RowsOK' /\ Exists' = Exists /\ Rows' = Rows
  BY <1>1 DEF TypeInv, RowsOK, rows, Exists, Rows
<1>. QED  BY <1>1, <1>2, FinishType

LEMMA TypeStep ==
  ASSUME TypeInv, [Next]_vars
  PROVE  TypeInv'
<1>1. CASE UNCHANGED vars
  BY <1>1 DEF vars, rows, TypeInv, TypeOK, RowsOK, LocksOK, Exists, Rows
<1>2. ASSUME NEW p \in Procs, Ask(p)
      PROVE  TypeInv'
  <2>1. \/ Reading(p) \/ Archive(p) \/ Delete(p)
        \/ \E to \in SUBSET Emps : Publish(p, to)
        \/ \E to \in SUBSET Emps, published \in BOOLEAN : Create(p, AText, published, to)
    BY <1>2 DEF Ask, Reading
  <2>. QED  BY <2>1, ReadingType, ArchiveType, DeleteType, PublishType, CreateType
<1>3. ASSUME NEW p \in Procs, Answer(p)
      PROVE  TypeInv'
  BY <1>3, FirstRowType, UpdateWriteType, BackfillType, ArchiveCurrentsType, ArchiveLockedType, CommitType,
     AssignWriteType, SignWriteType, FailType DEF Answer
<1>. QED  BY <1>1, <1>2, <1>3 DEF Next

\* The rows and the requests are of their types, whatever overlaps.
THEOREM TypeCorrect == Spec => []TypeOK
<1>1. TypeInv => TypeOK
  BY DEF TypeInv
<1>. QED  BY <1>1, TypeInit, TypeStep, PTL DEF Spec

-----------------------------------------------------------------------------
(* Signatures.                                                             *)

\* Every step but a signature leaves the acceptances, or drops them all with the
\* policy, and turns no assignment SIGNED.
LEMMA OthersDoNotSign ==
  ASSUME TypeInv, NEW p \in Procs, Ask(p) \/ Answer(p), ~SignWrite(p)
  PROVE  \/ accepted' = Unsigned /\ assigned' = Unassigned
         \/ /\ accepted' = accepted
            /\ \A n \in Version, e \in Emps : assigned'[n][e] = "SIGNED" <=> assigned[n][e] = "SIGNED"
<1>1. CASE AssignWrite(p)
  <2>1. /\ accepted' = accepted
        /\ assigned' = [assigned EXCEPT ![req[p].n] =
             [e \in Emps |-> IF e \in Whom(req[p]) /\ @[e] = "NONE" THEN "PENDING" ELSE @[e]]]
    BY <1>1 DEF AssignWrite
  <2>2. req[p].n \in Version /\ assigned \in [Version -> [Emps -> {"NONE", "PENDING", "SIGNED"}]]
    BY DEF TypeInv, TypeOK, Req
  <2>. QED  BY <2>1, <2>2
<1>2. CASE Delete(p)
  BY <1>2 DEF Delete
<1>3. CASE ~AssignWrite(p) /\ ~Delete(p)
  BY <1>3 DEF Ask, Answer, Archive, ListVersions, Restore, MyPolicies, Sign, Publish, Assign,
       PublishVersion, Create, NewVersion, Update, Reads, Once, rows, FirstRow, UpdateWrite,
       Backfill, ArchiveCurrents, ArchiveLocked, Commit, Fail
<1>. QED  BY <1>1, <1>2, <1>3

\* However requests overlap, one acceptance for each signed assignment.
THEOREM SignedOnceAlways == Spec => []SignedOnce
<1>1. Init => SignedOnce
  BY DEF Init, SignedOnce, Unsigned, Unassigned
<1>2. TypeInv /\ SignedOnce /\ [Next]_vars => SignedOnce'
  <2>. SUFFICES ASSUME TypeInv, SignedOnce, [Next]_vars PROVE SignedOnce'
    OBVIOUS
  <2>1. CASE UNCHANGED vars
    BY <2>1 DEF vars, rows, SignedOnce
  <2>2. ASSUME NEW p \in Procs, SignWrite(p)
        PROVE  SignedOnce'
    <3>1. PICK e \in Emps :
           /\ req[p].n \in Version
           /\ accepted' = [accepted EXCEPT ![req[p].n] = [@ EXCEPT ![e] = <<req[p].hash>>]]
           /\ assigned' = [assigned EXCEPT ![req[p].n] = [@ EXCEPT ![e] = "SIGNED"]]
      BY <2>2, SignFacts
    <3>2. Len(<<req[p].hash>>) = 1
      OBVIOUS
    <3>. QED  BY <3>1, <3>2 DEF SignedOnce, TypeInv, RowsOK
  <2>3. ASSUME NEW p \in Procs, Ask(p) \/ Answer(p), ~SignWrite(p)
        PROVE  SignedOnce'
    <3>1. CASE accepted' = Unsigned /\ assigned' = Unassigned
      BY <3>1 DEF SignedOnce, Unsigned, Unassigned
    <3>. QED  BY <2>3, <3>1, OthersDoNotSign DEF SignedOnce
  <2>. QED  BY <2>1, <2>2, <2>3 DEF Next
<1>. QED  BY <1>1, <1>2, TypeInit, TypeStep, PTL DEF Spec

-----------------------------------------------------------------------------
(* What a version says.                                                    *)

SameSaying(n) == versions'[n].text = versions[n].text /\ versions'[n].hash = versions[n].hash

LEMMA CommitHistory ==
  ASSUME TypeInv, NEW p \in Procs, Commit(p), NEW n \in Rows
  PROVE  n \in Rows' /\ SameSaying(n)
<1>. DEFINE r == req[p]
<1>1. /\ versions'[n] = Written(r, n) /\ versions[n] \in Row
      /\ r.op = "new" => n # r.n
  BY DEF Commit, Vacant, Rows, TypeInv, RowsOK
<1>2. r.op \in {"new", "publish"}
  BY DEF Commit, At, TypeInv, Carries
<1>3. CASE n = r.n
  <2>1. Written(r, n) = [versions[n] EXCEPT !.status = "PUBLISHED", !.current = TRUE]
    BY <1>1, <1>2, <1>3 DEF Written
  <2>. QED  BY <1>1, <2>1 DEF Row, SameSaying, Rows
<1>4. CASE n # r.n /\ n \in r.locked
  <2>1. Written(r, n) = [versions[n] EXCEPT !.status = "ARCHIVED", !.current = FALSE]
    BY <1>4 DEF Written
  <2>. QED  BY <1>1, <2>1 DEF Row, SameSaying, Rows
<1>5. CASE n # r.n /\ n \notin r.locked
  BY <1>1, <1>5 DEF Written, SameSaying, Rows
<1>. QED  BY <1>3, <1>4, <1>5

\* The statements that write a version leave every other as it is.
LEMMA HistoryStep ==
  ASSUME TypeInv, NEW p \in Procs, Ask(p) \/ Answer(p), Exists', NEW n \in Rows
  PROVE  n \in Rows' /\ SameSaying(n)
<1>0. versions \in [Version -> Row] /\ policy.version \in Version /\ 1 \in Version
  BY PolicyConstants DEF TypeInv, RowsOK, Policy, Version
<1>1. CASE FirstRow(p)
  BY <1>0, <1>1 DEF FirstRow, Vacant, Rows, SameSaying
<1>2. CASE Backfill(p)
  BY <1>0, <1>2 DEF Backfill, Vacant, Rows, SameSaying
<1>3. CASE Delete(p)
  BY <1>3 DEF Delete, Exists, NoPolicy
<1>4. CASE ~FirstRow(p) /\ ~Backfill(p) /\ ~Delete(p) /\ ~Commit(p)
  <2>1. versions' = versions
    BY <1>4 DEF Ask, Answer, Archive, ListVersions, Restore, MyPolicies, Sign, Publish, Assign,
       PublishVersion, Create, NewVersion, Update, Reads, Once, rows, UpdateWrite,
       ArchiveCurrents, ArchiveLocked, AssignWrite, SignWrite, Fail
  <2>. QED  BY <2>1 DEF Rows, SameSaying
<1>. QED  BY <1>1, <1>2, <1>3, <1>4, CommitHistory

\* However requests overlap, what a version says is never written over.
THEOREM HistoryIsKept == Spec => HistoryKept
<1>1. TypeInv /\ [Next]_vars
        => [Exists' => \A n \in Rows : /\ versions'[n].text = versions[n].text
                                       /\ versions'[n].hash = versions[n].hash]_vars
  BY HistoryStep DEF Next, SameSaying
<1>. QED  BY <1>1, TypeInit, TypeStep, PTL DEF Spec, HistoryKept

-----------------------------------------------------------------------------
(* The hash of a number.                                                   *)

\* What was said of a number is still so when rows are added, if the first
\* version says what was said of it.
LEMMA SaysKept ==
  ASSUME NEW h, NEW n, NEW x, Says(h, n, x),
         \A k \in Rows : k \in Rows' /\ SameSaying(k),
         1 \in Rows' \ Rows => versions'[1].hash = h
  PROVE  Says(h, n, x)'
BY DEF Says, SameSaying

LEMMA NameMove ==
  ASSUME TypeInv, NEW h, Named(h), NEW p \in Procs, NEW at, NEW r, Go(p, at, r),
         \A k \in Rows : k \in Rows' /\ SameSaying(k),
         1 \in Rows' \ Rows => versions'[1].hash = h,
         accepted' = accepted, Says(h, policy.version, policy.hash)', ReqNamed(h, at, r)'
  PROVE  Named(h)'
<1>1. /\ stage'[p] = at /\ req'[p] = r
      /\ \A q \in Procs \ {p} : stage'[q] = stage[q] /\ req'[q] = req[q]
  BY GoFacts DEF TypeInv
<1>2. \A n, x : Says(h, n, x) => Says(h, n, x)'
  BY SaysKept
<1>3. \A q \in Procs \ {p} : ReqNamed(h, stage[q], req[q])'
  BY <1>1, <1>2 DEF Named, ReqNamed
<1>4. SignedNamed(h)'
  BY <1>2 DEF Named, SignedNamed
<1>5. ReqNamed(h, stage[p], req[p])'
  BY <1>1
<1>. QED  BY <1>3, <1>4, <1>5 DEF Named

\* The statements that keep the policy's number and hash, and every version.
LEMMA NameReading ==
  ASSUME TypeInv, NEW h, Named(h), NEW p \in Procs, Reading(p)
  PROVE  Named(h)'
<1>1. PICK at, r : Reads(p, at, r) /\ (at = "sign" => r.n = policy.version /\ r.hash = policy.hash)
         /\ (at = "update" /\ r.n = r.base => r.n = policy.version /\ r.hash = policy.hash)
         /\ at # "firstRow"
  <2>1. CASE \E e \in Emps : Sign(p, e)
    <3>1. PICK e \in Emps :
            Reads(p, "sign", [NoReq EXCEPT !.n = policy.version, !.hash = policy.hash, !.to = {e}])
      BY <2>1 DEF Sign
    <3>. QED  BY <3>1 DEF NoReq
  <2>2. ASSUME NEW t, NEW st, NEW bump, NEW to, Update(p, t, st, bump, to)
        PROVE  \E r : /\ Reads(p, "update", r)
                      /\ r.n = r.base => r.n = policy.version /\ r.hash = policy.hash
    <3>. DEFINE up == bump \/ t \notin {Keep, policy.text}
                n == IF up THEN policy.version + 1 ELSE policy.version
                now == IF t = Keep THEN policy.text ELSE t
                r == [NoReq EXCEPT !.op = "edit", !.n = n, !.base = policy.version, !.text = t,
                        !.status = st, !.hash = IF up THEN Hash(n, now) ELSE policy.hash,
                        !.to = to, !.also = IF up THEN "before" ELSE "nobody"]
    <3>1. Reads(p, "update", r)
      BY <2>2 DEF Update
    <3>2. policy.version \in Nat
      BY PolicyConstants DEF TypeInv, RowsOK, Policy, Version
    <3>3. up => n # policy.version
      BY <3>2
    <3>4. r.n = n /\ r.base = policy.version /\ (~up => r.hash = policy.hash)
      BY DEF NoReq
    <3>. QED  BY <3>1, <3>3, <3>4
  <2>3. CASE ~\E e \in Emps : Sign(p, e)
    BY <2>2, <2>3 DEF Reading, ListVersions, Restore, MyPolicies, Assign, PublishVersion, NewVersion
  <2>. QED  BY <2>1, <2>3
<1>2. UNCHANGED rows /\ Go(p, at, r) /\ Rows' = Rows
  BY <1>1 DEF Reads, rows, Rows
<1>3. \A n, x : Says(h, n, x)' <=> Says(h, n, x)
  BY <1>2 DEF Says, rows
<1>4. ReqNamed(h, at, r)' /\ Says(h, policy.version, policy.hash)'
  BY <1>1, <1>2, <1>3 DEF ReqNamed, Named, rows
<1>. QED  BY <1>2, <1>4, NameMove DEF SameSaying, rows

LEMMA NameFirstRow ==
  ASSUME TypeInv, NEW h, Named(h), NEW p \in Procs, FirstRow(p), Exists'
  PROVE  Named(h)'
<1>. DEFINE r == [NoReq EXCEPT !.to = req[p].to]
            row == [status |-> req[p].status, current |-> req[p].status = "PUBLISHED",
                    text |-> req[p].text, hash |-> req[p].hash]
<1>1. /\ stage[p] = "firstRow" /\ Go(p, "assign", r)
      /\ UNCHANGED <<policy, assigned, accepted, raised, overlaps>>
      /\ \/ Exists /\ versions' = [versions EXCEPT ![1] = row]
         \/ versions' = versions
  BY DEF FirstRow, At
<1>2. \A k \in Rows : k \in Rows' /\ SameSaying(k)
  BY HistoryStep DEF Answer
<1>3. req[p].hash = h
  BY <1>1 DEF Named, ReqNamed
<1>4. 1 \in Rows' \ Rows => versions'[1].hash = h
  BY <1>1, <1>3 DEF Rows, TypeInv, RowsOK
<1>5. Says(h, policy.version, policy.hash)'
  BY <1>1, <1>2, <1>4, SaysKept DEF Named
<1>6. PICK x : Go(p, "assign", x) /\ ReqNamed(h, "assign", x)'
  BY <1>1 DEF ReqNamed
<1>. QED  BY <1>1, <1>2, <1>4, <1>5, <1>6, NameMove

LEMMA NameBackfill ==
  ASSUME TypeInv, NEW h, Named(h), NEW p \in Procs, Backfill(p), Exists'
  PROVE  Named(h)'
<1>. DEFINE row == [status |-> policy.status, current |-> policy.status = "PUBLISHED",
                    text |-> policy.text, hash |-> policy.hash]
<1>1. /\ Go(p, "idle", NoReq) /\ UNCHANGED <<policy, accepted>> /\ Vacant(policy.version)
      /\ versions' = [versions EXCEPT ![policy.version] = row]
  BY DEF Backfill, Finish
<1>2. \A k \in Rows : k \in Rows' /\ SameSaying(k)
  BY HistoryStep DEF Answer
<1>3. policy.version = 1 /\ policy.hash = h
  BY <1>1 DEF Named, Says, Vacant
<1>4. versions'[1].hash = h
  BY <1>1, <1>3, PolicyConstants DEF TypeInv, RowsOK, Version
<1>5. Says(h, policy.version, policy.hash)'
  BY <1>1, <1>2, <1>4, SaysKept DEF Named
<1>6. PICK x : Go(p, "idle", x) /\ ReqNamed(h, "idle", x)'
  BY <1>1 DEF ReqNamed
<1>. QED  BY <1>1, <1>2, <1>4, <1>5, <1>6, NameMove

LEMMA NameCommit ==
  ASSUME TypeInv, NEW h, Named(h), NEW p \in Procs, Commit(p), Exists'
  PROVE  Named(h)'
<1>. DEFINE r == req[p]
            next == [r EXCEPT !.locked = {}]
<1>1. /\ stage[p] = "commit" /\ Go(p, "assign", next) /\ accepted' = accepted
      /\ IF r.op = "new" THEN Vacant(r.n) ELSE r.n \in Rows
      /\ versions' = [n \in Version |-> Written(r, n)]
      /\ policy' = IF r.status = "PUBLISHED" THEN Shows(r, Written(r, r.n)) ELSE policy
  BY DEF Commit, At
<1>2. Carries("commit", r) /\ r \in Req /\ r.n \in Version
  BY <1>1 DEF TypeInv, TypeOK, Req
<1>3. \A k \in Rows : k \in Rows' /\ SameSaying(k)
  BY HistoryStep DEF Answer
<1>4. 1 \notin Rows' \ Rows
  <2>1. SUFFICES ASSUME 1 \in Version, 1 \notin Rows PROVE versions'[1] = versions[1]
    BY DEF Rows
  <2>2. r.n # 1
    BY <1>1, <1>2, <2>1 DEF Carries
  <2>3. 1 \notin r.locked
    BY <2>1, <1>1 DEF TypeInv, LocksOK, Commit
  <2>. QED  BY <1>1, <2>1, <2>2, <2>3 DEF Written
<1>5. r.n \in Rows'
  <2>1. CASE r.op = "publish"
    BY <1>1, <1>3, <2>1
  <2>2. CASE r.op = "new"
    <3>1. Written(r, r.n) = [status |-> r.status, current |-> r.status = "PUBLISHED",
                             text |-> r.text, hash |-> r.hash]
      BY <2>2 DEF Written
    <3>. QED  BY <1>1, <1>2, <3>1 DEF Rows, Carries, Status
  <2>. QED  BY <1>2, <2>1, <2>2 DEF Carries
<1>6. Says(h, policy.version, policy.hash)'
  <2>1. CASE r.status = "PUBLISHED"
    <3>1. policy'.version = r.n /\ policy'.hash = versions'[r.n].hash
      BY <1>1, <1>2, <2>1 DEF Shows
    <3>. QED  BY <1>5, <3>1 DEF Says
  <2>2. CASE r.status # "PUBLISHED"
    BY <1>1, <1>3, <1>4, <2>2, SaysKept DEF Named
  <2>. QED  BY <2>1, <2>2
<1>7. PICK x : Go(p, "assign", x) /\ ReqNamed(h, "assign", x)'
  BY <1>1 DEF ReqNamed
<1>. QED  BY <1>1, <1>3, <1>4, <1>6, <1>7, NameMove

\* The number that is written is the number whose hash was read.
LEMMA NameUpdateWrite ==
  ASSUME TypeInv, NEW h, Named(h), NEW p \in Procs, UpdateWrite(p), ~raised'
  PROVE  Named(h)'
<1>. DEFINE r == req[p]
            next == [NoReq EXCEPT !.n = r.n, !.base = r.base, !.to = r.to, !.also = r.also]
<1>1. /\ stage[p] = "update" /\ Go(p, "assign", next)
      /\ UNCHANGED <<versions, assigned, accepted>>
      /\ policy'.version = r.n /\ policy'.hash = r.hash
      /\ raised' = (raised \/ r.n > r.base)
  BY DEF UpdateWrite, At
<1>2. r \in Req /\ r.base <= r.n
  BY <1>1 DEF TypeInv, TypeOK, Carries
<1>3. r.n = r.base
  <2>1. r.n \in Nat /\ r.base \in Nat
    BY <1>2, PolicyConstants DEF Req, Version
  <2>2. ~(r.n > r.base)
    BY <1>1
  <2>. QED  BY <1>2, <2>1, <2>2
<1>4. Rows' = Rows /\ \A n, x : Says(h, n, x)' <=> Says(h, n, x)
  BY <1>1 DEF Says, Rows
<1>5. Says(h, policy.version, policy.hash)'
  BY <1>1, <1>3, <1>4 DEF Named, ReqNamed
<1>6. PICK x : Go(p, "assign", x) /\ ReqNamed(h, "assign", x)'
  BY <1>1 DEF ReqNamed
<1>. QED  BY <1>1, <1>4, <1>5, <1>6, NameMove DEF SameSaying

\* What is signed is what the request read.
LEMMA NameSignWrite ==
  ASSUME TypeInv, NEW h, Named(h), NEW p \in Procs, SignWrite(p)
  PROVE  Named(h)'
<1>1. stage[p] = "sign" /\ Go(p, "idle", NoReq) /\ UNCHANGED <<policy, versions>>
  BY DEF SignWrite, At, Finish
<1>2. PICK e \in Emps :
        /\ req[p].n \in Version
        /\ accepted' = [accepted EXCEPT ![req[p].n] = [@ EXCEPT ![e] = <<req[p].hash>>]]
  BY SignFacts
<1>3. Rows' = Rows /\ \A n, x : Says(h, n, x)' <=> Says(h, n, x)
  BY <1>1 DEF Says, Rows
<1>4. Says(h, req[p].n, req[p].hash)
  BY <1>1 DEF Named, ReqNamed
<1>5. SignedNamed(h)'
  <2>1. ASSUME NEW n \in Version, NEW d \in Emps, NEW i \in 1 .. Len(accepted'[n][d])
        PROVE  Says(h, n, accepted'[n][d][i])
    <3>1. CASE n = req[p].n /\ d = e
      <4>1. accepted'[n][d] = <<req[p].hash>>
        BY <1>2, <3>1 DEF TypeInv, RowsOK
      <4>. QED  BY <1>4, <3>1, <4>1
    <3>2. CASE ~(n = req[p].n /\ d = e)
      <4>1. accepted'[n][d] = accepted[n][d]
        BY <1>2, <3>2 DEF TypeInv, RowsOK
      <4>. QED  BY <4>1 DEF Named, SignedNamed
    <3>. QED  BY <3>1, <3>2
  <2>. QED  BY <1>3, <2>1 DEF SignedNamed
<1>6. /\ stage'[p] = "idle" /\ req'[p] = NoReq
      /\ \A q \in Procs \ {p} : stage'[q] = stage[q] /\ req'[q] = req[q]
  BY <1>1, GoFacts DEF TypeInv
<1>7. \A q \in Procs : ReqNamed(h, stage[q], req[q])'
  BY <1>3, <1>6 DEF Named, ReqNamed
<1>. QED  BY <1>1, <1>3, <1>5, <1>7 DEF Named

LEMMA NameCreate ==
  ASSUME TypeInv, NEW p \in Procs, NEW published, NEW to, Create(p, AText, published, to)
  PROVE  Named(Hash(1, AText))'
<1>1. /\ ~Exists /\ Idle
      /\ policy'.version = 1 /\ policy'.hash = Hash(1, AText)
      /\ UNCHANGED <<versions, accepted>>
  BY DEF Create
<1>0. \E r : Go(p, "firstRow", r) /\ r.hash = Hash(1, AText)
  <2>. DEFINE r == [NoReq EXCEPT !.text = AText, !.hash = Hash(1, AText),
                      !.status = IF published THEN "PUBLISHED" ELSE "DRAFT",
                      !.to = IF published THEN to ELSE {}]
  <2>1. Go(p, "firstRow", r)
    BY DEF Create, NoReq
  <2>2. r.hash = Hash(1, AText)
    BY DEF NoReq
  <2>. QED  BY <2>1, <2>2
<1>2. versions = NoVersions /\ accepted = Unsigned
  BY <1>1 DEF TypeInv, RowsOK
<1>3. Rows' = {}
  BY <1>1, <1>2 DEF Rows, NoVersions, NoRow
<1>4. SignedNamed(Hash(1, AText))'
  <2>1. \A n \in Version, e \in Emps : Len(accepted'[n][e]) = 0
    BY <1>1, <1>2 DEF Unsigned
  <2>. QED  BY <2>1 DEF SignedNamed
<1>5. Says(Hash(1, AText), policy.version, policy.hash)'
  BY <1>1, <1>3 DEF Says
<1>6. \A q \in Procs : ReqNamed(Hash(1, AText), stage[q], req[q])'
  <2>1. PICK r : Go(p, "firstRow", r) /\ r.hash = Hash(1, AText)
    BY <1>0
  <2>2. /\ stage'[p] = "firstRow" /\ req'[p] = r
        /\ \A q \in Procs \ {p} : stage'[q] = "idle"
    BY <1>1, <2>1, GoFacts DEF TypeInv, Idle
  <2>. QED  BY <2>1, <2>2 DEF ReqNamed
<1>. QED  BY <1>4, <1>5, <1>6 DEF Named

LEMMA NameStep ==
  ASSUME TypeInv, NameInv, [Next]_vars
  PROVE  NameInv'
<1>. SUFFICES ASSUME ~raised', Exists' PROVE \E h \in Hashes : Named(h)'
  BY DEF NameInv
<1>1. CASE UNCHANGED vars
  <2>1. ~raised /\ Exists
    BY <1>1 DEF vars, rows, Exists
  <2>2. PICK h \in Hashes : Named(h)
    BY <2>1 DEF NameInv
  <2>. QED  BY <1>1, <2>2 DEF vars, rows, Named, SignedNamed, ReqNamed, Says, Rows
<1>2. ASSUME NEW p \in Procs, NEW to \in SUBSET Emps, NEW published \in BOOLEAN,
             Create(p, AText, published, to)
      PROVE  \E h \in Hashes : Named(h)'
  <2>1. Hash(1, AText) \in Hashes
    BY ATextType, HashType, PolicyConstants DEF Version
  <2>. QED  BY <1>2, <2>1, NameCreate
<1>3. ASSUME NEW p \in Procs, Ask(p) \/ Answer(p),
             ~\E to \in SUBSET Emps, published \in BOOLEAN : Create(p, AText, published, to)
      PROVE  \E h \in Hashes : Named(h)'
  <2>0. ~Delete(p)
    BY DEF Delete, Exists, NoPolicy
  <2>1. ~raised /\ Exists
    <3>1. CASE UpdateWrite(p)
      BY <3>1 DEF UpdateWrite, TypeInv, RowsOK
    <3>2. CASE ~UpdateWrite(p)
      <4>1. raised' = raised
        BY <1>3, <2>0, <3>2 DEF Ask, Answer, Archive, ListVersions, Restore,
          MyPolicies, Sign, Publish, Assign, PublishVersion, NewVersion, Update, Reads, Once,
          FirstRow, Backfill, ArchiveCurrents, ArchiveLocked, Commit, AssignWrite, SignWrite, Fail
      <4>2. Exists \/ policy' = policy
        BY <1>3, <2>0, <3>2 DEF Ask, Answer, Archive, ListVersions, Restore,
          MyPolicies, Sign, Publish, Assign, PublishVersion, NewVersion, Update, Reads, Once, rows,
          FirstRow, Backfill, ArchiveCurrents, ArchiveLocked, Commit, AssignWrite, SignWrite, Fail
      <4>. QED  BY <4>1, <4>2 DEF Exists
    <3>. QED  BY <3>1, <3>2
  <2>2. PICK h \in Hashes : Named(h)
    BY <2>1 DEF NameInv
  <2>3. CASE Archive(p) \/ \E to \in SUBSET Emps : Publish(p, to)
    <3>1. /\ policy'.version = policy.version /\ policy'.hash = policy.hash
          /\ UNCHANGED <<versions, accepted>>
      BY <2>3 DEF Archive, Publish, Once, TypeInv, RowsOK, Policy
    <3>2. \/ UNCHANGED <<stage, req>>
          \/ \E r : Go(p, "assign", r)
      BY <2>3 DEF Archive, Publish, Once
    <3>3. Rows' = Rows /\ \A n, x : Says(h, n, x)' <=> Says(h, n, x)
      BY <3>1 DEF Says, Rows
    <3>4. CASE UNCHANGED <<stage, req>>
      BY <2>2, <3>1, <3>3, <3>4 DEF Named, SignedNamed, ReqNamed
    <3>5. CASE \E r : Go(p, "assign", r)
      <4>1. PICK r : Go(p, "assign", r) /\ ReqNamed(h, "assign", r)'
        BY <3>5 DEF ReqNamed
      <4>2. Says(h, policy.version, policy.hash)'
        BY <2>2, <3>1, <3>3 DEF Named
      <4>. QED  BY <2>2, <3>1, <3>3, <4>1, <4>2, NameMove DEF SameSaying
    <3>. QED  BY <3>2, <3>4, <3>5
  <2>4. CASE AssignWrite(p) \/ Fail(p) \/ ArchiveCurrents(p) \/ ArchiveLocked(p)
    <3>1. UNCHANGED <<policy, versions, accepted>>
      BY <2>4 DEF AssignWrite, Fail, ArchiveCurrents, ArchiveLocked, rows
    <3>2. PICK at, r : Go(p, at, r) /\ at \in {"idle", "lock", "commit"}
      BY <2>4 DEF AssignWrite, Fail, ArchiveCurrents, ArchiveLocked, Finish
    <3>3. Rows' = Rows /\ \A n, x : Says(h, n, x)' <=> Says(h, n, x)
      BY <3>1 DEF Says, Rows
    <3>4. ReqNamed(h, at, r)' /\ Says(h, policy.version, policy.hash)'
      BY <2>2, <3>1, <3>2, <3>3 DEF Named, ReqNamed
    <3>. QED  BY <2>2, <3>1, <3>2, <3>3, <3>4, NameMove DEF SameSaying
  <2>5. CASE FirstRow(p) \/ Backfill(p) \/ Commit(p) \/ UpdateWrite(p) \/ SignWrite(p) \/ Reading(p)
    BY <2>2, <2>5, NameFirstRow, NameBackfill, NameCommit, NameUpdateWrite, NameSignWrite, NameReading
  <2>6. \/ Reading(p) \/ Archive(p) \/ \E to \in SUBSET Emps : Publish(p, to)
        \/ Answer(p)
    BY <1>3, <2>0 DEF Ask, Reading
  <2>. QED  BY <2>3, <2>4, <2>5, <2>6 DEF Answer
<1>. QED  BY <1>1, <1>2, <1>3 DEF Next

\* However requests overlap, and for as long as no edit raised the number without a
\* version of it, what was signed of a version is what the version says.
THEOREM SignaturesNameTheirVersion == Spec => []SignatureNamesItsVersion
<1>1. Init => NameInv
  BY DEF Init, NameInv, Exists, NoPolicy
<1>2. TypeInv /\ NameInv => SignatureNamesItsVersion
  <2>. SUFFICES ASSUME TypeInv, NameInv, ~raised, NEW n \in Rows, NEW e \in Emps,
                       NEW i \in 1 .. Len(accepted[n][e])
                PROVE  accepted[n][e][i] = versions[n].hash
    BY DEF SignatureNamesItsVersion
  <2>1. Exists
    BY DEF TypeInv, RowsOK, Rows, NoVersions, NoRow
  <2>2. PICK h \in Hashes : Named(h)
    BY <2>1 DEF NameInv
  <2>. QED  BY <2>2 DEF Named, SignedNamed, Says, Rows
<1>. QED  BY <1>1, <1>2, TypeInit, TypeStep, NameStep, PTL DEF Spec

-----------------------------------------------------------------------------
(* One current version.                                                    *)

\* Where nothing overlaps, a request begins only when none is in flight.
LEMMA BeginsAlone ==
  ASSUME TypeInv, NEW p \in Procs, Begins(p), overlaps' = 0
  PROVE  Idle /\ overlaps = 0
<1>1. overlaps \in Nat
  BY PolicyConstants DEF TypeInv, RowsOK
<1>. QED  BY <1>1 DEF Begins

\* A request that moves while all others are idle.
LEMMA AloneMove ==
  ASSUME TypeInv, NEW p \in Procs, NEW at, NEW r, Go(p, at, r),
         \A q \in Procs \ {p} : stage[q] = "idle",
         at \in {"firstRow", "backfill", "update", "lock", "commit"} /\ Exists' => Fresh(p)'
  PROVE  Alone' /\ (Exists' => \A q \in Procs : Fresh(q)')
<1>1. stage'[p] = at /\ \A q \in Procs \ {p} : stage'[q] = "idle"
  BY GoFacts DEF TypeInv
<1>2. Alone'
  BY <1>1 DEF Alone
<1>3. \A q \in Procs : stage'[q] \notin {"firstRow", "backfill", "update", "lock", "commit"} => Fresh(q)'
  BY DEF Fresh
<1>. QED  BY <1>1, <1>2, <1>3

LEMMA SoleKept ==
  ASSUME SoleCurrent, UNCHANGED versions, raised' = raised,
         ~raised => policy'.version = policy.version /\ policy'.hash = policy.hash
                    /\ policy'.text = policy.text
  PROVE  SoleCurrent'
BY DEF SoleCurrent, Currents, Rows

LEMMA AloneReading ==
  ASSUME TypeInv, AloneInv, NEW p \in Procs, Reading(p), overlaps' = 0
  PROVE  AloneInv'
<1>1. PICK at, r : Reads(p, at, r) /\ at \notin {"firstRow", "lock"}
         /\ (at = "backfill" => Rows = {})
         /\ (at = "update" /\ r.n = r.base => r.n = policy.version /\ r.hash = policy.hash
                                              /\ r.text \in {Keep, policy.text})
         /\ (at = "commit" => r.status = "DRAFT" /\ r.locked = {})
  <2>1. ASSUME NEW t, NEW published \in BOOLEAN, NEW to, NewVersion(p, t, published, to)
        PROVE  \E at, r : Reads(p, at, r) /\ at \in {"archive", "commit"}
                          /\ (at = "commit" => r.status = "DRAFT" /\ r.locked = {})
    <3>. DEFINE now == IF t = Keep THEN policy.text ELSE t
                at == IF published THEN "archive" ELSE "commit"
                r == [NoReq EXCEPT !.op = "new", !.n = NextNumber, !.text = now,
                     !.hash = Hash(NextNumber, now),
                     !.status = IF published THEN "PUBLISHED" ELSE "DRAFT",
                     !.to = IF published THEN to ELSE {},
                     !.also = IF published /\ to = {} THEN "ever" ELSE "nobody"]
    <3>1. Reads(p, at, r)
      BY <2>1 DEF NewVersion
    <3>2. at \in {"archive", "commit"} /\ (at = "commit" => r.status = "DRAFT" /\ r.locked = {})
      BY DEF NoReq
    <3>. QED  BY <3>1, <3>2
  <2>2. ASSUME NEW t, NEW st, NEW bump, NEW to, Update(p, t, st, bump, to)
        PROVE  \E r : /\ Reads(p, "update", r)
                      /\ r.n = r.base => r.n = policy.version /\ r.hash = policy.hash
                                         /\ r.text \in {Keep, policy.text}
    <3>. DEFINE up == bump \/ t \notin {Keep, policy.text}
                n == IF up THEN policy.version + 1 ELSE policy.version
                now == IF t = Keep THEN policy.text ELSE t
                r == [NoReq EXCEPT !.op = "edit", !.n = n, !.base = policy.version, !.text = t,
                        !.status = st, !.hash = IF up THEN Hash(n, now) ELSE policy.hash,
                        !.to = to, !.also = IF up THEN "before" ELSE "nobody"]
    <3>1. Reads(p, "update", r)
      BY <2>2 DEF Update
    <3>2. policy.version \in Nat
      BY PolicyConstants DEF TypeInv, RowsOK, Policy, Version
    <3>3. (up => n # policy.version) /\ (~up => n = policy.version /\ t \in {Keep, policy.text})
      BY <3>2
    <3>4. r.n = n /\ r.base = policy.version /\ r.text = t /\ (~up => r.hash = policy.hash)
      BY DEF NoReq
    <3>. QED  BY <3>1, <3>3, <3>4
  <2>3. CASE ListVersions(p)
    BY <2>3 DEF ListVersions
  <2>4. CASE \/ \E n \in Version : Restore(p, n)
             \/ \E e \in Emps : MyPolicies(p, e) \/ Sign(p, e)
             \/ \E to \in SUBSET Emps : Assign(p, to) \/ \E n \in Version : PublishVersion(p, n, to)
    <3>1. \E at, r : Reads(p, at, r) /\ at \in {"archive", "assign", "sign"}
      BY <2>4 DEF Restore, MyPolicies, Sign, Assign, PublishVersion
    <3>. QED  BY <3>1
  <2>. QED  BY <2>1, <2>2, <2>3, <2>4 DEF Reading
<1>2. /\ UNCHANGED rows /\ raised' = raised /\ Rows' = Rows
      /\ Go(p, at, r) /\ Idle /\ overlaps = 0
  BY <1>1, BeginsAlone DEF Reads, rows, Rows
<1>3. stage'[p] = at /\ req'[p] = r
  BY <1>2, GoFacts DEF TypeInv
<1>4. Fresh(p)'
  BY <1>1, <1>2, <1>3 DEF Fresh, rows
<1>5. SoleCurrent'
  BY <1>2, SoleKept DEF AloneInv, rows
<1>. QED  BY <1>2, <1>4, <1>5, AloneMove DEF AloneInv, Idle

\* The one current version is the one just written.
LEMMA SoleWritten ==
  ASSUME NEW n, Currents' \subseteq {n},
         n \in Currents' =>
           /\ versions'[n].status = "PUBLISHED"
           /\ ~raised' => /\ policy'.version = n /\ policy'.text = versions'[n].text
                          /\ policy'.hash = versions'[n].hash
  PROVE  SoleCurrent'
BY DEF SoleCurrent

\* A row made with its status is current when it is published, and only then.
LEMMA RowFields ==
  ASSUME NEW st, NEW t, NEW h, NEW row,
         row = [status |-> st, current |-> st = "PUBLISHED", text |-> t, hash |-> h]
  PROVE  /\ row.status = st /\ row.text = t /\ row.hash = h
         /\ row.current <=> st = "PUBLISHED"
<1>1. row.status = st /\ row.text = t /\ row.hash = h
  OBVIOUS
<1>2. row.current = (st = "PUBLISHED")
  BY Zenon
<1>. QED  BY <1>1, <1>2

LEMMA AloneFirstRow ==
  ASSUME TypeInv, overlaps = 0, AloneInv, NEW p \in Procs, FirstRow(p)
  PROVE  SoleCurrent'
<1>. DEFINE row == [status |-> req[p].status, current |-> req[p].status = "PUBLISHED",
                    text |-> req[p].text, hash |-> req[p].hash]
<1>1. /\ stage[p] = "firstRow" /\ policy' = policy /\ raised' = raised
      /\ \/ Exists /\ versions' = [versions EXCEPT ![1] = row]
         \/ versions' = versions
  BY DEF FirstRow, At
<1>2. CASE versions' = versions
  BY <1>1, <1>2, SoleKept DEF AloneInv
<1>3. CASE Exists /\ versions' = [versions EXCEPT ![1] = row]
  <2>1. /\ Rows = {} /\ policy.version = 1 /\ policy.status = req[p].status
        /\ policy.text = req[p].text /\ policy.hash = req[p].hash
    BY <1>1, <1>3 DEF AloneInv, Fresh
  <2>2. versions \in [Version -> Row] /\ 1 \in Version
    BY PolicyConstants DEF TypeInv, RowsOK, Version
  <2>3. versions'[1] = row /\ \A n \in Version \ {1} : versions'[n].status = "NONE"
    BY <1>3, <2>1, <2>2 DEF Rows
  <2>4. Currents' \subseteq {1}
    BY <2>3 DEF Currents, Rows
  <2>5. 1 \in Currents' => versions'[1].status = "PUBLISHED"
    <3>1. row.current <=> row.status = "PUBLISHED"
      BY RowFields
    <3>. HIDE DEF row
    <3>. QED  BY <2>3, <3>1 DEF Currents
  <2>6. policy'.version = 1 /\ policy'.text = versions'[1].text /\ policy'.hash = versions'[1].hash
    BY <1>1, <2>1, <2>3
  <2>. QED  BY <2>4, <2>5, <2>6, SoleWritten
<1>. QED  BY <1>1, <1>2, <1>3

LEMMA AloneBackfill ==
  ASSUME TypeInv, overlaps = 0, AloneInv, NEW p \in Procs, Backfill(p)
  PROVE  SoleCurrent'
<1>. DEFINE row == [status |-> policy.status, current |-> policy.status = "PUBLISHED",
                    text |-> policy.text, hash |-> policy.hash]
            n == policy.version
<1>1. /\ stage[p] = "backfill" /\ Exists /\ policy' = policy
      /\ versions' = [versions EXCEPT ![n] = row]
  BY DEF Backfill, At
<1>2. versions \in [Version -> Row] /\ n \in Version /\ Rows = {}
  BY <1>1 DEF TypeInv, RowsOK, Policy, AloneInv, Fresh
<1>3. versions'[n] = row /\ \A k \in Version \ {n} : versions'[k].status = "NONE"
  BY <1>1, <1>2 DEF Rows
<1>4. Currents' \subseteq {n}
  BY <1>3 DEF Currents, Rows
<1>5. n \in Currents' => versions'[n].status = "PUBLISHED"
  <2>1. row.current <=> row.status = "PUBLISHED"
    BY RowFields
  <2>. HIDE DEF row
  <2>. QED  BY <1>3, <2>1 DEF Currents
<1>6. policy'.version = n /\ policy'.text = versions'[n].text /\ policy'.hash = versions'[n].hash
  BY <1>1, <1>3
<1>. QED  BY <1>4, <1>5, <1>6, SoleWritten

LEMMA AloneCommit ==
  ASSUME TypeInv, overlaps = 0, AloneInv, NEW p \in Procs, Commit(p)
  PROVE  SoleCurrent'
<1>. DEFINE r == req[p]
<1>1. /\ stage[p] = "commit" /\ Exists /\ raised' = raised
      /\ IF r.op = "new" THEN Vacant(r.n) ELSE r.n \in Rows
      /\ versions' = [n \in Version |-> Written(r, n)]
      /\ policy' = IF r.status = "PUBLISHED" THEN Shows(r, Written(r, r.n)) ELSE policy
  BY DEF Commit, At
<1>2. Carries("commit", r) /\ r \in Req /\ r.n \in Version /\ versions \in [Version -> Row]
  BY <1>1 DEF TypeInv, TypeOK, Req
<1>3. r.locked = IF r.status = "PUBLISHED" THEN Archives(p) ELSE {}
  BY <1>1 DEF AloneInv, Fresh
<1>4. r.op = "publish" => Written(r, r.n) = [versions[r.n] EXCEPT !.status = "PUBLISHED", !.current = TRUE]
  BY DEF Written
<1>5. r.op = "new" => /\ Written(r, r.n).status = r.status
                      /\ Written(r, r.n).current <=> r.status = "PUBLISHED"
  <2>1. r.op = "new" => Written(r, r.n) = [status |-> r.status, current |-> r.status = "PUBLISHED",
                                           text |-> r.text, hash |-> r.hash]
    BY DEF Written
  <2>. QED  BY <2>1, RowFields
<1>6. \A n \in Version \ {r.n} :
        Written(r, n) = IF n \in r.locked
                        THEN [versions[n] EXCEPT !.status = "ARCHIVED", !.current = FALSE]
                        ELSE versions[n]
  BY DEF Written
<1>7. CASE r.status = "PUBLISHED"
  <2>1. Currents \subseteq r.locked \cup {r.n}
    BY <1>3, <1>7 DEF Archives
  <2>2. Currents' \subseteq {r.n}
    BY <1>1, <1>2, <1>6, <2>1 DEF Currents, Rows, Row
  <2>3. Written(r, r.n).status = "PUBLISHED"
    BY <1>2, <1>4, <1>5, <1>7 DEF Carries, Row
  <2>4. versions'[r.n] = Written(r, r.n)
    BY <1>1, <1>2
  <2>5. /\ policy'.version = r.n /\ policy'.text = versions'[r.n].text
        /\ policy'.hash = versions'[r.n].hash
    BY <1>1, <1>7, <2>4 DEF Shows
  <2>. QED  BY <2>2, <2>3, <2>4, <2>5, SoleWritten
<1>8. CASE r.status # "PUBLISHED"
  <2>1. r.op = "new" /\ r.locked = {}
    BY <1>2, <1>3, <1>8 DEF Carries
  <2>a. versions'[r.n] = Written(r, r.n)
    BY <1>1, <1>2
  <2>b. ~versions'[r.n].current
    BY <1>5, <1>8, <2>1, <2>a
  <2>c. \A n \in Version \ {r.n} : versions'[n] = versions[n]
    BY <1>1, <1>6, <2>1
  <2>2. ~versions'[r.n].current /\ \A n \in Version \ {r.n} : versions'[n] = versions[n]
    BY <2>b, <2>c
  <2>3. r.n \notin Rows /\ policy' = policy
    BY <1>1, <1>8, <2>1 DEF Vacant
  <2>4. Currents' = Currents /\ r.n \notin Currents
    BY <2>2, <2>3 DEF Currents, Rows
  <2>. QED  BY <1>1, <2>2, <2>3, <2>4 DEF AloneInv, SoleCurrent, Currents, Rows
<1>. QED  BY <1>7, <1>8

LEMMA AloneUpdateWrite ==
  ASSUME TypeInv, overlaps = 0, AloneInv, NEW p \in Procs, UpdateWrite(p)
  PROVE  SoleCurrent'
<1>. DEFINE r == req[p]
<1>1. /\ stage[p] = "update" /\ Exists /\ versions' = versions
      /\ policy'.version = r.n /\ policy'.hash = r.hash
      /\ policy'.text = IF r.text = Keep THEN policy.text ELSE r.text
      /\ raised' = (raised \/ r.n > r.base)
  BY DEF UpdateWrite, At
<1>2. r \in Req /\ r.base <= r.n
  BY <1>1 DEF TypeInv, TypeOK, Carries
<1>3. ~raised' => ~raised /\ r.n = r.base
  <2>1. r.n \in Nat /\ r.base \in Nat
    BY <1>2, PolicyConstants DEF Req, Version
  <2>2. (r.n > r.base) \/ r.n = r.base
    BY <1>2, <2>1
  <2>. QED  BY <1>1, <2>2
<1>4. r.n = r.base => /\ policy'.version = policy.version /\ policy'.hash = policy.hash
                      /\ policy'.text = policy.text
  BY <1>1 DEF AloneInv, Fresh
<1>5. SoleCurrent /\ Currents' = Currents
  BY <1>1 DEF AloneInv, Currents, Rows
<1>. QED  BY <1>1, <1>3, <1>4, <1>5 DEF SoleCurrent

LEMMA AloneAnswer ==
  ASSUME TypeInv, AloneInv, NEW p \in Procs, Answer(p), overlaps' = 0
  PROVE  AloneInv'
<1>1. overlaps = 0 /\ stage[p] # "idle"
  BY DEF Answer, FirstRow, UpdateWrite, Backfill, ArchiveCurrents, ArchiveLocked, Commit, AssignWrite, SignWrite, Fail, At
<1>2. \A q \in Procs \ {p} : stage[q] = "idle"
  BY <1>1 DEF AloneInv, Alone
<1>3. CASE ArchiveCurrents(p)
  <2>1. /\ stage[p] = "archive" /\ Go(p, "lock", [req[p] EXCEPT !.locked = Archives(p)])
        /\ UNCHANGED rows /\ raised' = raised
    BY <1>3 DEF ArchiveCurrents, At
  <2>2. req[p].status = "PUBLISHED" /\ req[p] \in Req
    BY <2>1 DEF TypeInv, TypeOK, Carries
  <2>3. stage'[p] = "lock" /\ req'[p] = [req[p] EXCEPT !.locked = Archives(p)]
    BY <2>1, GoFacts DEF TypeInv
  <2>4. Currents' = Currents
    BY <2>1 DEF Currents, Rows, rows
  <2>5. /\ req'[p].locked = Archives(p) /\ req'[p].status = "PUBLISHED"
        /\ req'[p].op = req[p].op /\ req'[p].n = req[p].n
    BY <2>2, <2>3 DEF Req
  <2>6. Fresh(p)'
    BY <2>3, <2>4, <2>5 DEF Fresh, Archives
  <2>7. SoleCurrent'
    BY <1>1, <2>1, SoleKept DEF AloneInv, rows
  <2>8. PICK r : Go(p, "lock", r)
    BY <2>1
  <2>. QED  BY <1>2, <2>6, <2>7, <2>8, AloneMove DEF AloneInv
<1>a. CASE ArchiveLocked(p)
  <2>1. /\ stage[p] = "lock" /\ Go(p, "commit", [req[p] EXCEPT !.locked = @ \cap Archives(p)])
        /\ UNCHANGED rows /\ raised' = raised
    BY <1>a DEF ArchiveLocked, At
  <2>2. req[p].status = "PUBLISHED" /\ req[p] \in Req
    BY <2>1 DEF TypeInv, TypeOK, Carries
  <2>a. Exists => req[p].locked = Archives(p)
    BY <1>1, <2>1 DEF AloneInv, Fresh
  <2>3. stage'[p] = "commit" /\ req'[p] = [req[p] EXCEPT !.locked = @ \cap Archives(p)]
    BY <2>1, GoFacts DEF TypeInv
  <2>4. Currents' = Currents
    BY <2>1 DEF Currents, Rows, rows
  <2>5. /\ req'[p].locked = req[p].locked \cap Archives(p) /\ req'[p].status = "PUBLISHED"
        /\ req'[p].op = req[p].op /\ req'[p].n = req[p].n
    BY <2>2, <2>3 DEF Req
  <2>6. Exists' => Fresh(p)'
    BY <2>1, <2>3, <2>4, <2>5, <2>a DEF Fresh, Archives, Exists, rows
  <2>7. SoleCurrent'
    BY <1>1, <2>1, SoleKept DEF AloneInv, rows
  <2>8. PICK r : Go(p, "commit", r)
    BY <2>1
  <2>. QED  BY <1>2, <2>6, <2>7, <2>8, AloneMove DEF AloneInv
<1>4. CASE ~ArchiveCurrents(p) /\ ~ArchiveLocked(p)
  <2>1. PICK at, r : Go(p, at, r) /\ at \in {"assign", "idle"}
    BY <1>4 DEF Answer, FirstRow, UpdateWrite, Backfill, Commit, AssignWrite, SignWrite, Fail, Finish
  <2>2. Alone' /\ (Exists' => \A q \in Procs : Fresh(q)')
    BY <1>2, <2>1, AloneMove
  <2>3. ASSUME AssignWrite(p) \/ SignWrite(p) \/ Fail(p)
        PROVE  SoleCurrent'
    <3>1. UNCHANGED <<policy, versions, raised>>
      BY <2>3 DEF AssignWrite, SignWrite, Fail, rows
    <3>. QED  BY <1>1, <3>1, SoleKept DEF AloneInv
  <2>4. SoleCurrent'
    BY <1>1, <1>4, <2>3, AloneFirstRow, AloneUpdateWrite, AloneBackfill, AloneCommit DEF Answer
  <2>. QED  BY <2>2, <2>4 DEF AloneInv
<1>. QED  BY <1>3, <1>a, <1>4

LEMMA AloneAsk ==
  ASSUME TypeInv, AloneInv, NEW p \in Procs, Ask(p), overlaps' = 0
  PROVE  AloneInv'
<1>1. CASE Delete(p)
  <2>1. /\ policy' = NoPolicy /\ versions' = NoVersions
        /\ UNCHANGED <<overlaps, stage>>
    BY <1>1 DEF Delete
  <2>2. ~Exists' /\ Currents' = {}
    BY <2>1 DEF Exists, Currents, Rows, NoPolicy, NoVersions, NoRow
  <2>. QED  BY <2>1, <2>2 DEF AloneInv, Alone, SoleCurrent
<1>2. CASE Archive(p)
  <2>1. Idle /\ overlaps = 0
    BY <1>2, BeginsAlone DEF Archive, Once
  <2>2. /\ policy'.version = policy.version /\ policy'.hash = policy.hash /\ policy'.text = policy.text
        /\ UNCHANGED <<versions, stage, req>> /\ raised' = raised
    BY <1>2 DEF Archive, Once, TypeInv, RowsOK, Policy
  <2>3. SoleCurrent'
    BY <2>1, <2>2, SoleKept DEF AloneInv
  <2>4. \A q \in Procs : stage'[q] = "idle"
    BY <2>1, <2>2 DEF Idle
  <2>. QED  BY <2>3, <2>4 DEF AloneInv, Alone, Fresh
<1>3. ASSUME NEW to \in SUBSET Emps, Publish(p, to)
      PROVE  AloneInv'
  <2>1. Idle /\ overlaps = 0
    BY <1>3, BeginsAlone DEF Publish
  <2>2. /\ policy'.version = policy.version /\ policy'.hash = policy.hash /\ policy'.text = policy.text
        /\ UNCHANGED versions /\ raised' = raised
    BY <1>3 DEF Publish, TypeInv, RowsOK, Policy
  <2>3. SoleCurrent'
    BY <2>1, <2>2, SoleKept DEF AloneInv
  <2>4. PICK r : Go(p, "assign", r)
    BY <1>3 DEF Publish
  <2>. QED  BY <2>1, <2>3, <2>4, AloneMove DEF AloneInv, Idle
<1>4. ASSUME NEW to \in SUBSET Emps, NEW published \in BOOLEAN, Create(p, AText, published, to)
      PROVE  AloneInv'
  <2>. DEFINE st == IF published THEN "PUBLISHED" ELSE "DRAFT"
              r == [NoReq EXCEPT !.text = AText, !.status = st, !.hash = Hash(1, AText),
                               !.to = IF published THEN to ELSE {}]
  <2>1. /\ ~Exists /\ Idle /\ versions' = versions
        /\ policy' = [status |-> st, version |-> 1, text |-> AText, hash |-> Hash(1, AText)]
        /\ Go(p, "firstRow", r)
    BY <1>4 DEF Create
  <2>2. Rows' = {} /\ Currents' = {}
    BY <2>1 DEF TypeInv, RowsOK, Rows, Currents, NoVersions, NoRow
  <2>3. stage'[p] = "firstRow" /\ req'[p] = r
    BY <2>1, GoFacts DEF TypeInv
  <2>4. r.status = st /\ r.text = AText /\ r.hash = Hash(1, AText)
    BY DEF NoReq
  <2>5. Fresh(p)'
    BY <2>1, <2>2, <2>3, <2>4 DEF Fresh
  <2>6. PICK x : Go(p, "firstRow", x)
    BY <2>1
  <2>. QED  BY <2>1, <2>2, <2>5, <2>6, AloneMove DEF AloneInv, Idle, SoleCurrent
<1>5. \/ Reading(p) \/ Archive(p) \/ Delete(p)
      \/ \E to \in SUBSET Emps : Publish(p, to)
      \/ \E to \in SUBSET Emps, published \in BOOLEAN : Create(p, AText, published, to)
  BY DEF Ask, Reading
<1>. QED  BY <1>1, <1>2, <1>3, <1>4, <1>5, AloneReading

LEMMA AloneStep ==
  ASSUME TypeInv, AloneInv, [Next]_vars
  PROVE  AloneInv'
<1>1. CASE UNCHANGED vars
  <2>1. UNCHANGED <<policy, versions, raised, overlaps, stage, req>>
    BY <1>1 DEF vars, rows
  <2>2. Currents' = Currents /\ Rows' = Rows /\ Exists' = Exists
    BY <2>1 DEF Currents, Rows, Exists
  <2>3. Alone' = Alone /\ \A p \in Procs : Archives(p)' = Archives(p)
    BY <2>1, <2>2 DEF Alone, Archives
  <2>4. SoleCurrent => SoleCurrent'
    BY <2>1, SoleKept
  <2>5. \A p \in Procs : Fresh(p) => Fresh(p)'
    BY <2>1, <2>2, <2>3 DEF Fresh
  <2>. QED  BY <2>1, <2>2, <2>3, <2>4, <2>5 DEF AloneInv
<1>2. CASE overlaps' # 0
  BY <1>2 DEF AloneInv
<1>. QED  BY <1>1, <1>2, AloneAsk, AloneAnswer DEF Next

\* Requests that do not overlap leave at most one version current, and the policy
\* shows it.
THEOREM OneIsCurrent == Spec => []OneCurrentVersion
<1>1. Init => AloneInv
  <2>1. Init => Currents = {} /\ ~Exists /\ \A p \in Procs : stage[p] = "idle"
    BY DEF Init, Currents, Rows, NoVersions, NoRow, Exists, NoPolicy
  <2>. QED  BY <2>1 DEF AloneInv, Alone, SoleCurrent
<1>2. AloneInv => OneCurrentVersion
  <2>. SUFFICES ASSUME AloneInv, overlaps = 0 PROVE Cardinality(Currents) <= 1
    BY DEF AloneInv, SoleCurrent, OneCurrentVersion
  <2>1. CASE Currents = {}
    BY <2>1, FS_EmptySet
  <2>2. CASE Currents # {}
    <3>1. PICK n : Currents = {n}
      BY <2>2 DEF AloneInv, SoleCurrent
    <3>. QED  BY <3>1, FS_Singleton
  <2>. QED  BY <2>1, <2>2
<1>. QED  BY <1>1, <1>2, TypeInit, TypeStep, AloneStep, PTL DEF Spec
=============================================================================
