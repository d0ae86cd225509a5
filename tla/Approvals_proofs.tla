---------------------------- MODULE Approvals_proofs ----------------------------
(***************************************************************************)
(* The approval of changes, proved for every set of users, pairs and calls.  *)
(* The inductive invariant says what each label of a call guarantees: which *)
(* operation it runs, which rows its transaction holds, and that a row it   *)
(* holds is still pending and held by nobody else.                          *)
(*                                                                          *)
(* ChangeRequests implements ApprovalGate: the commits of a proposal, a       *)
(* rejection, an approval and a direct publish are the four steps of the     *)
(* abstract specification; every other step leaves what the gate shows       *)
(* unchanged. And the calls on a pool implement ChangeRequests, for every    *)
(* size of the pool: it only restricts which call goes on.                   *)
(***************************************************************************)
EXTENDS PooledApprovals, TLAPS

(* A label belongs to the operations that reach it.                          *)
LabelsMatch ==
  \A c \in Calls :
    /\ pc[c] \in {"proposing", "superseding", "superseded"} => job[c].op = "propose"
    /\ pc[c] \in {"deciding", "decided"} => job[c].op \in {"approve", "reject"}
    /\ pc[c] = "checked" => job[c].op = "publish"
    /\ pc[c] = "published" => job[c].op \in {"approve", "publish"}
    /\ pc[c] = "setting" => job[c].op = "settings"

(* A deciding call copied its request's pair and parts, and its user is not  *)
(* the request's author; a proposal or direct publish is its own request.    *)
JobsMatch ==
  \A c \in Calls : pc[c] # "idle" =>
    /\ job[c].op \in {"propose", "publish"} =>
         job[c].request = c /\ job[c].parts # {}
    /\ job[c].op \in {"approve", "reject"} =>
         LET r == job[c].request IN
         /\ status[r] # "absent"
         /\ job[c].pair = job[r].pair
         /\ job[c].parts = job[r].parts
         /\ job[c].user # job[r].user

(* Only a finished proposal has a row.                                       *)
RowsMatch ==
  \A r \in Calls : status[r] # "absent" => pc[r] = "done" /\ job[r].op = "propose"

(* A row a transaction holds is pending, and a decision holds its request.   *)
HeldRowsPending ==
  \A c \in Calls :
    /\ pc[c] \in {"idle", "checked"} \/ (pc[c] = "published" /\ job[c].op = "publish")
         => rows[c] = {}
    /\ pc[c] = "superseded" => \A r \in rows[c] : status[r] = "pending"
    /\ pc[c] = "decided" \/ (pc[c] = "published" /\ job[c].op = "approve") =>
         rows[c] = {job[c].request} /\ status[job[c].request] = "pending"

(* The rows a proposal targets or holds are rows of its own pair.            *)
RowsOfPair ==
  \A c \in Calls : pc[c] \in {"superseding", "superseded"} =>
    \A r \in rows[c] : status[r] # "absent" /\ job[r].pair = job[c].pair

(* No row is held by two transactions.                                       *)
LocksExclusive ==
  \A c, d \in Calls : \A r \in rows[c] \cap rows[d] :
    pc[c] \in InTransaction /\ pc[d] \in InTransaction => c = d

(* The versions of a pair are exactly 1..n, and the number a transaction read *)
(* is one of them, or 0.                                                     *)
NumbersOf(p) == {v.version : v \in VersionsOf(p)}
NumberedFromOne == \A p \in Pairs : \E n \in Nat : NumbersOf(p) = 1..n
BasesMatch ==
  \A c \in Calls : pc[c] = "published" =>
    base[c] = 0 \/ base[c] \in NumbersOf(job[c].pair)

(* Only finished proposals and direct publishes are named by a version.      *)
ViasFinished ==
  \A v \in versions : pc[v.via] = "done" /\ job[v.via].op \in {"propose", "publish"}

IInv ==
  /\ TypeOK
  /\ LabelsMatch /\ JobsMatch /\ RowsMatch
  /\ HeldRowsPending /\ RowsOfPair /\ LocksExclusive
  /\ NumberedFromOne /\ BasesMatch /\ ViasFinished

--------------------------------------------------------------------------------
(* Starting a call *)

(* What the handlers' reads and checks establish about the job they start.   *)
Admitted(c, j, label) ==
  \/ label = "proposing" /\ j.op = "propose" /\ j.request = c /\ j.parts # {}
  \/ /\ label = "checked" /\ j.op = "publish" /\ j.request = c /\ j.parts # {}
     /\ ~isProtected[j.pair[2]]
  \/ label = "setting" /\ j.op = "settings"
  \/ /\ label = "deciding" /\ j.op \in {"approve", "reject"}
     /\ status[j.request] = "pending"
     /\ j.pair = job[j.request].pair
     /\ j.parts = job[j.request].parts
     /\ j.user # job[j.request].user

Admission(c) ==
  /\ pc[c] = "idle"
  /\ \E j \in Job, label \in Labels :
       /\ Admitted(c, j, label)
       /\ pc' = [pc EXCEPT ![c] = label]
       /\ job' = [job EXCEPT ![c] = j]
  /\ UNCHANGED <<rows, base, status, decidedBy, versions, isProtected, role>>

(* Every call starts with a well-formed job that passed its checks.          *)
LEMMA BeginAdmits ==
  ASSUME IInv, NEW c \in Calls, Begin(c)
  PROVE  Admission(c)
  <1> USE DEF IInv
  <1>1. CASE Propose(c)
    <2>1. PICK u \in Users, p \in Pairs, parts \in Payloads :
            Start(c, "proposing", "propose", u, p, parts, c, FALSE)
      BY <1>1 DEF Propose
    <2> DEFINE j == [op |-> "propose", user |-> u, pair |-> p, parts |-> parts,
                     request |-> c, protect |-> FALSE]
    <2>2. j \in Job /\ Admitted(c, j, "proposing")
      BY PayloadsPropose DEF Job, Admitted
    <2> QED
      BY <2>1, <2>2 DEF Start, Labels, Admission
  <1>2. ASSUME NEW op \in {"approve", "reject"}, RequireDecidable(c, op)
        PROVE  Admission(c)
    <2>1. PICK u \in Users, r \in Calls :
            /\ status[r] = "pending" /\ job[r].user # u
            /\ Start(c, "deciding", op, u, job[r].pair, job[r].parts, r, FALSE)
      BY <1>2 DEF RequireDecidable
    <2>2. job[r] \in Job
      BY <2>1 DEF RowsMatch, TypeOK
    <2> DEFINE j == [op |-> op, user |-> u, pair |-> job[r].pair,
                     parts |-> job[r].parts, request |-> r, protect |-> FALSE]
    <2>3. j \in Job /\ Admitted(c, j, "deciding")
      BY <2>1, <2>2 DEF Job, Admitted
    <2> QED
      BY <2>1, <2>3 DEF Start, Labels, Admission
  <1>3. CASE RequirePublishable(c)
    <2>1. PICK u \in Users, p \in Pairs, part \in UNION Payloads :
            ~isProtected[p[2]] /\ Start(c, "checked", "publish", u, p, {part}, c, FALSE)
      BY <1>3 DEF RequirePublishable
    <2> DEFINE j == [op |-> "publish", user |-> u, pair |-> p, parts |-> {part},
                     request |-> c, protect |-> FALSE]
    <2>2. j \in Job /\ Admitted(c, j, "checked")
      BY <2>1, PayloadsPropose DEF Job, Admitted
    <2> QED
      BY <2>1, <2>2 DEF Start, Labels, Admission
  <1>4. CASE RequireSettings(c)
    <2>1. PICK u \in Users, p \in Pairs, protect \in BOOLEAN :
            Start(c, "setting", "settings", u, p, {}, c, protect)
      BY <1>4 DEF RequireSettings
    <2> DEFINE j == [op |-> "settings", user |-> u, pair |-> p, parts |-> {},
                     request |-> c, protect |-> protect]
    <2>2. j \in Job /\ Admitted(c, j, "setting")
      BY DEF Job, Admitted
    <2> QED
      BY <2>1, <2>2 DEF Start, Labels, Admission
  <1> QED
    BY <1>1, <1>2, <1>3, <1>4 DEF Begin

--------------------------------------------------------------------------------
(* The invariant is preserved *)

GivesUp(c) ==
  CollideProposal(c) \/ LoseClaim(c) \/ RefuseApply(c) \/ CollidePublish(c)
    \/ Rollback(c)

(* A call that gives up changes only its own label and locks.                *)
LEMMA AbortEffect ==
  ASSUME NEW c \in Calls, GivesUp(c)
  PROVE  /\ pc[c] \notin {"idle", "done", "failed"}
         /\ pc' = [pc EXCEPT ![c] = "failed"]
         /\ rows' = [rows EXCEPT ![c] = {}]
         /\ UNCHANGED <<job, base, status, decidedBy, versions, isProtected, role>>
  BY DEF GivesUp, CollideProposal, InsertReady, LoseClaim, ClaimReady, RefuseApply,
         CollidePublish, Rollback, Abort, Finish, Goto

(* Next, one disjunct per kind of step.                                      *)
LEMMA NextCases ==
  ASSUME IInv, [Next]_vars
  PROVE  \/ \E c \in Calls :
              \/ Admission(c) \/ GivesUp(c)
              \/ ScanPending(c) \/ SupersedePending(c) \/ CommitProposal(c)
              \/ Claim(c) \/ CommitRejection(c)
              \/ WriteParts(c) \/ CommitPublish(c) \/ UpdateSettings(c)
         \/ UpdateRole
         \/ UNCHANGED vars
  BY BeginAdmits DEF Next, Continue, GivesUp

(* Labels keep belonging to the operations that reach them.                  *)
LEMMA LabelsStep ==
  ASSUME IInv, [Next]_vars
  PROVE  LabelsMatch'
  <1> USE DEF IInv, TypeOK, LabelsMatch
  <1>1. ASSUME NEW c \in Calls, Admission(c)
        PROVE  LabelsMatch'
    BY <1>1 DEF Admission, Admitted
  <1>2. ASSUME NEW c \in Calls, GivesUp(c)
        PROVE  LabelsMatch'
    BY <1>2, AbortEffect DEF Labels
  <1>3. ASSUME NEW c \in Calls, ScanPending(c)
        PROVE  LabelsMatch'
    BY <1>3 DEF ScanPending, Goto, PendingFor
  <1>4. ASSUME NEW c \in Calls, SupersedePending(c)
        PROVE  LabelsMatch'
    BY <1>4 DEF SupersedePending, Goto
  <1>5. ASSUME NEW c \in Calls, CommitProposal(c)
        PROVE  LabelsMatch'
    BY <1>5 DEF CommitProposal, InsertReady, Finish, Goto
  <1>6. ASSUME NEW c \in Calls, Claim(c)
        PROVE  LabelsMatch'
    BY <1>6 DEF Claim, ClaimReady, Goto
  <1>7. ASSUME NEW c \in Calls, CommitRejection(c)
        PROVE  LabelsMatch'
    BY <1>7 DEF CommitRejection, RecordDecision, Finish, Goto
  <1>8. ASSUME NEW c \in Calls, WriteParts(c)
        PROVE  LabelsMatch'
    BY <1>8 DEF WriteParts, Goto
  <1>9. ASSUME NEW c \in Calls, CommitPublish(c)
        PROVE  LabelsMatch'
    BY <1>9 DEF CommitPublish, RecordDecision, Finish, Goto
  <1>10. ASSUME NEW c \in Calls, UpdateSettings(c)
        PROVE  LabelsMatch'
    BY <1>10 DEF UpdateSettings, Finish, Goto
  <1>11. CASE UpdateRole
    BY <1>11 DEF UpdateRole
  <1>12. CASE UNCHANGED vars
    BY <1>12 DEF vars
  <1> QED
    BY <1>1, <1>2, <1>3, <1>4, <1>5, <1>6,
       <1>7, <1>8, <1>9, <1>10, <1>11, <1>12, NextCases

(* Jobs keep agreeing with the requests they decide.                         *)
LEMMA JobsStep ==
  ASSUME IInv, [Next]_vars
  PROVE  JobsMatch'
  <1> USE DEF IInv, TypeOK, Job, JobsMatch, RowsMatch, HeldRowsPending, LabelsMatch
  <1>1. ASSUME NEW c \in Calls, Admission(c)
        PROVE  JobsMatch'
    BY <1>1 DEF Admission, Admitted
  <1>2. ASSUME NEW c \in Calls, GivesUp(c)
        PROVE  JobsMatch'
    BY <1>2, AbortEffect DEF Labels
  <1>3. ASSUME NEW c \in Calls, ScanPending(c)
        PROVE  JobsMatch'
    BY <1>3 DEF ScanPending, Goto, PendingFor
  <1>4. ASSUME NEW c \in Calls, SupersedePending(c)
        PROVE  JobsMatch'
    BY <1>4 DEF SupersedePending, Goto
  <1>5. ASSUME NEW c \in Calls, CommitProposal(c)
        PROVE  JobsMatch'
    BY <1>5 DEF CommitProposal, InsertReady, Finish, Goto
  <1>6. ASSUME NEW c \in Calls, Claim(c)
        PROVE  JobsMatch'
    BY <1>6 DEF Claim, ClaimReady, Goto
  <1>7. ASSUME NEW c \in Calls, CommitRejection(c)
        PROVE  JobsMatch'
    BY <1>7 DEF CommitRejection, RecordDecision, Finish, Goto
  <1>8. ASSUME NEW c \in Calls, WriteParts(c)
        PROVE  JobsMatch'
    BY <1>8 DEF WriteParts, Goto
  <1>9. ASSUME NEW c \in Calls, CommitPublish(c)
        PROVE  JobsMatch'
    BY <1>9 DEF CommitPublish, RecordDecision, Finish, Goto
  <1>10. ASSUME NEW c \in Calls, UpdateSettings(c)
        PROVE  JobsMatch'
    BY <1>10 DEF UpdateSettings, Finish, Goto
  <1>11. CASE UpdateRole
    BY <1>11 DEF UpdateRole
  <1>12. CASE UNCHANGED vars
    BY <1>12 DEF vars
  <1> QED
    BY <1>1, <1>2, <1>3, <1>4, <1>5, <1>6,
       <1>7, <1>8, <1>9, <1>10, <1>11, <1>12, NextCases

(* Only finished proposals ever have a row.                                  *)
LEMMA RowsStep ==
  ASSUME IInv, [Next]_vars
  PROVE  RowsMatch'
  <1> USE DEF IInv, TypeOK, RowsMatch, LabelsMatch, JobsMatch, HeldRowsPending
  <1>1. ASSUME NEW c \in Calls, Admission(c)
        PROVE  RowsMatch'
    BY <1>1 DEF Admission, Admitted
  <1>2. ASSUME NEW c \in Calls, GivesUp(c)
        PROVE  RowsMatch'
    BY <1>2, AbortEffect DEF Labels
  <1>3. ASSUME NEW c \in Calls, ScanPending(c)
        PROVE  RowsMatch'
    BY <1>3 DEF ScanPending, Goto, PendingFor
  <1>4. ASSUME NEW c \in Calls, SupersedePending(c)
        PROVE  RowsMatch'
    BY <1>4 DEF SupersedePending, Goto
  <1>5. ASSUME NEW c \in Calls, CommitProposal(c)
        PROVE  RowsMatch'
    BY <1>5 DEF CommitProposal, InsertReady, Finish, Goto
  <1>6. ASSUME NEW c \in Calls, Claim(c)
        PROVE  RowsMatch'
    BY <1>6 DEF Claim, ClaimReady, Goto
  <1>7. ASSUME NEW c \in Calls, CommitRejection(c)
        PROVE  RowsMatch'
    BY <1>7 DEF CommitRejection, RecordDecision, Finish, Goto
  <1>8. ASSUME NEW c \in Calls, WriteParts(c)
        PROVE  RowsMatch'
    BY <1>8 DEF WriteParts, Goto
  <1>9. ASSUME NEW c \in Calls, CommitPublish(c)
        PROVE  RowsMatch'
    BY <1>9 DEF CommitPublish, RecordDecision, Finish, Goto
  <1>10. ASSUME NEW c \in Calls, UpdateSettings(c)
        PROVE  RowsMatch'
    BY <1>10 DEF UpdateSettings, Finish, Goto
  <1>11. CASE UpdateRole
    BY <1>11 DEF UpdateRole
  <1>12. CASE UNCHANGED vars
    BY <1>12 DEF vars
  <1> QED
    BY <1>1, <1>2, <1>3, <1>4, <1>5, <1>6,
       <1>7, <1>8, <1>9, <1>10, <1>11, <1>12, NextCases

(* No step hands out a row that is locked.                                   *)
LEMMA LocksStep ==
  ASSUME IInv, [Next]_vars
  PROVE  LocksExclusive'
  <1> USE DEF IInv, TypeOK, Job, InTransaction, LocksExclusive, HeldRowsPending
  <1>1. ASSUME NEW c \in Calls, Admission(c)
        PROVE  LocksExclusive'
    BY <1>1 DEF Admission, Admitted
  <1>2. ASSUME NEW c \in Calls, GivesUp(c)
        PROVE  LocksExclusive'
    BY <1>2, AbortEffect DEF Labels
  <1>3. ASSUME NEW c \in Calls, ScanPending(c)
        PROVE  LocksExclusive'
    BY <1>3 DEF ScanPending, Goto, PendingFor
  <1>4. ASSUME NEW c \in Calls, SupersedePending(c)
        PROVE  LocksExclusive'
    BY <1>4 DEF SupersedePending, Goto, LockedByOther
  <1>5. ASSUME NEW c \in Calls, CommitProposal(c)
        PROVE  LocksExclusive'
    BY <1>5 DEF CommitProposal, InsertReady, Finish, Goto
  <1>6. ASSUME NEW c \in Calls, Claim(c)
        PROVE  LocksExclusive'
    BY <1>6 DEF Claim, ClaimReady, Goto, LockedByOther
  <1>7. ASSUME NEW c \in Calls, CommitRejection(c)
        PROVE  LocksExclusive'
    BY <1>7 DEF CommitRejection, RecordDecision, Finish, Goto
  <1>8. ASSUME NEW c \in Calls, WriteParts(c)
        PROVE  LocksExclusive'
    BY <1>8 DEF WriteParts, Goto
  <1>9. ASSUME NEW c \in Calls, CommitPublish(c)
        PROVE  LocksExclusive'
    BY <1>9 DEF CommitPublish, RecordDecision, Finish, Goto
  <1>10. ASSUME NEW c \in Calls, UpdateSettings(c)
        PROVE  LocksExclusive'
    BY <1>10 DEF UpdateSettings, Finish, Goto
  <1>11. CASE UpdateRole
    BY <1>11 DEF UpdateRole
  <1>12. CASE UNCHANGED vars
    BY <1>12 DEF vars
  <1> QED
    BY <1>1, <1>2, <1>3, <1>4, <1>5, <1>6,
       <1>7, <1>8, <1>9, <1>10, <1>11, <1>12, NextCases

(* A row one transaction holds is not decided or superseded by another.      *)
LEMMA HeldRowsStep ==
  ASSUME IInv, [Next]_vars
  PROVE  HeldRowsPending'
  <1> USE DEF IInv, TypeOK, Job, LabelsMatch, JobsMatch, RowsMatch, HeldRowsPending, LocksExclusive, InTransaction
  <1>1. ASSUME NEW c \in Calls, Admission(c)
        PROVE  HeldRowsPending'
    BY <1>1 DEF Admission, Admitted
  <1>2. ASSUME NEW c \in Calls, GivesUp(c)
        PROVE  HeldRowsPending'
    BY <1>2, AbortEffect DEF Labels
  <1>3. ASSUME NEW c \in Calls, ScanPending(c)
        PROVE  HeldRowsPending'
    BY <1>3 DEF ScanPending, Goto, PendingFor
  <1>4. ASSUME NEW c \in Calls, SupersedePending(c)
        PROVE  HeldRowsPending'
    BY <1>4 DEF SupersedePending, Goto
  <1>5. ASSUME NEW c \in Calls, CommitProposal(c)
        PROVE  HeldRowsPending'
    BY <1>5 DEF CommitProposal, InsertReady, Finish, Goto
  <1>6. ASSUME NEW c \in Calls, Claim(c)
        PROVE  HeldRowsPending'
    BY <1>6 DEF Claim, ClaimReady, Goto
  <1>7. ASSUME NEW c \in Calls, CommitRejection(c)
        PROVE  HeldRowsPending'
    <2>1. \A d \in Calls \ {c} : pc[d] \in InTransaction => job[c].request \notin rows[d]
      BY <1>7 DEF CommitRejection
    <2> QED
      BY <1>7, <2>1 DEF CommitRejection, RecordDecision, Finish, Goto
  <1>8. ASSUME NEW c \in Calls, WriteParts(c)
        PROVE  HeldRowsPending'
    BY <1>8 DEF WriteParts, Goto
  <1>9. ASSUME NEW c \in Calls, CommitPublish(c)
        PROVE  HeldRowsPending'
    <2>1. CASE job[c].op = "approve"
      <3>1. \A d \in Calls \ {c} : pc[d] \in InTransaction => job[c].request \notin rows[d]
        BY <1>9, <2>1 DEF CommitPublish
      <3> QED
        BY <1>9, <2>1, <3>1 DEF CommitPublish, RecordDecision, Finish, Goto
    <2>2. CASE job[c].op # "approve"
      BY <1>9, <2>2 DEF CommitPublish, Finish, Goto
    <2> QED
      BY <2>1, <2>2
  <1>10. ASSUME NEW c \in Calls, UpdateSettings(c)
        PROVE  HeldRowsPending'
    BY <1>10 DEF UpdateSettings, Finish, Goto
  <1>11. CASE UpdateRole
    BY <1>11 DEF UpdateRole
  <1>12. CASE UNCHANGED vars
    BY <1>12 DEF vars
  <1> QED
    BY <1>1, <1>2, <1>3, <1>4, <1>5, <1>6,
       <1>7, <1>8, <1>9, <1>10, <1>11, <1>12, NextCases

(* A proposal never targets a row of another pair.                           *)
LEMMA RowsOfPairStep ==
  ASSUME IInv, [Next]_vars
  PROVE  RowsOfPair'
  <1> USE DEF IInv, TypeOK, Job, RowsMatch, RowsOfPair
  <1>1. ASSUME NEW c \in Calls, Admission(c)
        PROVE  RowsOfPair'
    BY <1>1 DEF Admission, Admitted
  <1>2. ASSUME NEW c \in Calls, GivesUp(c)
        PROVE  RowsOfPair'
    BY <1>2, AbortEffect DEF Labels
  <1>3. ASSUME NEW c \in Calls, ScanPending(c)
        PROVE  RowsOfPair'
    BY <1>3 DEF ScanPending, Goto, PendingFor
  <1>4. ASSUME NEW c \in Calls, SupersedePending(c)
        PROVE  RowsOfPair'
    BY <1>4 DEF SupersedePending, Goto
  <1>5. ASSUME NEW c \in Calls, CommitProposal(c)
        PROVE  RowsOfPair'
    BY <1>5 DEF CommitProposal, InsertReady, Finish, Goto
  <1>6. ASSUME NEW c \in Calls, Claim(c)
        PROVE  RowsOfPair'
    BY <1>6 DEF Claim, ClaimReady, Goto
  <1>7. ASSUME NEW c \in Calls, CommitRejection(c)
        PROVE  RowsOfPair'
    BY <1>7 DEF CommitRejection, RecordDecision, Finish, Goto
  <1>8. ASSUME NEW c \in Calls, WriteParts(c)
        PROVE  RowsOfPair'
    BY <1>8 DEF WriteParts, Goto
  <1>9. ASSUME NEW c \in Calls, CommitPublish(c)
        PROVE  RowsOfPair'
    BY <1>9 DEF CommitPublish, RecordDecision, Finish, Goto
  <1>10. ASSUME NEW c \in Calls, UpdateSettings(c)
        PROVE  RowsOfPair'
    BY <1>10 DEF UpdateSettings, Finish, Goto
  <1>11. CASE UpdateRole
    BY <1>11 DEF UpdateRole
  <1>12. CASE UNCHANGED vars
    BY <1>12 DEF vars
  <1> QED
    BY <1>1, <1>2, <1>3, <1>4, <1>5, <1>6,
       <1>7, <1>8, <1>9, <1>10, <1>11, <1>12, NextCases

--------------------------------------------------------------------------------
(* Version numbers *)

(* The parts of one publication are numbered 1..k, in order and one to one.  *)
LEMMA PositionsFromOne ==
  ASSUME NEW parts \in (SUBSET Parts) \ {{}}
  PROVE  /\ \A p, q \in parts : Position(p, parts) = Position(q, parts) => p = q
         /\ \E k \in Nat : {Position(q, parts) : q \in parts} = 1..k
  <1> DEFINE Pos(q) == Position(q, parts)
             One(q) == IF q \in parts THEN 1 ELSE 0
             k == One("config") + One("rules") + One("targets")
  <1>1. \A p, q \in parts : Pos(p) = Pos(q) => p = q
    BY DEF Position, Parts
  <1>2. \A q \in parts : Pos(q) \in 1..k
    BY DEF Position, Parts
  <1>3. ASSUME NEW i \in 1..k
        PROVE  \E q \in parts : Pos(q) = i
    <2>1. /\ "config" \in parts => Pos("config") = 1
          /\ "rules" \in parts => Pos("rules") = 1 + One("config")
          /\ "targets" \in parts => Pos("targets") = 1 + One("config") + One("rules")
      BY DEF Position
    <2>2. \/ "config" \in parts /\ i = 1
          \/ "rules" \in parts /\ i = 1 + One("config")
          \/ "targets" \in parts /\ i = 1 + One("config") + One("rules")
      BY <1>3
    <2> QED
      BY <2>1, <2>2
  <1>4. k \in Nat /\ {Pos(q) : q \in parts} = 1..k
    BY <1>2, <1>3
  <1> QED
    BY <1>1, <1>4

(* Whatever is published has parts, and they are the proposal's.             *)
LEMMA PublishesSomething ==
  ASSUME IInv, NEW c \in Calls, pc[c] = "published"
  PROVE  job[c].parts \in (SUBSET Parts) \ {{}}
  <1> USE DEF IInv
  <1>1. job[c] \in Job
    BY DEF TypeOK
  <1>2. CASE job[c].op = "publish"
    BY <1>1, <1>2 DEF JobsMatch, Job
  <1>3. CASE job[c].op = "approve"
    <2> DEFINE r == job[c].request
    <2>1. r \in Calls /\ status[r] # "absent" /\ job[c].parts = job[r].parts
      BY <1>1, <1>3 DEF JobsMatch, Job
    <2>2. pc[r] # "idle" /\ job[r].op = "propose"
      BY <2>1 DEF RowsMatch
    <2>3. job[r].parts # {}
      BY <2>1, <2>2 DEF JobsMatch
    <2> QED
      BY <1>1, <2>1, <2>3 DEF Job
  <1> QED
    BY <1>2, <1>3 DEF LabelsMatch

(* The version a transaction reads is the pair's highest, or 0.              *)
LEMMA LastVersionIs ==
  ASSUME NEW p, NEW n \in Nat, NumbersOf(p) = 1..n
  PROVE  LastVersion(p) = n
  <1>1. \A v \in VersionsOf(p) : v.version \in 1..n
    BY DEF NumbersOf
  <1>2. n = 0 \/ \E v \in VersionsOf(p) : v.version = n
    <2>1. n = 0 \/ n \in 1..n
      OBVIOUS
    <2> QED
      BY <2>1 DEF NumbersOf
  <1>3. n \in {0} \cup NumbersOf(p) /\ \A v \in VersionsOf(p) : v.version <= n
    BY <1>1, <1>2 DEF NumbersOf
  <1>4. ASSUME NEW m \in {0} \cup NumbersOf(p),
               \A v \in VersionsOf(p) : v.version <= m
        PROVE  m = n
    BY <1>1, <1>2, <1>4
  <1> QED
    BY <1>3, <1>4 DEF LastVersion, NumbersOf

(* A commit continues the numbering of its own pair and leaves other pairs.  *)
LEMMA CommitNumbers ==
  ASSUME IInv, NEW c \in Calls, CommitPublish(c), NEW p, p = job[c].pair
  PROVE  /\ p \in Pairs
         /\ \A q \in Pairs \ {p} : NumbersOf(q)' = NumbersOf(q)
         /\ NumbersOf(p) = 1..base[c]
         /\ \E n \in Nat : NumbersOf(p)' = 1..n /\ n > base[c]
  <1> USE DEF IInv
  <1> DEFINE parts == job[c].parts
             b == base[c]
  <1>1. job[c] \in Job /\ p \in Pairs /\ b \in Nat /\ pc[c] = "published"
    BY DEF CommitPublish, TypeOK, Job
  <1>2. parts \in (SUBSET Parts) \ {{}}
    BY <1>1, PublishesSomething
  <1>3. PICK n \in Nat : NumbersOf(p) = 1..n
    BY <1>1 DEF NumberedFromOne
  <1>4. b = n
    <2>1. \A m \in NumbersOf(p) : ~(m > b)
      BY DEF CommitPublish, VersionTaken, NumbersOf
    <2>2. n = 0 \/ ~(n > b)
      BY <1>3, <2>1
    <2>3. b = 0 \/ b \in 1..n
      BY <1>1, <1>3 DEF BasesMatch
    <2> QED
      BY <1>1, <2>2, <2>3
  <1>5. PICK k \in Nat : {Position(q, parts) : q \in parts} = 1..k
    BY <1>2, PositionsFromOne
  <1>6. k > 0
    BY <1>2, <1>5
  <1>7. ASSUME NEW m
        PROVE  m \in NumbersOf(p)' <=> m \in NumbersOf(p) \/ \E q \in parts : m = b + Position(q, parts)
    <2>1. versions' = versions \cup Published(c)
      BY DEF CommitPublish
    <2>2. m \in NumbersOf(p)' <=> \E v \in versions' : v.pair = p /\ v.version = m
      BY DEF NumbersOf, VersionsOf
    <2>3. m \in NumbersOf(p) <=> \E v \in versions : v.pair = p /\ v.version = m
      BY DEF NumbersOf, VersionsOf
    <2>4. (\E v \in Published(c) : v.pair = p /\ v.version = m)
            <=> \E q \in parts : m = b + Position(q, parts)
      <3> DEFINE Row(q) == [pair |-> job[c].pair, version |-> b + Position(q, parts),
                            part |-> q, via |-> job[c].request]
      <3>1. Published(c) = {Row(q) : q \in parts}
        BY DEF Published
      <3>2. \A q \in parts : Row(q).pair = p /\ Row(q).version = b + Position(q, parts)
        OBVIOUS
      <3> HIDE DEF Row
      <3> QED
        BY <3>1, <3>2
    <2> QED
      BY <2>1, <2>2, <2>3, <2>4
  <1>8. ASSUME NEW m
        PROVE  (\E q \in parts : m = b + Position(q, parts)) <=> m \in (b + 1)..(b + k)
    <2>1. (\E q \in parts : m = b + Position(q, parts)) <=> \E i \in 1..k : m = b + i
      BY <1>5
    <2>2. m \in (b + 1)..(b + k) => m - b \in 1..k /\ m = b + (m - b)
      BY <1>1
    <2> QED
      BY <1>1, <2>1, <2>2
  <1>9. NumbersOf(p)' = 1..(b + k)
    <2>1. ASSUME NEW m
          PROVE  m \in NumbersOf(p)' <=> m \in 1..b \/ m \in (b + 1)..(b + k)
      BY <1>3, <1>4, <1>7, <1>8
    <2>2. ASSUME NEW m
          PROVE  m \in 1..(b + k) <=> m \in 1..b \/ m \in (b + 1)..(b + k)
      BY <1>1
    <2> QED
      BY <2>1, <2>2
  <1>10. \A q \in Pairs \ {p} : NumbersOf(q)' = NumbersOf(q)
    BY DEF CommitPublish, Published, NumbersOf, VersionsOf
  <1> QED
    BY <1>1, <1>3, <1>4, <1>6, <1>9, <1>10

(* Every variable keeps its type.                                           *)
LEMMA TypeStep ==
  ASSUME IInv, [Next]_vars
  PROVE  TypeOK'
  <1> USE DEF IInv, TypeOK, Job, Labels, Statuses
  <1>1. ASSUME NEW c \in Calls, Admission(c)
        PROVE  TypeOK'
    BY <1>1 DEF Admission, Admitted
  <1>2. ASSUME NEW c \in Calls, GivesUp(c)
        PROVE  TypeOK'
    BY <1>2, AbortEffect DEF Labels
  <1>3. ASSUME NEW c \in Calls, ScanPending(c)
        PROVE  TypeOK'
    BY <1>3 DEF ScanPending, Goto, PendingFor
  <1>4. ASSUME NEW c \in Calls, SupersedePending(c)
        PROVE  TypeOK'
    BY <1>4 DEF SupersedePending, Goto
  <1>5. ASSUME NEW c \in Calls, CommitProposal(c)
        PROVE  TypeOK'
    BY <1>5 DEF CommitProposal, InsertReady, Finish, Goto
  <1>6. ASSUME NEW c \in Calls, Claim(c)
        PROVE  TypeOK'
    BY <1>6 DEF Claim, ClaimReady, Goto
  <1>7. ASSUME NEW c \in Calls, CommitRejection(c)
        PROVE  TypeOK'
    BY <1>7 DEF CommitRejection, RecordDecision, Finish, Goto
  <1>8. ASSUME NEW c \in Calls, WriteParts(c)
        PROVE  TypeOK'
    <2>1. job[c] \in Job
      BY <1>8 DEF WriteParts
    <2>2. PICK n \in Nat : NumbersOf(job[c].pair) = 1..n
      BY <2>1 DEF NumberedFromOne
    <2>3. LastVersion(job[c].pair) \in Nat
      BY <2>2, LastVersionIs
    <2> QED
      BY <1>8, <2>3 DEF WriteParts, Goto
  <1>9. ASSUME NEW c \in Calls, CommitPublish(c)
        PROVE  TypeOK'
    <2>1. job[c] \in Job /\ job[c].request \in Calls /\ pc[c] = "published"
      BY <1>9 DEF CommitPublish
    <2>2. Published(c) \subseteq Rows
      <3>1. \A q \in job[c].parts : Position(q, job[c].parts) \in Nat
        BY DEF Position
      <3> QED
        BY <2>1, <3>1 DEF Published, Rows
    <2> QED
      BY <1>9, <2>1, <2>2 DEF CommitPublish, RecordDecision, Finish, Goto
  <1>10. ASSUME NEW c \in Calls, UpdateSettings(c)
        PROVE  TypeOK'
    <2>1. job[c] \in Job
      BY <1>10 DEF UpdateSettings
    <2> QED
      BY <1>10, <2>1 DEF UpdateSettings, Finish, Goto, Pairs
  <1>11. CASE UpdateRole
    BY <1>11, RolesAssignable DEF UpdateRole
  <1>12. CASE UNCHANGED vars
    BY <1>12 DEF vars
  <1> QED
    BY <1>1, <1>2, <1>3, <1>4, <1>5, <1>6,
       <1>7, <1>8, <1>9, <1>10, <1>11, <1>12, NextCases

(* The numbering of every pair stays 1..n.                                   *)
LEMMA NumbersStep ==
  ASSUME IInv, [Next]_vars
  PROVE  NumberedFromOne'
  <1> USE DEF IInv, NumberedFromOne
  <1>1. ASSUME NEW c \in Calls, Admission(c)
        PROVE  NumberedFromOne'
    BY <1>1 DEF Admission, NumbersOf, VersionsOf
  <1>2. ASSUME NEW c \in Calls, GivesUp(c)
        PROVE  NumberedFromOne'
    BY <1>2, AbortEffect DEF NumbersOf, VersionsOf
  <1>3. ASSUME NEW c \in Calls, ScanPending(c)
        PROVE  NumberedFromOne'
    BY <1>3 DEF ScanPending, NumbersOf, VersionsOf
  <1>4. ASSUME NEW c \in Calls, SupersedePending(c)
        PROVE  NumberedFromOne'
    BY <1>4 DEF SupersedePending, NumbersOf, VersionsOf
  <1>5. ASSUME NEW c \in Calls, CommitProposal(c)
        PROVE  NumberedFromOne'
    BY <1>5 DEF CommitProposal, NumbersOf, VersionsOf
  <1>6. ASSUME NEW c \in Calls, Claim(c)
        PROVE  NumberedFromOne'
    BY <1>6 DEF Claim, NumbersOf, VersionsOf
  <1>7. ASSUME NEW c \in Calls, CommitRejection(c)
        PROVE  NumberedFromOne'
    BY <1>7 DEF CommitRejection, NumbersOf, VersionsOf
  <1>8. ASSUME NEW c \in Calls, WriteParts(c)
        PROVE  NumberedFromOne'
    BY <1>8 DEF WriteParts, NumbersOf, VersionsOf
  <1>9. ASSUME NEW c \in Calls, CommitPublish(c)
        PROVE  NumberedFromOne'
    <2> SUFFICES ASSUME NEW p \in Pairs
                 PROVE  \E n \in Nat : NumbersOf(p)' = 1..n
      OBVIOUS
    <2>1. CASE p = job[c].pair
      BY <1>9, <2>1, CommitNumbers
    <2>2. CASE p # job[c].pair
      <3>1. NumbersOf(p)' = NumbersOf(p)
        BY <1>9, <2>2, CommitNumbers
      <3> QED
        BY <3>1
    <2> QED
      BY <2>1, <2>2
  <1>10. ASSUME NEW c \in Calls, UpdateSettings(c)
        PROVE  NumberedFromOne'
    BY <1>10 DEF UpdateSettings, NumbersOf, VersionsOf
  <1>11. CASE UpdateRole
    BY <1>11 DEF UpdateRole, NumbersOf, VersionsOf
  <1>12. CASE UNCHANGED vars
    BY <1>12 DEF vars, NumbersOf, VersionsOf
  <1> QED
    BY <1>1, <1>2, <1>3, <1>4, <1>5, <1>6,
       <1>7, <1>8, <1>9, <1>10, <1>11, <1>12, NextCases

(* The number a transaction read stays one of its pair's numbers.            *)
LEMMA BasesStep ==
  ASSUME IInv, [Next]_vars
  PROVE  BasesMatch'
  <1> USE DEF IInv, TypeOK, Job, BasesMatch
  <1>1. ASSUME NEW c \in Calls, Admission(c)
        PROVE  BasesMatch'
    BY <1>1 DEF Admission, Admitted, NumbersOf, VersionsOf
  <1>2. ASSUME NEW c \in Calls, GivesUp(c)
        PROVE  BasesMatch'
    BY <1>2, AbortEffect DEF NumbersOf, VersionsOf
  <1>3. ASSUME NEW c \in Calls, ScanPending(c)
        PROVE  BasesMatch'
    BY <1>3 DEF ScanPending, Goto, PendingFor, NumbersOf, VersionsOf
  <1>4. ASSUME NEW c \in Calls, SupersedePending(c)
        PROVE  BasesMatch'
    BY <1>4 DEF SupersedePending, Goto, NumbersOf, VersionsOf
  <1>5. ASSUME NEW c \in Calls, CommitProposal(c)
        PROVE  BasesMatch'
    BY <1>5 DEF CommitProposal, InsertReady, Finish, Goto, NumbersOf, VersionsOf
  <1>6. ASSUME NEW c \in Calls, Claim(c)
        PROVE  BasesMatch'
    BY <1>6 DEF Claim, ClaimReady, Goto, NumbersOf, VersionsOf
  <1>7. ASSUME NEW c \in Calls, CommitRejection(c)
        PROVE  BasesMatch'
    BY <1>7 DEF CommitRejection, RecordDecision, Finish, Goto, NumbersOf, VersionsOf
  <1>8. ASSUME NEW c \in Calls, WriteParts(c)
        PROVE  BasesMatch'
    <2> DEFINE p == job[c].pair
    <2>1. job[c] \in Job
      BY <1>8 DEF WriteParts
    <2>2. PICK n \in Nat : NumbersOf(p) = 1..n
      BY <2>1 DEF NumberedFromOne
    <2>3. LastVersion(p) = n
      BY <2>2, LastVersionIs
    <2>4. n = 0 \/ n \in NumbersOf(p)
      BY <2>2
    <2> QED
      BY <1>8, <2>3, <2>4 DEF WriteParts, Goto, NumbersOf, VersionsOf
  <1>9. ASSUME NEW c \in Calls, CommitPublish(c)
        PROVE  BasesMatch'
    <2>1. versions \subseteq versions' /\ job' = job /\ base' = base
      BY <1>9 DEF CommitPublish, Finish
    <2>2. \A d \in Calls : pc'[d] = "published" => pc[d] = "published"
      BY <1>9 DEF CommitPublish, Finish, Goto
    <2> QED
      BY <2>1, <2>2 DEF NumbersOf, VersionsOf
  <1>10. ASSUME NEW c \in Calls, UpdateSettings(c)
        PROVE  BasesMatch'
    BY <1>10 DEF UpdateSettings, Finish, Goto, NumbersOf, VersionsOf
  <1>11. CASE UpdateRole
    BY <1>11 DEF UpdateRole, NumbersOf, VersionsOf
  <1>12. CASE UNCHANGED vars
    BY <1>12 DEF vars, NumbersOf, VersionsOf
  <1> QED
    BY <1>1, <1>2, <1>3, <1>4, <1>5, <1>6,
       <1>7, <1>8, <1>9, <1>10, <1>11, <1>12, NextCases

(* A version keeps naming a finished proposal or direct publish.             *)
LEMMA ViasStep ==
  ASSUME IInv, [Next]_vars
  PROVE  ViasFinished'
  <1> USE DEF IInv, TypeOK, Job, Rows, RowsMatch, LabelsMatch, JobsMatch, HeldRowsPending, ViasFinished
  <1>1. ASSUME NEW c \in Calls, Admission(c)
        PROVE  ViasFinished'
    BY <1>1 DEF Admission, Admitted
  <1>2. ASSUME NEW c \in Calls, GivesUp(c)
        PROVE  ViasFinished'
    BY <1>2, AbortEffect DEF Labels
  <1>3. ASSUME NEW c \in Calls, ScanPending(c)
        PROVE  ViasFinished'
    BY <1>3 DEF ScanPending, Goto, PendingFor
  <1>4. ASSUME NEW c \in Calls, SupersedePending(c)
        PROVE  ViasFinished'
    BY <1>4 DEF SupersedePending, Goto
  <1>5. ASSUME NEW c \in Calls, CommitProposal(c)
        PROVE  ViasFinished'
    BY <1>5 DEF CommitProposal, InsertReady, Finish, Goto
  <1>6. ASSUME NEW c \in Calls, Claim(c)
        PROVE  ViasFinished'
    BY <1>6 DEF Claim, ClaimReady, Goto
  <1>7. ASSUME NEW c \in Calls, CommitRejection(c)
        PROVE  ViasFinished'
    BY <1>7 DEF CommitRejection, RecordDecision, Finish, Goto
  <1>8. ASSUME NEW c \in Calls, WriteParts(c)
        PROVE  ViasFinished'
    BY <1>8 DEF WriteParts, Goto
  <1>9. ASSUME NEW c \in Calls, CommitPublish(c)
        PROVE  ViasFinished'
    <2>1. job[c] \in Job /\ pc[c] = "published"
      BY <1>9 DEF CommitPublish
    <2>2. job[c].op = "publish" => job[c].request = c
      BY <2>1
    <2>3. job[c].op = "approve" => /\ job[c].request # c
                                   /\ pc[job[c].request] = "done"
                                   /\ job[job[c].request].op = "propose"
      BY <2>1
    <2>4. \A v \in Published(c) : v.via = job[c].request
      BY DEF Published
    <2>5. versions' = versions \cup Published(c) /\ job' = job
          /\ pc' = [pc EXCEPT ![c] = "done"]
      BY <1>9 DEF CommitPublish, Finish, Goto
    <2> QED
      BY <2>1, <2>2, <2>3, <2>4, <2>5
  <1>10. ASSUME NEW c \in Calls, UpdateSettings(c)
        PROVE  ViasFinished'
    BY <1>10 DEF UpdateSettings, Finish, Goto
  <1>11. CASE UpdateRole
    BY <1>11 DEF UpdateRole
  <1>12. CASE UNCHANGED vars
    BY <1>12 DEF vars
  <1> QED
    BY <1>1, <1>2, <1>3, <1>4, <1>5, <1>6,
       <1>7, <1>8, <1>9, <1>10, <1>11, <1>12, NextCases

(* The inductive invariant holds in every reachable state.                   *)
LEMMA Invariance == Spec => []IInv
  <1>1. Init => IInv
    <2> SUFFICES ASSUME Init PROVE IInv
      OBVIOUS
    <2> USE DEF Init
    <2>1. TypeOK
      BY RolesAssignable DEF TypeOK, Labels, Statuses
    <2>2. \A p \in Pairs : NumbersOf(p) = 1..0
      BY DEF NumbersOf, VersionsOf
    <2>3. NumberedFromOne
      BY <2>2 DEF NumberedFromOne
    <2> QED
      BY <2>1, <2>3 DEF IInv, LabelsMatch, JobsMatch, RowsMatch, HeldRowsPending,
         LocksExclusive, InTransaction, BasesMatch, ViasFinished, RowsOfPair
  <1>2. IInv /\ [Next]_vars => IInv'
    BY TypeStep, LabelsStep, JobsStep, RowsStep, HeldRowsStep, LocksStep,
       RowsOfPairStep, NumbersStep, BasesStep, ViasStep DEF IInv
  <1> QED
    BY <1>1, <1>2, PTL DEF Spec

(* Every variable keeps its type, for any users, pairs and calls.            *)
THEOREM TypeCorrect == Spec => []TypeOK
  <1>1. IInv => TypeOK
    BY DEF IInv
  <1> QED
    BY <1>1, Invariance, PTL

--------------------------------------------------------------------------------
(* The safety properties *)

(* At most one request is pending for each flag and environment.             *)
THEOREM OnePendingHolds == Spec => []OnePending
  <1>1. Init => OnePending
    BY DEF Init, OnePending
  <1>2. IInv /\ OnePending /\ [Next]_vars => OnePending'
    <2> SUFFICES ASSUME IInv, OnePending, [Next]_vars PROVE OnePending'
      OBVIOUS
    <2> USE DEF IInv, TypeOK, Job, RowsMatch, LabelsMatch, JobsMatch, OnePending
    <2>1. ASSUME NEW c \in Calls, Admission(c)
          PROVE  OnePending'
      BY <2>1 DEF Admission, Admitted
    <2>2. ASSUME NEW c \in Calls, GivesUp(c)
          PROVE  OnePending'
      BY <2>2, AbortEffect DEF Labels
    <2>3. ASSUME NEW c \in Calls, ScanPending(c)
          PROVE  OnePending'
      BY <2>3 DEF ScanPending, Goto, PendingFor
    <2>4. ASSUME NEW c \in Calls, SupersedePending(c)
          PROVE  OnePending'
      BY <2>4 DEF SupersedePending, Goto
    <2>5. ASSUME NEW c \in Calls, CommitProposal(c)
          PROVE  OnePending'
      BY <2>5 DEF CommitProposal, InsertReady, Rivals, PendingFor, Finish, Goto
    <2>6. ASSUME NEW c \in Calls, Claim(c)
          PROVE  OnePending'
      BY <2>6 DEF Claim, ClaimReady, Goto
    <2>7. ASSUME NEW c \in Calls, CommitRejection(c)
          PROVE  OnePending'
      BY <2>7 DEF CommitRejection, RecordDecision, Finish, Goto
    <2>8. ASSUME NEW c \in Calls, WriteParts(c)
          PROVE  OnePending'
      BY <2>8 DEF WriteParts, Goto
    <2>9. ASSUME NEW c \in Calls, CommitPublish(c)
          PROVE  OnePending'
      BY <2>9 DEF CommitPublish, RecordDecision, Finish, Goto
    <2>10. ASSUME NEW c \in Calls, UpdateSettings(c)
          PROVE  OnePending'
      BY <2>10 DEF UpdateSettings, Finish, Goto
    <2>11. CASE UpdateRole
      BY <2>11 DEF UpdateRole
    <2>12. CASE UNCHANGED vars
      BY <2>12 DEF vars
    <2> QED
      BY <2>1, <2>2, <2>3, <2>4, <2>5, <2>6,
         <2>7, <2>8, <2>9, <2>10, <2>11, <2>12, NextCases
  <1> QED
    BY <1>1, <1>2, Invariance, PTL DEF Spec

(* Every decision was taken by somebody other than the request's author.     *)
THEOREM FourEyesHolds == Spec => []FourEyes
  <1>1. Init => FourEyes
    BY NoneIsNobody DEF Init, FourEyes, Decided
  <1>2. IInv /\ FourEyes /\ [Next]_vars => FourEyes'
    <2> SUFFICES ASSUME IInv, FourEyes, [Next]_vars PROVE FourEyes'
      OBVIOUS
    <2> USE DEF IInv, TypeOK, Job, RowsMatch, LabelsMatch, JobsMatch, HeldRowsPending, FourEyes, Decided
    <2>1. ASSUME NEW c \in Calls, Admission(c)
          PROVE  FourEyes'
      BY <2>1 DEF Admission, Admitted
    <2>2. ASSUME NEW c \in Calls, GivesUp(c)
          PROVE  FourEyes'
      BY <2>2, AbortEffect DEF Labels
    <2>3. ASSUME NEW c \in Calls, ScanPending(c)
          PROVE  FourEyes'
      BY <2>3 DEF ScanPending, Goto, PendingFor
    <2>4. ASSUME NEW c \in Calls, SupersedePending(c)
          PROVE  FourEyes'
      BY <2>4 DEF SupersedePending, Goto
    <2>5. ASSUME NEW c \in Calls, CommitProposal(c)
          PROVE  FourEyes'
      BY <2>5 DEF CommitProposal, InsertReady, Finish, Goto
    <2>6. ASSUME NEW c \in Calls, Claim(c)
          PROVE  FourEyes'
      BY <2>6 DEF Claim, ClaimReady, Goto
    <2>7. ASSUME NEW c \in Calls, CommitRejection(c)
          PROVE  FourEyes'
      BY <2>7 DEF CommitRejection, RecordDecision, Finish, Goto
    <2>8. ASSUME NEW c \in Calls, WriteParts(c)
          PROVE  FourEyes'
      BY <2>8 DEF WriteParts, Goto
    <2>9. ASSUME NEW c \in Calls, CommitPublish(c)
          PROVE  FourEyes'
      BY <2>9 DEF CommitPublish, RecordDecision, Finish, Goto
    <2>10. ASSUME NEW c \in Calls, UpdateSettings(c)
          PROVE  FourEyes'
      BY <2>10 DEF UpdateSettings, Finish, Goto
    <2>11. CASE UpdateRole
      BY <2>11 DEF UpdateRole
    <2>12. CASE UNCHANGED vars
      BY <2>12 DEF vars
    <2> QED
      BY <2>1, <2>2, <2>3, <2>4, <2>5, <2>6,
         <2>7, <2>8, <2>9, <2>10, <2>11, <2>12, NextCases
  <1> QED
    BY <1>1, <1>2, Invariance, PTL DEF Spec

(* A proposal's parts are published, each once, exactly when it is approved. *)
THEOREM AppliedIffApprovedHolds == Spec => []AppliedIffApproved
  <1>1. Init => AppliedIffApproved
    BY DEF Init, AppliedIffApproved
  <1>2. IInv /\ AppliedIffApproved /\ [Next]_vars => AppliedIffApproved'
    <2> SUFFICES ASSUME IInv, AppliedIffApproved, [Next]_vars PROVE AppliedIffApproved'
      OBVIOUS
    <2> USE DEF IInv, TypeOK, Job, Rows, RowsMatch, LabelsMatch, JobsMatch, HeldRowsPending, ViasFinished, AppliedIffApproved
    <2>1. ASSUME NEW c \in Calls, Admission(c)
          PROVE  AppliedIffApproved'
      BY <2>1 DEF Admission, Admitted
    <2>2. ASSUME NEW c \in Calls, GivesUp(c)
          PROVE  AppliedIffApproved'
      BY <2>2, AbortEffect DEF Labels
    <2>3. ASSUME NEW c \in Calls, ScanPending(c)
          PROVE  AppliedIffApproved'
      BY <2>3 DEF ScanPending, Goto, PendingFor
    <2>4. ASSUME NEW c \in Calls, SupersedePending(c)
          PROVE  AppliedIffApproved'
      BY <2>4 DEF SupersedePending, Goto
    <2>5. ASSUME NEW c \in Calls, CommitProposal(c)
          PROVE  AppliedIffApproved'
      BY <2>5 DEF CommitProposal, InsertReady, Finish, Goto
    <2>6. ASSUME NEW c \in Calls, Claim(c)
          PROVE  AppliedIffApproved'
      BY <2>6 DEF Claim, ClaimReady, Goto
    <2>7. ASSUME NEW c \in Calls, CommitRejection(c)
          PROVE  AppliedIffApproved'
      BY <2>7 DEF CommitRejection, RecordDecision, Finish, Goto
    <2>8. ASSUME NEW c \in Calls, WriteParts(c)
          PROVE  AppliedIffApproved'
      BY <2>8 DEF WriteParts, Goto
    <2>9. ASSUME NEW c \in Calls, CommitPublish(c)
          PROVE  AppliedIffApproved'
      <3> DEFINE r == job[c].request
                 Row(q) == [pair |-> job[c].pair,
                            version |-> base[c] + Position(q, job[c].parts),
                            part |-> q, via |-> r]
      <3>1. job[c] \in Job /\ r \in Calls /\ pc[c] = "published"
        BY <2>9 DEF CommitPublish
      <3>2. versions' = versions \cup {Row(q) : q \in job[c].parts} /\ job' = job
        BY <2>9 DEF CommitPublish, Published, Finish
      <3>3. job[r].pair = job[c].pair /\ job[r].parts = job[c].parts
        BY <3>1
      <3>4. \A v \in versions : v.via # r
        BY <3>1
      <3>5. \A q \in job[c].parts : /\ Row(q).pair = job[c].pair
                                    /\ Row(q).part = q /\ Row(q).via = r
        OBVIOUS
      <3>6. /\ \A x \in Calls \ {r} : status'[x] = status[x]
            /\ job[c].op = "approve" => status'[r] = "approved"
            /\ job[c].op = "publish" => status' = status /\ r = c
        BY <2>9, <3>1 DEF CommitPublish, RecordDecision
      <3> HIDE DEF Row
      <3>7. \A x \in Calls : status'[x] = "approved" =>
              \A part \in job[x].parts : \E v \in versions' : v.via = x /\ v.part = part
        BY <3>1, <3>2, <3>3, <3>5, <3>6
      <3>8. \A v \in versions' :
              /\ job[v.via].op = "propose" => status'[v.via] = "approved"
              /\ v.pair = job[v.via].pair /\ v.part \in job[v.via].parts
        BY <3>1, <3>2, <3>3, <3>4, <3>5, <3>6
      <3>9. \A v, w \in versions' : v.via = w.via /\ v.part = w.part => v = w
        BY <3>2, <3>4, <3>5
      <3> QED
        BY <3>2, <3>7, <3>8, <3>9
    <2>10. ASSUME NEW c \in Calls, UpdateSettings(c)
          PROVE  AppliedIffApproved'
      BY <2>10 DEF UpdateSettings, Finish, Goto
    <2>11. CASE UpdateRole
      BY <2>11 DEF UpdateRole
    <2>12. CASE UNCHANGED vars
      BY <2>12 DEF vars
    <2> QED
      BY <2>1, <2>2, <2>3, <2>4, <2>5, <2>6,
         <2>7, <2>8, <2>9, <2>10, <2>11, <2>12, NextCases
  <1> QED
    BY <1>1, <1>2, Invariance, PTL DEF Spec

(* No later call revises what was decided or superseded.                     *)
THEOREM DecisionsAreFinalHolds == Spec => DecisionsAreFinal
  <1>1. ASSUME IInv, [Next]_vars
        PROVE  \A r \in Calls : status[r] \in Decided \cup {"superseded"} =>
                 status'[r] = status[r] /\ decidedBy'[r] = decidedBy[r]
    <2> USE DEF IInv, TypeOK, Job, RowsMatch, LabelsMatch, JobsMatch, HeldRowsPending, Decided
    <2>1. ASSUME NEW c \in Calls, Admission(c)
          PROVE  \A r \in Calls : status[r] \in Decided \cup {"superseded"} =>
                 status'[r] = status[r] /\ decidedBy'[r] = decidedBy[r]
      BY <2>1, <1>1 DEF Admission, Admitted
    <2>2. ASSUME NEW c \in Calls, GivesUp(c)
          PROVE  \A r \in Calls : status[r] \in Decided \cup {"superseded"} =>
                 status'[r] = status[r] /\ decidedBy'[r] = decidedBy[r]
      BY <2>2, <1>1, AbortEffect DEF Labels
    <2>3. ASSUME NEW c \in Calls, ScanPending(c)
          PROVE  \A r \in Calls : status[r] \in Decided \cup {"superseded"} =>
                 status'[r] = status[r] /\ decidedBy'[r] = decidedBy[r]
      BY <2>3, <1>1 DEF ScanPending, Goto, PendingFor
    <2>4. ASSUME NEW c \in Calls, SupersedePending(c)
          PROVE  \A r \in Calls : status[r] \in Decided \cup {"superseded"} =>
                 status'[r] = status[r] /\ decidedBy'[r] = decidedBy[r]
      BY <2>4, <1>1 DEF SupersedePending, Goto
    <2>5. ASSUME NEW c \in Calls, CommitProposal(c)
          PROVE  \A r \in Calls : status[r] \in Decided \cup {"superseded"} =>
                 status'[r] = status[r] /\ decidedBy'[r] = decidedBy[r]
      BY <2>5, <1>1 DEF CommitProposal, InsertReady, Finish, Goto
    <2>6. ASSUME NEW c \in Calls, Claim(c)
          PROVE  \A r \in Calls : status[r] \in Decided \cup {"superseded"} =>
                 status'[r] = status[r] /\ decidedBy'[r] = decidedBy[r]
      BY <2>6, <1>1 DEF Claim, ClaimReady, Goto
    <2>7. ASSUME NEW c \in Calls, CommitRejection(c)
          PROVE  \A r \in Calls : status[r] \in Decided \cup {"superseded"} =>
                 status'[r] = status[r] /\ decidedBy'[r] = decidedBy[r]
      BY <2>7, <1>1 DEF CommitRejection, RecordDecision, Finish, Goto
    <2>8. ASSUME NEW c \in Calls, WriteParts(c)
          PROVE  \A r \in Calls : status[r] \in Decided \cup {"superseded"} =>
                 status'[r] = status[r] /\ decidedBy'[r] = decidedBy[r]
      BY <2>8, <1>1 DEF WriteParts, Goto
    <2>9. ASSUME NEW c \in Calls, CommitPublish(c)
          PROVE  \A r \in Calls : status[r] \in Decided \cup {"superseded"} =>
                 status'[r] = status[r] /\ decidedBy'[r] = decidedBy[r]
      BY <2>9, <1>1 DEF CommitPublish, RecordDecision, Finish, Goto
    <2>10. ASSUME NEW c \in Calls, UpdateSettings(c)
          PROVE  \A r \in Calls : status[r] \in Decided \cup {"superseded"} =>
                 status'[r] = status[r] /\ decidedBy'[r] = decidedBy[r]
      BY <2>10, <1>1 DEF UpdateSettings, Finish, Goto
    <2>11. CASE UpdateRole
      BY <2>11 DEF UpdateRole
    <2>12. CASE UNCHANGED vars
      BY <2>12 DEF vars
    <2> QED
      BY <1>1, <2>1, <2>2, <2>3, <2>4, <2>5, <2>6,
         <2>7, <2>8, <2>9, <2>10, <2>11, <2>12, NextCases
  <1> QED
    BY <1>1, Invariance, PTL DEF Spec, DecisionsAreFinal

--------------------------------------------------------------------------------
(* Version history *)

UniqueNumbers ==
  \A v, w \in versions : v.pair = w.pair /\ v.version = w.version => v = w

(* A commit's numbers are all above the pair's, and differ from each other.   *)
LEMMA UniqueNumbersStep ==
  ASSUME IInv, UniqueNumbers, [Next]_vars
  PROVE  UniqueNumbers'
  <1> USE DEF IInv, UniqueNumbers
  <1>1. ASSUME NEW c \in Calls, CommitPublish(c)
        PROVE  UniqueNumbers'
    <2> DEFINE p == job[c].pair
               parts == job[c].parts
               Row(q) == [pair |-> p, version |-> base[c] + Position(q, parts),
                          part |-> q, via |-> job[c].request]
    <2>1. base[c] \in Nat /\ parts \in (SUBSET Parts) \ {{}}
      BY <1>1, PublishesSomething DEF CommitPublish, TypeOK
    <2>2. versions' = versions \cup {Row(q) : q \in parts}
      BY <1>1 DEF CommitPublish, Published
    <2>3. \A q \in parts : /\ Row(q).pair = p
                           /\ Row(q).version = base[c] + Position(q, parts)
                           /\ Position(q, parts) \in Nat /\ Position(q, parts) > 0
      BY DEF Position
    <2>4. \A v \in versions : v.pair = p => v.version \in Nat /\ v.version <= base[c]
      BY <1>1, <2>1 DEF CommitPublish, VersionTaken, VersionsOf, TypeOK, Rows
    <2>5. \A q, r \in parts : Position(q, parts) = Position(r, parts) => q = r
      BY <2>1, PositionsFromOne
    <2> HIDE DEF Row
    <2>6. \A v \in versions, q \in parts : v.pair = p => v.version # Row(q).version
      BY <2>1, <2>3, <2>4
    <2>7. \A q, r \in parts : Row(q).version = Row(r).version => q = r
      BY <2>1, <2>3, <2>5
    <2> QED
      BY <2>2, <2>3, <2>6, <2>7
  <1>2. ASSUME ~\E c \in Calls : CommitPublish(c)
        PROVE  versions' = versions
    BY <1>2, NextCases, AbortEffect DEF Admission, ScanPending, SupersedePending,
       CommitProposal, Claim, CommitRejection, WriteParts, UpdateSettings,
       UpdateRole, vars
  <1> QED
    BY <1>1, <1>2

(* Versions are numbered from one, without repetition and without gaps.      *)
THEOREM VersionsGaplessHolds == Spec => []VersionsGapless
  <1>1. Init => UniqueNumbers
    BY DEF Init, UniqueNumbers
  <1>2. IInv /\ UniqueNumbers => VersionsGapless
    <2> SUFFICES ASSUME IInv, UniqueNumbers, NEW v \in versions
                 PROVE  /\ v.version >= 1
                        /\ \A n \in 1..v.version :
                             \E w \in versions : w.pair = v.pair /\ w.version = n
      BY DEF VersionsGapless, UniqueNumbers
    <2>1. v.pair \in Pairs /\ v.version \in NumbersOf(v.pair)
      BY DEF IInv, TypeOK, Rows, NumbersOf, VersionsOf
    <2>2. PICK m \in Nat : NumbersOf(v.pair) = 1..m
      BY <2>1 DEF IInv, NumberedFromOne
    <2>3. \A n \in 1..v.version : n \in NumbersOf(v.pair)
      BY <2>1, <2>2
    <2> QED
      BY <2>1, <2>2, <2>3 DEF NumbersOf, VersionsOf
  <1> QED
    BY <1>1, <1>2, UniqueNumbersStep, Invariance, PTL DEF Spec

--------------------------------------------------------------------------------
(* The gate *)

(* The slot shown for a pair is its one pending request, or none.            *)
LEMMA OpenIs ==
  ASSUME OnePending, NEW p
  PROVE  /\ PendingFor(p) = {} => OpenFor(p) = None
         /\ \A r \in PendingFor(p) : OpenFor(p) = r /\ PendingFor(p) = {r}
  <1>1. \A q, r \in PendingFor(p) : q = r
    BY DEF OnePending, PendingFor
  <1> QED
    BY <1>1 DEF OpenFor, Slot

(* What a step that neither writes a table nor changes a proposal shows.     *)
LEMMA Invisible ==
  ASSUME status' = status, versions' = versions,
         \A r \in Calls : status[r] # "absent" => job'[r] = job[r]
  PROVE  UNCHANGED Gate!gateVars
  <1>1. \A p \in Pairs : PendingFor(p)' = PendingFor(p)
    BY DEF PendingFor
  <1>2. \A p \in Pairs : OpenFor(p)' = OpenFor(p)
    BY <1>1 DEF OpenFor
  <1>3. \A r \in Calls : AuthorOf(r)' = AuthorOf(r) /\ ContentOf(r)' = ContentOf(r)
    BY DEF AuthorOf, ContentOf, Inserted
  <1>4. \A r \in Calls : EffectOf(r)' = EffectOf(r)
    BY DEF EffectOf
  <1> QED
    BY <1>2, <1>3, <1>4 DEF Gate!gateVars

(* Starting, scanning, locking, writing ahead of the commit and giving up    *)
(* are invisible.                                                            *)
LEMMA StutterSteps ==
  ASSUME IInv, NEW c \in Calls,
         \/ Admission(c) \/ GivesUp(c) \/ ScanPending(c) \/ SupersedePending(c)
         \/ Claim(c) \/ WriteParts(c) \/ UpdateSettings(c)
  PROVE  UNCHANGED Gate!gateVars
  <1>1. CASE Admission(c)
    <2>1. \A r \in Calls : status[r] # "absent" => r # c
      BY <1>1 DEF Admission, IInv, RowsMatch
    <2>2. \A r \in Calls \ {c} : job'[r] = job[r]
      BY <1>1 DEF Admission, IInv, TypeOK
    <2> QED
      BY <1>1, <2>1, <2>2, Invisible DEF Admission
  <1>2. CASE GivesUp(c)
    BY <1>2, AbortEffect, Invisible
  <1>3. CASE ScanPending(c) \/ SupersedePending(c) \/ Claim(c) \/ WriteParts(c)
               \/ UpdateSettings(c)
    <2>1. status' = status /\ versions' = versions /\ job' = job
      BY <1>3 DEF ScanPending, SupersedePending, Claim, WriteParts, UpdateSettings, Finish
    <2> QED
      BY <2>1, Invisible
  <1> QED
    BY <1>1, <1>2, <1>3

(* A proposal's commit takes over the slot of its pair.                      *)
LEMMA ProposeStep ==
  ASSUME IInv, OnePending, NEW c \in Calls, CommitProposal(c)
  PROVE  Gate!Next
  <1> USE DEF IInv
  <1> DEFINE p == job[c].pair
             u == job[c].user
             parts == job[c].parts
  <1>1. job[c] \in Job /\ p \in Pairs /\ u \in Users /\ parts \in SUBSET Parts
    BY DEF CommitProposal, InsertReady, TypeOK, Job
  <1>2. status[c] = "absent" /\ job[c].op = "propose" /\ pc[c] = "superseded"
    BY DEF CommitProposal, InsertReady, RowsMatch, LabelsMatch
  <1>3. rows[c] = PendingFor(p)
    <2>1. PendingFor(p) \subseteq rows[c]
      BY DEF CommitProposal, Rivals
    <2>2. rows[c] \subseteq Calls
      BY DEF TypeOK
    <2> QED
      BY <1>2, <2>1, <2>2 DEF PendingFor, HeldRowsPending, RowsOfPair
  <1>4. EffectOf(c) = {}
    BY <1>2 DEF EffectOf, ViasFinished
  <1>5. /\ status' = [r \in Calls |-> IF r = c THEN "pending"
                                      ELSE IF r \in PendingFor(p) THEN "superseded"
                                      ELSE status[r]]
        /\ job' = job /\ versions' = versions
    BY <1>3 DEF CommitProposal, Finish
  <1>6. \A q \in Pairs : PendingFor(q)' = IF q = p THEN {c} ELSE PendingFor(q)
    BY <1>2, <1>5 DEF PendingFor, TypeOK, Statuses
  <1>7. \A q \in Pairs : OpenFor(q)' = IF q = p THEN c ELSE OpenFor(q)
    <2>1. Slot({c}) = c
      BY DEF Slot
    <2> QED
      BY <1>6, <2>1 DEF OpenFor
  <1>8. \A r \in Calls : r \in PendingFor(p) <=> r = OpenFor(p)
    BY OpenIs, NoneIsNobody DEF PendingFor
  <1>9. status' = [r \in Calls |-> IF r = c THEN "pending"
                                   ELSE IF r = OpenFor(p) THEN "superseded"
                                   ELSE status[r]]
    BY <1>5, <1>8
  <1>10. \A r \in Calls : /\ AuthorOf(r)' = IF r = c THEN u ELSE AuthorOf(r)
                          /\ ContentOf(r)' = IF r = c THEN {p} \X parts ELSE ContentOf(r)
    BY <1>1, <1>5 DEF AuthorOf, ContentOf, Inserted, PendingFor
  <1>11. \A r \in Calls : EffectOf(r)' = EffectOf(r)
    BY <1>5 DEF EffectOf
  <1>12. Gate!Propose(p, c)
    BY <1>1, <1>2, <1>4, <1>7, <1>9, <1>10, <1>11 DEF Gate!Propose
  <1> QED
    BY <1>1, <1>12 DEF Gate!Next

(* A decision's commit empties the slot of the request it holds.             *)
LEMMA DecideStep ==
  ASSUME IInv, OnePending, NEW c \in Calls, NEW r, r = job[c].request,
         NEW verdict \in Decided,
         pc[c] = "decided" \/ (pc[c] = "published" /\ job[c].op = "approve"),
         RecordDecision(c, verdict), job' = job
  PROVE  /\ job[c] \in Job /\ r \in Calls /\ job[r] \in Job
         /\ job[c].pair = job[r].pair /\ job[c].parts = job[r].parts
         /\ status[r] = "pending"
         /\ Gate!Decide(job[r].pair, r, job[c].user, verdict)
  <1> USE DEF IInv
  <1> DEFINE p == job[r].pair
             u == job[c].user
  <1>1. job[c] \in Job /\ r \in Calls /\ job[c].op \in {"approve", "reject"}
    BY DEF TypeOK, Job, LabelsMatch
  <1>2. status[r] = "pending" /\ job[c].pair = p /\ job[c].parts = job[r].parts
        /\ job[r].user # u
    BY <1>1 DEF JobsMatch, HeldRowsPending
  <1>3. job[r] \in Job /\ p \in Pairs
    BY <1>1, <1>2 DEF RowsMatch, TypeOK, Job
  <1>4. PendingFor(p) = {r} /\ OpenFor(p) = r
    BY <1>1, <1>2, OpenIs DEF PendingFor
  <1>5. status' = [status EXCEPT ![r] = verdict] /\ verdict # "pending" /\ verdict # "absent"
    BY DEF RecordDecision, Decided
  <1>6. \A q \in Pairs : PendingFor(q)' = IF q = p THEN {} ELSE PendingFor(q)
    BY <1>1, <1>2, <1>4, <1>5 DEF PendingFor, TypeOK
  <1>7. \A q \in Pairs : OpenFor(q)' = IF q = p THEN None ELSE OpenFor(q)
    <2>1. Slot({}) = None
      BY DEF Slot
    <2> QED
      BY <1>6, <2>1 DEF OpenFor
  <1>8. \A q \in Calls : AuthorOf(q)' = AuthorOf(q) /\ ContentOf(q)' = ContentOf(q)
    BY <1>1, <1>2, <1>5 DEF AuthorOf, ContentOf, Inserted, TypeOK
  <1>9. AuthorOf(r) # u
    BY <1>2 DEF AuthorOf, Inserted
  <1>10. Gate!Decide(p, r, u, verdict)
    BY <1>1, <1>3, <1>4, <1>5, <1>7, <1>8, <1>9 DEF Gate!Decide
  <1> QED
    BY <1>1, <1>2, <1>3, <1>10

(* A rejection has no effect.                                                *)
LEMMA RejectStep ==
  ASSUME IInv, OnePending, NEW c \in Calls, CommitRejection(c)
  PROVE  Gate!Next
  <1> DEFINE r == job[c].request
  <1>1. pc[c] = "decided" /\ RecordDecision(c, "rejected") /\ job' = job
        /\ versions' = versions
    BY DEF CommitRejection, Finish
  <1>2. "rejected" \in Decided
    BY DEF Decided
  <1>3. /\ job[c] \in Job /\ r \in Calls /\ job[r] \in Job
        /\ Gate!Decide(job[r].pair, r, job[c].user, "rejected")
    BY <1>1, <1>2, DecideStep
  <1>4. \A q \in Calls : EffectOf(q)' = EffectOf(q)
    BY <1>1 DEF EffectOf
  <1>5. Gate!Reject(job[r].pair, r, job[c].user)
    BY <1>3, <1>4 DEF Gate!Reject
  <1> QED
    BY <1>3, <1>5 DEF Gate!Next, Job

(* What a publication adds to the history.                                   *)
LEMMA PublishEffect ==
  ASSUME IInv, NEW c \in Calls, CommitPublish(c), NEW r, r = job[c].request
  PROVE  /\ r \in Calls
         /\ EffectOf(r)' = EffectOf(r) \cup ({job[c].pair} \X job[c].parts)
         /\ \A q \in Calls \ {r} : EffectOf(q)' = EffectOf(q)
  <1> DEFINE p == job[c].pair
             parts == job[c].parts
             Row(q) == [pair |-> p, version |-> base[c] + Position(q, parts),
                        part |-> q, via |-> r]
  <1>1. job[c] \in Job /\ r \in Calls
    BY DEF CommitPublish, IInv, TypeOK, Job
  <1>2. versions' = versions \cup {Row(q) : q \in parts}
    BY DEF CommitPublish, Published
  <1>3. \A q \in parts : Row(q).pair = p /\ Row(q).part = q /\ Row(q).via = r
    OBVIOUS
  <1> HIDE DEF Row
  <1>4. ASSUME NEW q \in Calls, NEW e
        PROVE  /\ e \in EffectOf(q) <=> \E v \in versions : v.via = q /\ e = <<v.pair, v.part>>
               /\ e \in EffectOf(q)' <=> \E v \in versions' : v.via = q /\ e = <<v.pair, v.part>>
    BY DEF EffectOf
  <1>5. ASSUME NEW q \in Calls \ {r}, NEW e
        PROVE  e \in EffectOf(q)' <=> e \in EffectOf(q)
    BY <1>2, <1>3, <1>4
  <1>6. ASSUME NEW e
        PROVE  e \in EffectOf(r)' <=> e \in EffectOf(r) \/ \E q \in parts : e = <<p, q>>
    BY <1>1, <1>2, <1>3, <1>4
  <1>7. \A e : e \in {p} \X parts <=> \E q \in parts : e = <<p, q>>
    OBVIOUS
  <1>8. EffectOf(r)' = EffectOf(r) \cup ({p} \X parts)
    <2>1. ASSUME NEW e
          PROVE  e \in EffectOf(r)' <=> e \in EffectOf(r) \cup ({p} \X parts)
      BY <1>6, <1>7
    <2> HIDE DEF p, parts
    <2> QED
      BY <2>1, Zenon DEF EffectOf
  <1>9. \A q \in Calls \ {r} : EffectOf(q)' = EffectOf(q)
    BY <1>5, Zenon DEF EffectOf
  <1> QED
    BY <1>1, <1>8, <1>9

(* An approval takes effect with exactly the content of the proposal.        *)
LEMMA ApproveStep ==
  ASSUME IInv, OnePending, AppliedIffApproved,
         NEW c \in Calls, CommitPublish(c), job[c].op = "approve"
  PROVE  Gate!Next
  <1> PICK r : r = job[c].request
    OBVIOUS
  <1> DEFINE p == job[r].pair
  <1>1. pc[c] = "published" /\ RecordDecision(c, "approved") /\ job' = job
    BY DEF CommitPublish, Finish
  <1>2. "approved" \in Decided
    BY DEF Decided
  <1>3. /\ job[c] \in Job /\ r \in Calls /\ job[r] \in Job /\ status[r] = "pending"
        /\ job[c].pair = p /\ job[c].parts = job[r].parts
        /\ Gate!Decide(p, r, job[c].user, "approved")
    BY <1>1, <1>2, DecideStep
  <1>4. EffectOf(r) = {}
    <2>1. job[r].op = "propose"
      BY <1>3 DEF IInv, RowsMatch
    <2> QED
      BY <1>3, <2>1 DEF AppliedIffApproved, EffectOf
  <1>5. ContentOf(r) = {p} \X job[r].parts
    BY <1>3 DEF ContentOf, Inserted
  <1>6. EffectOf(r)' = ContentOf(r) /\ \A q \in Calls \ {r} : EffectOf(q)' = EffectOf(q)
    BY <1>3, <1>4, <1>5, PublishEffect
  <1>7. Gate!Approve(p, r, job[c].user)
    BY <1>3, <1>6 DEF Gate!Approve
  <1> QED
    BY <1>3, <1>7 DEF Gate!Next, Job

(* A direct publish takes effect without a proposal.                         *)
LEMMA DirectStep ==
  ASSUME IInv, NEW c \in Calls, CommitPublish(c), job[c].op # "approve"
  PROVE  Gate!Next
  <1> DEFINE p == job[c].pair
             parts == job[c].parts
  <1>1. pc[c] = "published" /\ job[c] \in Job /\ job[c].op = "publish"
    BY DEF CommitPublish, IInv, TypeOK, LabelsMatch
  <1>2. job[c].request = c /\ p \in Pairs /\ parts \in SUBSET Parts
    BY <1>1 DEF IInv, JobsMatch, Job
  <1>3. status[c] = "absent"
    BY <1>1 DEF IInv, RowsMatch
  <1>4. EffectOf(c) = {}
    BY <1>1 DEF IInv, ViasFinished, EffectOf
  <1>5. EffectOf(c)' = {p} \X parts /\ \A q \in Calls \ {c} : EffectOf(q)' = EffectOf(q)
    BY <1>2, <1>4, PublishEffect
  <1>6. status' = status /\ job' = job
    BY <1>1 DEF CommitPublish, Finish
  <1>7. /\ \A q \in Pairs : OpenFor(q)' = OpenFor(q)
        /\ \A q \in Calls : AuthorOf(q)' = AuthorOf(q) /\ ContentOf(q)' = ContentOf(q)
    <2>1. \A q \in Pairs : PendingFor(q)' = PendingFor(q)
      BY <1>6 DEF PendingFor
    <2> QED
      BY <1>6, <2>1 DEF OpenFor, AuthorOf, ContentOf, Inserted
  <1>8. Gate!PublishDirectly(p, c)
    BY <1>2, <1>3, <1>4, <1>5, <1>6, <1>7 DEF Gate!PublishDirectly
  <1> QED
    BY <1>2, <1>8 DEF Gate!Next

(* The handlers implement the approval gate: every commit is one of its      *)
(* atomic steps and everything before the commit is invisible.               *)
THEOREM GateImplemented == Spec => ImplementsGate
  <1>1. Init => Gate!Init
    <2> SUFFICES ASSUME Init PROVE Gate!Init
      OBVIOUS
    <2>1. \A p \in Pairs : OpenFor(p) = None
      <3>1. \A p \in Pairs : PendingFor(p) = {}
        BY DEF Init, PendingFor
      <3> QED
        BY <3>1 DEF OpenFor, Slot
    <2>2. \A r \in Calls : AuthorOf(r) = None /\ ContentOf(r) = {} /\ EffectOf(r) = {}
      BY DEF Init, AuthorOf, ContentOf, EffectOf, Inserted
    <2> QED
      BY <2>1, <2>2 DEF Init, Gate!Init
  <1>2. IInv /\ OnePending /\ AppliedIffApproved /\ [Next]_vars => [Gate!Next]_Gate!gateVars
    <2> SUFFICES ASSUME IInv, OnePending, AppliedIffApproved, [Next]_vars
                 PROVE  Gate!Next \/ UNCHANGED Gate!gateVars
      OBVIOUS
    <2>1. ASSUME NEW c \in Calls, CommitPublish(c)
          PROVE  Gate!Next
      BY <2>1, ApproveStep, DirectStep
    <2>2. CASE UpdateRole \/ UNCHANGED vars
      BY <2>2, Invisible DEF UpdateRole, vars
    <2> QED
      BY <2>1, <2>2, ProposeStep, RejectStep, StutterSteps, NextCases
  <1> QED
    BY <1>1, <1>2, Invariance, OnePendingHolds, AppliedIffApprovedHolds, PTL
    DEF Spec, ImplementsGate, Gate!GateSpec

--------------------------------------------------------------------------------
(* The pool *)


(* Connections come and go in stuttering steps of ChangeRequests, and a call  *)
(* that times out is one that rolls back.                                    *)
LEMMA PooledStep == PooledNext => [Next]_vars
<1>1. ASSUME NEW c \in Calls, PooledBegin(c) PROVE Next
  BY <1>1 DEF PooledBegin, Next
<1>2. ASSUME NEW c \in Calls, PooledContinue(c) PROVE Next
  BY <1>2 DEF PooledContinue, Next
<1>3. ASSUME NEW c \in Calls, PooledRollback(c) PROVE Next
  BY <1>3 DEF PooledRollback, Next
<1>4. ASSUME NEW c \in Calls, Connect(c) PROVE UNCHANGED vars
  BY <1>4 DEF Connect
<1>5. ASSUME NEW c \in Calls, TimeOut(c) PROVE Next
  <2>1. pc[c] \notin {"idle", "done", "failed"}
    BY <1>5 DEF TimeOut, Lacks, Applying, Before
  <2>2. Rollback(c)
    BY <1>5, <2>1 DEF TimeOut, Rollback
  <2> QED
    BY <2>2 DEF Next
<1>6. ASSUME UpdateRole PROVE Next
  BY <1>6 DEF Next
<1> QED
  BY <1>1, <1>2, <1>3, <1>4, <1>5, <1>6 DEF PooledNext

(* Calls on a pool behave like the calls of ChangeRequests.                  *)
THEOREM PooledImplements == PooledSpec => Spec
<1>1. PooledInit => Init
  BY DEF PooledInit
<1>2. [PooledNext]_pooledVars => [Next]_vars
  BY PooledStep DEF pooledVars
<1> QED
  BY <1>1, <1>2, PTL DEF PooledSpec, Spec

(* On a pool, too, the tables keep the gate's promises.                      *)
THEOREM PooledGate ==
  PooledSpec => [](OnePending /\ FourEyes /\ AppliedIffApproved /\ VersionsGapless)
BY PooledImplements, OnePendingHolds, FourEyesHolds, AppliedIffApprovedHolds,
   VersionsGaplessHolds, PTL
================================================================================
