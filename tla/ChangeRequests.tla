----------------------------- MODULE ChangeRequests -----------------------------
(***************************************************************************)
(* Publishing a flag's environment state, directly or through an approved   *)
(* change request, as the API runs it: every HTTP call is a process that    *)
(* first reads and checks outside any transaction, then writes inside one   *)
(* PostgreSQL transaction at READ COMMITTED.  The modelled tables hold only *)
(* committed rows; what a transaction has written so far is the call's own. *)
(*                                                                          *)
(* A call is named by a member of Calls and runs once.  A proposal's row    *)
(* has the identity of the call that created it, so job[r] holds the        *)
(* columns of row r that are written at insertion and never again.          *)
(* Version numbers count from the row inserted with the configuration: 1    *)
(* here is the first version published after it.  Every version and every   *)
(* decision is written with its audit row, so those are not kept apart.     *)
(*                                                                          *)
(* A definition whose name ends in _Mutant is the definition after it with  *)
(* one plausible bug; no action uses it.                                    *)
(***************************************************************************)
EXTENDS Naturals

CONSTANTS
  Users,            (* People who call the API.                             *)
  Flags,
  Environments,
  Calls,            (* HTTP calls; bounds how many run.                     *)
  Operations,       (* The kinds of call that occur.                        *)
  Payloads,         (* The sets of parts a proposal may carry.              *)
  AssignableRoles,  (* The roles a project membership may be set to.        *)
  None              (* No job, no decider.                                  *)

Parts == {"config", "rules", "targets"}
Pairs == Flags \X Environments
Engineers == {"engineer", "admin", "owner"}
Admins == {"admin", "owner"}
Roles == {"none", "viewer"} \cup Engineers

ASSUME NoneIsNobody == None \notin Users \cup Calls
ASSUME PayloadsPropose == Payloads \subseteq (SUBSET Parts) \ {{}}
ASSUME RolesAssignable == AssignableRoles \subseteq Roles

VARIABLES
  pc,           (* pc[c]: where call c stands.                              *)
  job,          (* job[c]: the arguments of call c, None before it starts.  *)
  rows,         (* rows[c]: change request rows c's statement targets, then *)
                (* holds locked.                                            *)
  base,         (* base[c]: the version number c's transaction read.        *)
  status,       (* flag_change_request.status, "absent" before insertion.   *)
  decidedBy,    (* flag_change_request.decided_by.                          *)
  versions,     (* The rows of flag_versions, each with its audit row.      *)
  isProtected,  (* environment.is_protected.                                *)
  role          (* Effective project role of each user.                     *)

calls == <<pc, job, rows, base>>
vars == <<pc, job, rows, base, status, decidedBy, versions, isProtected, role>>

Job == [op : {"propose", "approve", "reject", "publish", "settings"},
        user : Users, pair : Pairs, parts : SUBSET Parts,
        request : Calls, protect : BOOLEAN]

InTransaction == {"superseded", "decided", "published"}

Init ==
  /\ pc = [c \in Calls |-> "idle"]
  /\ job = [c \in Calls |-> None]
  /\ rows = [c \in Calls |-> {}]
  /\ base = [c \in Calls |-> 0]
  /\ status = [r \in Calls |-> "absent"]
  /\ decidedBy = [r \in Calls |-> None]
  /\ versions = {}
  /\ isProtected \in [Environments -> BOOLEAN]
  /\ role \in [Users -> AssignableRoles]

--------------------------------------------------------------------------------
(* Row locks and bookkeeping *)

LockedByOther(c, r) ==
  \E d \in Calls \ {c} : pc[d] \in InTransaction /\ r \in rows[d]

PendingFor(p) == {r \in Calls : status[r] = "pending" /\ job[r].pair = p}

Start(c, label, op, u, p, parts, r, protect) ==
  /\ op \in Operations
  /\ pc[c] = "idle"
  /\ pc' = [pc EXCEPT ![c] = label]
  /\ job' = [job EXCEPT ![c] =
               [op |-> op, user |-> u, pair |-> p, parts |-> parts,
                request |-> r, protect |-> protect]]
  /\ UNCHANGED <<rows, base, status, decidedBy, versions, isProtected, role>>

Goto(c, label) == pc' = [pc EXCEPT ![c] = label]

(* The call ends: its row locks go with its transaction. *)
Finish(c, label) ==
  /\ Goto(c, label)
  /\ rows' = [rows EXCEPT ![c] = {}]
  /\ UNCHANGED <<job, base>>

Abort(c) ==
  /\ Finish(c, "failed")
  /\ UNCHANGED <<status, decidedBy, versions, isProtected, role>>

--------------------------------------------------------------------------------
(* Proposing: ChangeRequestsService.create *)

(* The engineer gate, the flag and environment lookups and the validation.   *)
Propose(c) ==
  \E u \in Users, p \in Pairs, parts \in Payloads :
    /\ role[u] \in Engineers
    /\ Start(c, "proposing", "propose", u, p, parts, c, FALSE)

(* UPDATE ... WHERE status = 'pending' fixes the rows it will consider.      *)
ScanPending(c) ==
  /\ pc[c] = "proposing"
  /\ Goto(c, "superseding")
  /\ rows' = [rows EXCEPT ![c] = PendingFor(job[c].pair)]
  /\ UNCHANGED <<job, base, status, decidedBy, versions, isProtected, role>>

(* It waits for each row's lock and looks at the row again once it holds it. *)
SupersedePending(c) ==
  /\ pc[c] = "superseding"
  /\ \A r \in rows[c] : ~LockedByOther(c, r)
  /\ Goto(c, "superseded")
  /\ rows' = [rows EXCEPT ![c] = {r \in rows[c] : status[r] = "pending"}]
  /\ UNCHANGED <<job, base, status, decidedBy, versions, isProtected, role>>

Rivals_Mutant(c) == {}  \* no partial unique index

(* Pending rows of the pair that are not this transaction's to supersede: an  *)
(* entry of the partial unique index the insert collides with.               *)
Rivals(c) == PendingFor(job[c].pair) \ rows[c]

InsertReady(c) ==
  /\ pc[c] = "superseded"
  /\ \A r \in Rivals(c) : ~LockedByOther(c, r)

CommitProposal_Mutant(c) ==  \* the earlier proposal is not superseded
  /\ pc[c] = "superseded"
  /\ status' = [status EXCEPT ![c] = "pending"]
  /\ Finish(c, "done")
  /\ UNCHANGED <<decidedBy, versions, isProtected, role>>
CommitProposal(c) ==
  /\ InsertReady(c)
  /\ Rivals(c) = {}
  /\ status' = [r \in Calls |-> IF r = c THEN "pending"
                                ELSE IF r \in rows[c] THEN "superseded"
                                ELSE status[r]]
  /\ Finish(c, "done")
  /\ UNCHANGED <<decidedBy, versions, isProtected, role>>

(* Unique violation on the index: the whole proposal is rolled back.         *)
CollideProposal(c) ==
  /\ InsertReady(c)
  /\ Rivals(c) # {}
  /\ Abort(c)

--------------------------------------------------------------------------------
(* Deciding: ChangeRequestsService.approve and reject *)

RequireDecidable_Mutant(c, op) ==  \* authors may decide their own
  \E u \in Users, r \in Calls :
    /\ role[u] \in Admins
    /\ status[r] = "pending"
    /\ Start(c, "deciding", op, u, job[r].pair, job[r].parts, r, FALSE)

(* requireDecidable: the admin gate, the request pending and not one's own.  *)
RequireDecidable(c, op) ==
  \E u \in Users, r \in Calls :
    /\ role[u] \in Admins
    /\ status[r] = "pending"
    /\ job[r].user # u
    /\ Start(c, "deciding", op, u, job[r].pair, job[r].parts, r, FALSE)

ClaimReady_Mutant(c) ==  \* the UPDATE does not wait for the row
  pc[c] = "deciding"

(* UPDATE ... WHERE id AND status = 'pending'; no row claimed is a conflict. *)
ClaimReady(c) ==
  /\ pc[c] = "deciding"
  /\ ~LockedByOther(c, job[c].request)

Claim_Mutant(c) ==  \* the decision is saved before the change is applied
  /\ ClaimReady(c)
  /\ status[job[c].request] = "pending"
  /\ Goto(c, "decided")
  /\ rows' = [rows EXCEPT ![c] = {job[c].request}]
  /\ status' = [status EXCEPT ![job[c].request] =
                   IF job[c].op = "approve" THEN "approved" ELSE @]
  /\ UNCHANGED <<job, base, decidedBy, versions, isProtected, role>>
Claim(c) ==
  /\ ClaimReady(c)
  /\ status[job[c].request] = "pending"
  /\ Goto(c, "decided")
  /\ rows' = [rows EXCEPT ![c] = {job[c].request}]
  /\ UNCHANGED <<job, base, status, decidedBy, versions, isProtected, role>>

LoseClaim(c) ==
  /\ ClaimReady(c)
  /\ status[job[c].request] # "pending"
  /\ Abort(c)

RecordDecision(c, verdict) ==
  /\ status' = [status EXCEPT ![job[c].request] = verdict]
  /\ decidedBy' = [decidedBy EXCEPT ![job[c].request] = job[c].user]

CommitRejection(c) ==
  /\ pc[c] = "decided" /\ job[c].op = "reject"
  /\ RecordDecision(c, "rejected")
  /\ Finish(c, "done")
  /\ UNCHANGED <<versions, isProtected, role>>

(* applier.apply looks the caller's role up again, at engineer.              *)
RefuseApply(c) ==
  /\ pc[c] = "decided" /\ job[c].op = "approve"
  /\ role[job[c].user] \notin Engineers
  /\ Abort(c)

--------------------------------------------------------------------------------
(* Publishing: the writes shared by a direct publish and an approval *)

(* The engineer gate, the scope with the environment row, assertPublishable. *)
RequirePublishable(c) ==
  \E u \in Users, p \in Pairs, part \in UNION Payloads :
    /\ role[u] \in Engineers
    /\ ~isProtected[p[2]]
    /\ Start(c, "checked", "publish", u, p, {part}, c, FALSE)

VersionsOf(p) == {v \in versions : v.pair = p}
LastVersion(p) ==
  CHOOSE n \in {0} \cup {v.version : v \in VersionsOf(p)} :
    \A v \in VersionsOf(p) : v.version <= n

(* Writing the config part locks the flag_environment_config row.            *)
ConfigLocked(c) ==
  \E d \in Calls \ {c} :
    /\ pc[d] = "published"
    /\ job[d].pair = job[c].pair
    /\ "config" \in job[d].parts

WriteParts(c) ==
  /\ \/ pc[c] = "checked"
     \/ /\ pc[c] = "decided" /\ job[c].op = "approve"
        /\ role[job[c].user] \in Engineers
  /\ "config" \in job[c].parts => ~ConfigLocked(c)
  /\ Goto(c, "published")
  /\ base' = [base EXCEPT ![c] = LastVersion(job[c].pair)]
  /\ UNCHANGED <<job, rows, status, decidedBy, versions, isProtected, role>>

(* Parts are published in the order config, rules, targets.                  *)
Position(part, parts) ==
  1 + (IF part # "config" /\ "config" \in parts THEN 1 ELSE 0)
    + (IF part = "targets" /\ "rules" \in parts THEN 1 ELSE 0)

Published(c) ==
  {[pair |-> job[c].pair, version |-> base[c] + Position(part, job[c].parts),
    part |-> part, via |-> job[c].request] : part \in job[c].parts}

VersionTaken_Mutant(c) == FALSE  \* no unique index on the version

(* The unique index on (flag, environment, version).                         *)
VersionTaken(c) == \E v \in VersionsOf(job[c].pair) : v.version > base[c]

CommitPublish(c) ==
  /\ pc[c] = "published"
  /\ ~VersionTaken(c)
  /\ versions' = versions \cup Published(c)
  /\ IF job[c].op = "approve" THEN RecordDecision(c, "approved")
                              ELSE UNCHANGED <<status, decidedBy>>
  /\ Finish(c, "done")
  /\ UNCHANGED <<isProtected, role>>

CollidePublish(c) ==
  /\ pc[c] = "published"
  /\ VersionTaken(c)
  /\ Abort(c)

--------------------------------------------------------------------------------
(* What else changes the tables these calls read *)

(* A PATCH of the settings that is sent to change the protection.            *)
RequireSettings(c) ==
  \E u \in Users, p \in Pairs, protect \in BOOLEAN :
    /\ role[u] \in Admins
    /\ protect # isProtected[p[2]]
    /\ Start(c, "setting", "settings", u, p, {}, c, protect)

UpdateSettings(c) ==
  /\ pc[c] = "setting"
  /\ isProtected' = [isProtected EXCEPT ![job[c].pair[2]] = job[c].protect]
  /\ Finish(c, "done")
  /\ UNCHANGED <<status, decidedBy, versions, role>>

(* A member's role is set or the membership removed, by some other admin.    *)
UpdateRole ==
  /\ "roles" \in Operations
  /\ \E u \in Users, to \in AssignableRoles : role' = [role EXCEPT ![u] = to]
  /\ UNCHANGED <<pc, job, rows, base, status, decidedBy, versions, isProtected>>

(* The payload stops validating, the pool refuses the second connection, the *)
(* connection or the process dies: PostgreSQL rolls the transaction back.    *)
Rollback(c) ==
  /\ pc[c] \notin {"idle", "done", "failed"}
  /\ Abort(c)

--------------------------------------------------------------------------------
Begin(c) ==
  \/ Propose(c)
  \/ RequireDecidable(c, "approve")
  \/ RequireDecidable(c, "reject")
  \/ RequirePublishable(c)
  \/ RequireSettings(c)

Continue(c) ==
  \/ ScanPending(c) \/ SupersedePending(c)
  \/ CommitProposal(c) \/ CollideProposal(c)
  \/ Claim(c) \/ LoseClaim(c) \/ CommitRejection(c) \/ RefuseApply(c)
  \/ WriteParts(c) \/ CommitPublish(c) \/ CollidePublish(c)
  \/ UpdateSettings(c)

Next ==
  \/ \E c \in Calls : Begin(c) \/ Continue(c) \/ Rollback(c)
  \/ UpdateRole

Spec == Init /\ [][Next]_vars

--------------------------------------------------------------------------------
(* Properties *)

Rows == [pair : Pairs, version : Nat, part : Parts, via : Calls]
Labels == {"idle", "proposing", "superseding", "superseded", "deciding",
           "decided", "checked", "published", "setting", "done", "failed"}
Statuses == {"absent", "pending", "superseded", "approved", "rejected"}
Decided == {"approved", "rejected"}

(* Every variable keeps its type; a call has a job once it has started.      *)
TypeOK ==
  /\ pc \in [Calls -> Labels]
  /\ job \in [Calls -> Job \cup {None}]
  /\ \A c \in Calls : pc[c] # "idle" => job[c] \in Job
  /\ rows \in [Calls -> SUBSET Calls]
  /\ base \in [Calls -> Nat]
  /\ status \in [Calls -> Statuses]
  /\ decidedBy \in [Calls -> Users \cup {None}]
  /\ versions \in SUBSET Rows
  /\ isProtected \in [Environments -> BOOLEAN]
  /\ role \in [Users -> Roles]

(* At most one request is pending per flag and environment, whatever creates *)
(* and decisions run together (the partial unique index and supersedePending).*)
OnePending ==
  \A q, r \in Calls :
    /\ status[q] = "pending" /\ status[r] = "pending"
    /\ job[q].pair = job[r].pair
    => q = r

(* A configuration's versions are numbered 1, 2, 3 ... with none used twice   *)
(* and none skipped, although nextVersion is read before it is inserted.     *)
VersionsGapless ==
  \A v \in versions :
    /\ \A w \in versions : v.pair = w.pair /\ v.version = w.version => v = w
    /\ v.version >= 1
    /\ \A n \in 1..v.version :
         \E w \in versions : w.pair = v.pair /\ w.version = n

(* A proposal's parts are in the version history, each exactly once and for  *)
(* the proposal's own pair, if and only if the proposal is approved: the     *)
(* approval and the change it authorises commit together.                    *)
AppliedIffApproved ==
  /\ \A r \in Calls : status[r] = "approved" =>
       \A part \in job[r].parts : \E v \in versions : v.via = r /\ v.part = part
  /\ \A v \in versions :
       /\ job[v.via].op = "propose" => status[v.via] = "approved"
       /\ v.pair = job[v.via].pair /\ v.part \in job[v.via].parts
       /\ \A w \in versions : v.via = w.via /\ v.part = w.part => v = w

(* Whoever decided a request is not its author, and a request nobody decided *)
(* names no decider (requireDecidable and decide).                           *)
FourEyes ==
  \A r \in Calls :
    IF status[r] \in Decided
      THEN decidedBy[r] \in Users /\ decidedBy[r] # job[r].user
      ELSE decidedBy[r] = None

(* A decision, or a supersession, is never revised by a later or racing call. *)
DecisionsAreFinal ==
  [][\A r \in Calls : status[r] \in Decided \cup {"superseded"} =>
       status'[r] = status[r] /\ decidedBy'[r] = decidedBy[r]]_vars

(* Refuted: "every direct publish into a protected environment is refused by  *)
(* FlagsService.assertPublishable" (docs/change-requests.md): what is published *)
(* into an environment while it is protected came through an approved request. *)
ProtectedNeedsApproval ==
  [][\A v \in versions' \ versions :
       isProtected[v.pair[2]] => job[v.via].op = "propose"]_vars

(* The approval gate as seen in the committed tables.                        *)
Inserted(r) == status[r] # "absent"
Slot(S) == IF S = {} THEN None ELSE CHOOSE r \in S : TRUE
OpenFor(p) == Slot(PendingFor(p))
AuthorOf(r) == IF Inserted(r) THEN job[r].user ELSE None
ContentOf(r) == IF Inserted(r) THEN {job[r].pair} \X job[r].parts ELSE {}
EffectOf(r) == {<<v.pair, v.part>> : v \in {w \in versions : w.via = r}}
Gate == INSTANCE ApprovalGate WITH
  Requests <- Calls,
  NoRequest <- None,
  open <- [p \in Pairs |-> OpenFor(p)],
  outcome <- status,
  author <- [r \in Calls |-> AuthorOf(r)],
  content <- [r \in Calls |-> ContentOf(r)],
  effect <- [r \in Calls |-> EffectOf(r)]

(* The handlers implement the approval gate: every commit is one of its      *)
(* atomic steps and everything before the commit is invisible.               *)
ImplementsGate == Gate!GateSpec
================================================================================
