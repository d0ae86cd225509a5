----------------------------- MODULE Administration -----------------------------
(***************************************************************************)
(* The API's calls that administer a workspace: a project's members, the     *)
(* projects themselves, a segment, the workspace's settings and a user's     *)
(* preferences. A call is authorized, looks up what it names, and writes: in *)
(* one transaction, statement by statement under READ COMMITTED with the row *)
(* locks PostgreSQL takes, or for the workspace in statements that commit by *)
(* themselves. Calls interleave, and the process may die under them.         *)
(*                                                                          *)
(* One project, one segment and one user's preferences are enough: calls     *)
(* about different ones share nothing. What is written is told apart by the   *)
(* call that wrote it; 0 wrote what is there at first.                       *)
(*                                                                          *)
(* A definition whose name ends in _Mutant is the definition after it with   *)
(* one plausible bug; no action uses it.                                     *)
(***************************************************************************)
EXTENDS Naturals, Sequences, SequencesExt

CONSTANTS
  Calls,      (* The calls there may be; bounds a behaviour.                *)
  Users,
  Managers,   (* The owners and admins of the workspace.                    *)
  Areas,      (* Sets of operations; those of a behaviour are of one.       *)
  MaxSuffix   (* MAX_KEY_SUFFIX.                                            *)

ASSUME CallsNumbered == Calls \subseteq Nat \ {0}
ASSUME ManagersAreUsers == Managers \subseteq Users
ASSUME SuffixesBounded == MaxSuffix \in Nat \ {0}

ProjectRoles == {"viewer", "engineer", "admin", "owner"}
PROJECT_ROLE_RANK == [none |-> 0, viewer |-> 1, engineer |-> 2, admin |-> 3, owner |-> 4]

MemberCalls == {"addMember", "setRole", "removeMember"}
SegmentCalls == {"createSegment", "updateSegment", "archiveSegment"}
WorkspaceCalls == {"updateProfile", "updateSecurity"}
PreferenceCalls == {"updatePreferences", "updateNotifications"}
Operations == MemberCalls \cup SegmentCalls \cup WorkspaceCalls \cup PreferenceCalls
                \cup {"createProject", "updateProject"}

ASSUME AreasAreOperations == Areas \subseteq SUBSET Operations

VARIABLES
  area,         (* The operations of this behaviour.                         *)
  role,         (* project_members: each user's role in the project.         *)
  projects,     (* The rows under each suffix of one name: [by, parts].      *)
  projectName,  (* The call that named the project.                          *)
  segment,      (* [exists, archived, conditions], who wrote each condition.  *)
  settings,     (* The workspace's name and its metadata, by who wrote it.   *)
  preferences,  (* The columns of the user's row, by who wrote it.           *)
  latest,       (* The last call to write each setting and preference.       *)
  audit,        (* The calls an audit entry tells of.                        *)
  call          (* The calls, with where each one is.                        *)

tables == <<role, projects, projectName, segment, settings, preferences, latest, audit>>
vars == <<area, tables, call>>

Settings == {"name", "timezone", "security"}
Preferences == {"theme", "notifications"}

ProjectParts == {"key", "owner", "environments", "audit"}
Absent == [by |-> 0, parts |-> {}]
Idle == [op |-> "none", by |-> "none", about |-> "none", to |-> "none", valid |-> TRUE,
         step |-> "idle", written |-> 0, key |-> 1, copy |-> [f \in Settings |-> 0],
         dropped |-> {}]

Init ==
  /\ area \in Areas
  /\ role \in [Users -> {"none", "engineer", "admin"}]
  /\ \E taken \in SUBSET (1..MaxSuffix) :
       projects = [k \in 1..MaxSuffix |->
         IF k \in taken THEN [by |-> 0, parts |-> ProjectParts] ELSE Absent]
  /\ projectName = 0
  /\ segment \in {[exists |-> e, archived |-> FALSE, conditions |-> IF e THEN {0} ELSE {}] :
                    e \in BOOLEAN}
  /\ settings = [f \in Settings |-> 0] /\ preferences = [f \in Preferences |-> 0]
  /\ latest = [f \in Settings \cup Preferences |-> 0]
  /\ audit = {}
  /\ call = [c \in Calls |-> Idle]

--------------------------------------------------------------------------------
(* Authorization *)

Ask(c) ==
  /\ call[c].step = "idle"
  /\ \E op \in area, by \in Users, about \in Users, to \in {"viewer", "admin"},
        valid \in BOOLEAN :
       /\ op \notin MemberCalls => about = by
       /\ op \notin {"addMember", "setRole"} => to = "viewer"
       /\ op \notin {"updateProject", "updateProfile", "updatePreferences"} => valid
       /\ call' = [call EXCEPT ![c] = [Idle EXCEPT
            !.op = op, !.by = by, !.about = about, !.to = to, !.valid = valid,
            !.step = "asked"]]
  /\ UNCHANGED <<area, tables>>

minimumRole(op) ==
  CASE op \in SegmentCalls -> "engineer"
    [] op \in MemberCalls -> "admin"
    [] op = "updateProject" -> "owner"

(* ProjectAccessService.implicitRole, for an owner or an admin alike.         *)
implicitRole(u) == IF u \in Managers THEN "owner" ELSE "none"

highestRole(first, second) ==
  IF PROJECT_ROLE_RANK[first] >= PROJECT_ROLE_RANK[second] THEN first ELSE second

(* Membership is read from the database by every call on a project; the       *)
(* workspace is for its owners and admins; any member creates a project.      *)
Granted(c) ==
  LET u == call[c].by
      op == call[c].op
  IN  CASE op \in WorkspaceCalls -> u \in Managers
        [] op \in PreferenceCalls \cup {"createProject"} -> TRUE
        [] OTHER -> PROJECT_ROLE_RANK[highestRole(implicitRole(u), role[u])]
                      >= PROJECT_ROLE_RANK[minimumRole(op)]

To(c, step) == call' = [call EXCEPT ![c].step = step]

Require(c) ==
  /\ call[c].step = "asked"
  /\ To(c, IF Granted(c) THEN "granted" ELSE "refused")
  /\ UNCHANGED <<area, tables>>

--------------------------------------------------------------------------------
(* Lookups *)

(* What is written before the environment a call names is looked up.          *)
WrittenFirst(op) == IF op = "updateProfile" THEN {"name"} ELSE {}

Found(c) ==
  LET op == call[c].op
      member == role[call[c].about] # "none"
  IN  CASE op = "addMember" -> ~member
        [] op \in {"setRole", "removeMember"} -> member
        [] op = "createSegment" -> ~segment.exists
        [] op \in {"updateSegment", "archiveSegment"} -> segment.exists
        [] OTHER -> call[c].valid

Put(table, fields, c) ==
  [f \in DOMAIN table |-> IF f \in fields THEN c ELSE table[f]]

LookUp(c) ==
  LET first == WrittenFirst(call[c].op)
  IN  /\ call[c].step = "granted"
      /\ call' = [call EXCEPT ![c].step = IF Found(c) THEN "found" ELSE "refused",
                              ![c].copy = settings]
      /\ settings' = Put(settings, first, c)
      /\ preferences' = Put(preferences, first, c)
      /\ latest' = Put(latest, first, c)
      /\ UNCHANGED <<area, role, projects, projectName, segment, audit>>

(* ProjectsService.resolveKey: one statement for each suffix tried, seeing    *)
(* what is committed.                                                        *)
ResolveKey(c) ==
  LET k == call[c].key
  IN  /\ call[c].step = "found" /\ call[c].op = "createProject"
      /\ call' = [call EXCEPT
           ![c].step = IF projects[k] = Absent THEN "open"
                       ELSE IF k = MaxSuffix THEN "refused" ELSE @,
           ![c].key = IF projects[k] # Absent /\ k < MaxSuffix THEN k + 1 ELSE k]
      /\ UNCHANGED <<area, tables>>

Open(c) ==
  /\ call[c].step = "found"
  /\ call[c].op \notin WorkspaceCalls \cup PreferenceCalls \cup {"createProject"}
  /\ To(c, "open")
  /\ UNCHANGED <<area, tables>>

--------------------------------------------------------------------------------
(* Transactions *)

Statements(op) ==
  CASE op \in MemberCalls -> <<"member", "audit">>
    [] op = "createProject" -> <<"key", "owner", "environments", "audit">>
    [] op = "updateProject" -> <<"project", "audit">>
    [] op = "archiveSegment" -> <<"segment", "audit">>
    [] OTHER -> <<"segment", "conditions", "audit">>

Written(c) == SubSeq(Statements(call[c].op), 1, call[c].written)

(* The rows a statement locks until its transaction ends; the rows of "audit"  *)
(* and of the rest are its own.                                              *)
Locks_Mutant(c, statement) ==  \* an update of conditions alone leaves the segment's row
  CASE statement = "member" -> {<<"member", call[c].about>>}
    [] statement = "key" -> {<<"key", call[c].key>>}
    [] statement = "project" -> {<<"project", 1>>}
    [] OTHER -> {}

Locks(c, statement) ==
  CASE statement = "member" -> {<<"member", call[c].about>>}
    [] statement = "key" -> {<<"key", call[c].key>>}
    [] statement \in {"project", "segment"} -> {<<statement, 1>>}
    [] OTHER -> {}

Held(c) ==
  IF call[c].step = "open" THEN UNION {Locks(c, s) : s \in ToSet(Written(c))} ELSE {}

Violates_Mutant(c, statement) ==  \* no unique index on the members of a project
  \/ statement = "key" /\ projects[call[c].key] # Absent
  \/ statement = "segment" /\ call[c].op = "createSegment" /\ segment.exists

(* A unique index refuses the second row of a key, a member or a segment.     *)
Violates(c, statement) ==
  \/ statement = "key" /\ projects[call[c].key] # Absent
  \/ statement = "member" /\ call[c].op = "addMember" /\ role[call[c].about] # "none"
  \/ statement = "segment" /\ call[c].op = "createSegment" /\ segment.exists

Execute(c) ==
  LET statement == Statements(call[c].op)[call[c].written + 1]
  IN  /\ call[c].step = "open"
      /\ call[c].written < Len(Statements(call[c].op))
      /\ \A other \in Calls \ {c} : Locks(c, statement) \cap Held(other) = {}
      /\ call' = IF Violates(c, statement)
                   THEN [call EXCEPT ![c].step = "refused"]
                   ELSE [call EXCEPT ![c].written = @ + 1,
                          ![c].dropped = IF statement = "conditions"
                                           THEN segment.conditions ELSE @]
      /\ UNCHANGED <<area, tables>>

Ready_Mutant(c) ==  \* the starter environments are left to a later transaction
  call[c].written >= 2

Ready(c) == call[c].written = Len(Statements(call[c].op))

Commit(c) ==
  LET w == ToSet(Written(c))
      op == call[c].op
      about == call[c].about
  IN  /\ call[c].step = "open" /\ Ready(c)
      /\ role' = [role EXCEPT ![about] =
           CASE op = "addMember" -> call[c].to
             [] op = "setRole" -> IF @ = "none" THEN @ ELSE call[c].to
             [] op = "removeMember" -> "none"
             [] OTHER -> @]
      /\ projects' = IF op = "createProject"
           THEN [projects EXCEPT ![call[c].key] = [by |-> c, parts |-> w]] ELSE projects
      /\ projectName' = IF op = "updateProject" THEN c ELSE projectName
      /\ segment' = IF op \notin SegmentCalls THEN segment
           ELSE [exists |-> TRUE,
                 archived |-> segment.archived \/ op = "archiveSegment",
                 conditions |-> (segment.conditions \ call[c].dropped)
                                  \cup (IF "conditions" \in w THEN {c} ELSE {})]
      /\ audit' = audit \cup {c}
      /\ To(c, IF op \in {"addMember", "setRole"} THEN "committed" ELSE "done")
      /\ UNCHANGED <<area, settings, preferences, latest>>

(* The member is read again for the answer.                                  *)
Answer(c) ==
  /\ call[c].step = "committed"
  /\ To(c, IF role[call[c].about] = "none" THEN "refused" ELSE "done")
  /\ UNCHANGED <<area, tables>>

--------------------------------------------------------------------------------
(* Settings and preferences *)

SettingsOf(op) == IF op = "updateProfile" THEN {"timezone"} ELSE {"security"}

(* updateMetadata: the whole JSON column, as it was read but for one part.    *)
UpdateMetadata(c) ==
  LET own == SettingsOf(call[c].op)
      metadata == [f \in Settings |-> IF f = "name" THEN settings[f] ELSE call[c].copy[f]]
  IN  /\ call[c].step = "found" /\ call[c].op \in WorkspaceCalls
      /\ settings' = Put(metadata, own, c)
      /\ latest' = Put(latest, own, c)
      /\ To(c, "done")
      /\ UNCHANGED <<area, role, projects, projectName, segment, preferences, audit>>

(* The columns a patch names; the others keep what they hold.                *)
PatchOf(op) == IF op = "updatePreferences" THEN {"theme"} ELSE {"notifications"}

UpsertPreferences(c) ==
  /\ call[c].step = "found" /\ call[c].op \in PreferenceCalls
  /\ preferences' = Put(preferences, PatchOf(call[c].op), c)
  /\ latest' = Put(latest, IF call[c].op = "updatePreferences" THEN {"theme"}
                           ELSE {"notifications"}, c)
  /\ To(c, "done")
  /\ UNCHANGED <<area, role, projects, projectName, segment, settings, audit>>

--------------------------------------------------------------------------------
(* The process dies: transactions are rolled back, nobody is answered.        *)
Crash ==
  /\ call' = [c \in Calls |-> IF call[c].step \in {"idle", "done", "refused"}
                              THEN call[c] ELSE [call[c] EXCEPT !.step = "lost"]]
  /\ call' # call
  /\ UNCHANGED <<area, tables>>

Next ==
  \/ Crash
  \/ \E c \in Calls :
       \/ Ask(c) \/ Require(c) \/ LookUp(c) \/ ResolveKey(c) \/ Open(c) \/ Execute(c)
       \/ Commit(c) \/ Answer(c) \/ UpdateMetadata(c) \/ UpsertPreferences(c)

Spec == Init /\ [][Next]_vars

--------------------------------------------------------------------------------
(* Properties *)

(* "a project with no environment cannot hold a flag": whatever suffixes race  *)
(* and whenever the process dies, a project that is there has its owner, its   *)
(* starter environments and its audit entry.                                 *)
EveryProjectIsWhole ==
  \A k \in 1..MaxSuffix : projects[k] # Absent =>
    projects[k].parts = ProjectParts

(* However updates of a segment overlap, its conditions are of one of them:    *)
(* both sets at once would match nobody either author meant.                 *)
ConditionsOfOneUpdate == \A a, b \in segment.conditions : a = b

(* A project, a member or a segment is created only where nothing stands: what *)
(* two calls have both found free goes to one of them, and the other neither   *)
(* replaces a project nor gives a member another role.                       *)
IsFree(c) ==
  /\ call[c].op = "createProject" => projects[call[c].key] = Absent
  /\ call[c].op = "addMember" => role[call[c].about] = "none"
  /\ call[c].op = "createSegment" => ~segment.exists
CreatesTakeWhatIsFree ==
  [][\A c \in Calls :
       call[c].step = "open" /\ call'[c].step \in {"committed", "done"} => IsFree(c)]_vars

(* Refuted: a setting of the workspace holds what the last call to set it wrote. *)
LatestSettingStands == \A f \in Settings : settings[f] = latest[f]

(* Refuted: an error leaves a workspace's profile as it was.                 *)
RefusedLeavesTheName == \A c \in Calls : call[c].step = "refused" => settings["name"] # c

(* Refuted: with no manager in the workspace, a project keeps somebody who    *)
(* may administer it.                                                        *)
SomebodyAdministers ==
  [][(\E u \in Users : role[u] = "admin") => \E u \in Users : role'[u] = "admin"]_vars
================================================================================
