-------------------------- MODULE Administration_proofs --------------------------
(***************************************************************************)
(* Proofs about Administration for every set of calls, users and managers,   *)
(* every bound on suffixes and every mix of operations.  The inductive       *)
(* invariant says what a transaction may rely on while its row lock is held:  *)
(* no other call has that row, what it creates is still free and the         *)
(* conditions it drops are still the segment's.                              *)
(***************************************************************************)
EXTENDS Administration, TLAPS

Writers == Calls \cup {0}
Steps == {"idle", "asked", "granted", "found", "open", "committed", "done", "refused", "lost"}

TypeOK ==
  /\ area \in SUBSET Operations
  /\ role \in [Users -> ProjectRoles \cup {"none"}]
  /\ projects \in [1..MaxSuffix -> [by : Writers, parts : SUBSET ProjectParts]]
  /\ projectName \in Writers
  /\ segment \in [exists : BOOLEAN, archived : BOOLEAN, conditions : SUBSET Writers]
  /\ settings \in [Settings -> Writers]
  /\ preferences \in [Preferences -> Writers]
  /\ latest \in [Settings \cup Preferences -> Writers]
  /\ audit \in SUBSET Calls
  /\ call \in [Calls -> [op : Operations \cup {"none"}, by : Users \cup {"none"},
       about : Users \cup {"none"}, to : {"none", "viewer", "admin"}, valid : BOOLEAN,
       step : Steps, written : 0..4, key : 1..MaxSuffix, copy : [Settings -> Writers],
       dropped : SUBSET Writers]]

(* A step belongs to the operations that reach it; only a transaction has     *)
(* executed statements, and no more than its operation has.                  *)
StepsMatch ==
  \A c \in Calls :
    /\ call[c].step # "idle" => call[c].op \in Operations /\ call[c].about \in Users
    /\ call[c].step = "open" =>
         /\ call[c].op \notin WorkspaceCalls \cup PreferenceCalls
         /\ call[c].written <= Len(Statements(call[c].op))
    /\ call[c].step \in {"idle", "asked", "granted", "found"} =>
         call[c].written = 0 /\ call[c].dropped = {}
    /\ call[c].step = "committed" => call[c].op \in {"addMember", "setRole"}

(* Two transactions hold no row in common.                                   *)
LocksExclude == \A a, b \in Calls : a # b => Held(a) \cap Held(b) = {}

(* What a transaction has inserted stays free until it commits.               *)
InsertsAreFree ==
  \A c \in Calls : call[c].step = "open" /\ call[c].written > 0 => IsFree(c)

(* What an update will drop is all there is, and an archive drops nothing.     *)
DropsAll ==
  \A c \in Calls : call[c].step = "open" =>
    /\ call[c].op \in {"createSegment", "updateSegment"} /\ call[c].written > 1 =>
         call[c].dropped = segment.conditions
    /\ call[c].op = "archiveSegment" => call[c].dropped = {}

IInv ==
  /\ TypeOK /\ StepsMatch /\ LocksExclude /\ InsertsAreFree /\ DropsAll
  /\ EveryProjectIsWhole /\ ConditionsOfOneUpdate

--------------------------------------------------------------------------------
(* What the transactions execute, statement by statement; all but the first   *)
(* write rows that are nobody else's.                                        *)
LEMMA StatementsAre ==
  /\ \A op \in MemberCalls : Statements(op) = <<"member", "audit">>
  /\ Statements("createProject") = <<"key", "owner", "environments", "audit">>
  /\ Statements("updateProject") = <<"project", "audit">>
  /\ Statements("archiveSegment") = <<"segment", "audit">>
  /\ Statements("createSegment") = <<"segment", "conditions", "audit">>
  /\ Statements("updateSegment") = <<"segment", "conditions", "audit">>
  BY DEF Statements, MemberCalls

(* The operations that are transactions.                                     *)
LEMMA TransactionsAre ==
  \A op \in Operations \ (WorkspaceCalls \cup PreferenceCalls) :
    \/ op \in MemberCalls
    \/ op \in {"createProject", "updateProject", "archiveSegment", "createSegment", "updateSegment"}
  BY DEF Operations, MemberCalls, SegmentCalls, WorkspaceCalls, PreferenceCalls

(* Only the first statement of a transaction locks a row that others want.     *)
LEMMA OneLock ==
  ASSUME NEW c \in Calls, call[c].op \in Operations \ (WorkspaceCalls \cup PreferenceCalls)
  PROVE  /\ Len(Statements(call[c].op)) \in 2..4
         /\ \A i \in 2..Len(Statements(call[c].op)) :
              /\ Locks(c, Statements(call[c].op)[i]) = {}
              /\ Statements(call[c].op)[i] \in ProjectParts \cup {"conditions"}
  BY StatementsAre, TransactionsAre DEF Locks, ProjectParts

(* What a transaction has executed, and the row it holds since the first of it. *)
LEMMA HeldIs ==
  ASSUME TypeOK, StepsMatch, NEW c \in Calls
  PROVE  /\ call[c].step = "open" =>
              ToSet(Written(c)) = {Statements(call[c].op)[i] : i \in 1..call[c].written}
         /\ Held(c) = IF call[c].step = "open" /\ call[c].written > 0
                        THEN Locks(c, Statements(call[c].op)[1]) ELSE {}
  <1>1. CASE call[c].step # "open"
    BY <1>1 DEF Held
  <1>2. CASE call[c].step = "open"
    <2> DEFINE s == Statements(call[c].op)
               n == call[c].written
    <2>a. call[c].op \in Operations \ (WorkspaceCalls \cup PreferenceCalls)
          /\ call[c].written <= Len(Statements(call[c].op))
      BY <1>2 DEF StepsMatch
    <2>b. n \in 0..4
      BY DEF TypeOK
    <2>c. Len(s) \in 2..4 /\ \A i \in 2..Len(s) : Locks(c, s[i]) = {}
      BY <2>a, OneLock
    <2>1. n \in Nat /\ Len(s) \in Nat /\ n <= Len(s)
          /\ \A i \in 2..Len(s) : Locks(c, s[i]) = {}
      BY <2>a, <2>b, <2>c
    <2>2. s \in Seq({"member", "key", "owner", "environments", "audit", "project", "segment",
                     "conditions"})
      <3>1. CASE call[c].op \in MemberCalls
        <4>1. s = <<"member", "audit">>
          BY <3>1, StatementsAre
        <4> QED
          BY <4>1
      <3>2. CASE call[c].op = "updateProject"
        <4>1. s = <<"project", "audit">>
          BY <3>2, StatementsAre
        <4> QED
          BY <4>1
      <3>5. CASE call[c].op = "archiveSegment"
        <4>1. s = <<"segment", "audit">>
          BY <3>5, StatementsAre
        <4> QED
          BY <4>1
      <3>3. CASE call[c].op = "createProject"
        <4>1. s = <<"key", "owner", "environments", "audit">>
          BY <3>3, StatementsAre
        <4> QED
          BY <4>1
      <3>4. CASE call[c].op \in {"createSegment", "updateSegment"}
        <4>1. s = <<"segment", "conditions", "audit">>
          BY <3>4, StatementsAre
        <4> QED
          BY <4>1
      <3> QED
        BY <2>a, <3>1, <3>2, <3>3, <3>4, <3>5, TransactionsAre
    <2>3. Written(c) = SubSeq(s, 1, n)
      BY DEF Written
    <2> HIDE DEF s, n
    <2>4. DOMAIN Written(c) = 1..n /\ \A i \in 1..n : Written(c)[i] = s[i]
      BY <2>1, <2>2, <2>3
    <2>5. ToSet(Written(c)) = {s[i] : i \in 1..n}
      BY <2>4 DEF ToSet
    <2>6. Held(c) = UNION {Locks(c, t) : t \in {s[i] : i \in 1..n}}
      BY <1>2, <2>5 DEF Held
    <2>7. UNION {Locks(c, t) : t \in {s[i] : i \in 1..n}} = IF n > 0 THEN Locks(c, s[1]) ELSE {}
      <3>1. CASE n = 0
        BY <3>1
      <3>2. CASE n > 0
        <4>1. 1 \in 1..n
          BY <2>1, <3>2
        <4>2. \A i \in 1..n : i # 1 => Locks(c, s[i]) = {}
          BY <2>1
        <4>3. \A x : x \in UNION {Locks(c, t) : t \in {s[i] : i \in 1..n}}
                       <=> \E i \in 1..n : x \in Locks(c, s[i])
          OBVIOUS
        <4>4. \A x : (\E i \in 1..n : x \in Locks(c, s[i])) <=> x \in Locks(c, s[1])
          BY <4>1, <4>2
        <4> QED
          BY <3>2, <4>3, <4>4
      <3> QED
        BY <2>1, <3>1, <3>2
    <2> QED
      BY <1>2, <2>5, <2>6, <2>7 DEF s, n
  <1> QED
    BY <1>1, <1>2

(* The initial states satisfy the invariant.                                 *)
LEMMA InitHolds == Init => IInv
  <1> SUFFICES ASSUME Init PROVE IInv
    OBVIOUS
  <1>1. TypeOK
    <2>1. projects \in [1..MaxSuffix -> [by : Writers, parts : SUBSET ProjectParts]]
      <3>1. PICK taken \in SUBSET (1..MaxSuffix) :
              projects = [k \in 1..MaxSuffix |->
                IF k \in taken THEN [by |-> 0, parts |-> ProjectParts] ELSE Absent]
        BY DEF Init
      <3> QED
        BY <3>1 DEF Absent, Writers
    <2>2. segment \in [exists : BOOLEAN, archived : BOOLEAN, conditions : SUBSET Writers]
      <3>1. PICK e \in BOOLEAN : segment = [exists |-> e, archived |-> FALSE,
                                            conditions |-> IF e THEN {0} ELSE {}]
        BY DEF Init
      <3>2. (IF e THEN {0} ELSE {}) \in SUBSET Writers
        BY DEF Writers
      <3> QED
        BY <3>1, <3>2
    <2>3. call \in [Calls -> [op : Operations \cup {"none"}, by : Users \cup {"none"},
            about : Users \cup {"none"}, to : {"none", "viewer", "admin"}, valid : BOOLEAN,
            step : Steps, written : 0..4, key : 1..MaxSuffix, copy : [Settings -> Writers],
            dropped : SUBSET Writers]]
      BY SuffixesBounded DEF Init, Idle, Writers, Steps
    <2>4. area \in SUBSET Operations /\ role \in [Users -> ProjectRoles \cup {"none"}]
          /\ projectName \in Writers /\ audit \in SUBSET Calls
      BY AreasAreOperations DEF Init, ProjectRoles, Writers
    <2>5. /\ settings \in [Settings -> Writers]
          /\ preferences \in [Preferences -> Writers]
          /\ latest \in [Settings \cup Preferences -> Writers]
      BY DEF Init, Writers
    <2> QED
      BY <2>1, <2>2, <2>3, <2>4, <2>5 DEF TypeOK
  <1>2. StepsMatch /\ InsertsAreFree /\ DropsAll
    BY DEF Init, Idle, StepsMatch, InsertsAreFree, DropsAll
  <1>3. LocksExclude
    BY DEF Init, Idle, LocksExclude, Held
  <1>4. EveryProjectIsWhole /\ ConditionsOfOneUpdate
    BY DEF Init, EveryProjectIsWhole, ConditionsOfOneUpdate, ProjectParts
  <1> QED
    BY <1>1, <1>2, <1>3, <1>4 DEF IInv

--------------------------------------------------------------------------------
(* A call whose record is of this set; the others stay as they are.            *)
Record ==
  [op : Operations \cup {"none"}, by : Users \cup {"none"}, about : Users \cup {"none"},
   to : {"none", "viewer", "admin"}, valid : BOOLEAN, step : Steps, written : 0..4,
   key : 1..MaxSuffix, copy : [Settings -> Writers], dropped : SUBSET Writers]

(* A step of one call changes its record alone, into another record.           *)
LEMMA OneCall ==
  ASSUME TypeOK, NEW c \in Calls, NEW r \in Record, call' = [call EXCEPT ![c] = r]
  PROVE  /\ call' \in [Calls -> Record]
         /\ call'[c] = r /\ \A d \in Calls \ {c} : call'[d] = call[d]
  BY DEF TypeOK, Record

(* What the calls put into the tables are names of calls.                     *)
LEMMA PutTyped ==
  ASSUME NEW F, NEW table \in [F -> Writers], NEW fields, NEW c \in Calls
  PROVE  Put(table, fields, c) \in [F -> Writers]
  BY DEF Put, Writers

(* What a transaction that is ready to commit has written.                     *)
LEMMA ReadyIs ==
  ASSUME TypeOK, StepsMatch, NEW c \in Calls, call[c].step = "open", Ready(c)
  PROVE  /\ call[c].written > 1
         /\ call[c].op = "createProject" => ToSet(Written(c)) = ProjectParts
         /\ call[c].op \in {"createSegment", "updateSegment"} => "conditions" \in ToSet(Written(c))
         /\ call[c].op = "archiveSegment" => "conditions" \notin ToSet(Written(c))
  <1> DEFINE s == Statements(call[c].op)
  <1>1. ToSet(Written(c)) = {s[i] : i \in 1..Len(s)}
    BY HeldIs DEF Ready
  <1>2. call[c].op \in Operations \ (WorkspaceCalls \cup PreferenceCalls)
    BY DEF StepsMatch
  <1>3. call[c].written > 1
    <2>1. Len(s) \in 2..4
      BY <1>2, OneLock
    <2> QED
      BY <2>1 DEF Ready
  <1>4. CASE call[c].op = "createProject"
    <2>1. s = <<"key", "owner", "environments", "audit">>
      BY <1>4, StatementsAre
    <2> HIDE DEF s
    <2>2. ToSet(Written(c)) = {s[i] : i \in 1..4}
      BY <1>1, <2>1
    <2>3. 1..4 = {1, 2, 3, 4}
      OBVIOUS
    <2> QED
      BY <1>3, <1>4, <2>1, <2>2, <2>3 DEF ProjectParts
  <1>5. CASE call[c].op \in {"createSegment", "updateSegment"}
    <2>1. s = <<"segment", "conditions", "audit">>
      BY <1>5, StatementsAre
    <2>2. Len(s) = 3 /\ s[2] = "conditions"
      BY <2>1
    <2> HIDE DEF s
    <2>3. "conditions" \in ToSet(Written(c))
      BY <1>1, <2>2
    <2> QED
      BY <1>3, <1>5, <2>3
  <1>6. CASE call[c].op = "archiveSegment"
    <2>1. s = <<"segment", "audit">>
      BY <1>6, StatementsAre
    <2>2. Len(s) = 2 /\ s[1] = "segment" /\ s[2] = "audit"
      BY <2>1
    <2> HIDE DEF s
    <2>3. \A i \in 1..Len(s) : s[i] # "conditions"
      BY <2>2
    <2>4. "conditions" \notin ToSet(Written(c))
      BY <1>1, <2>3
    <2> QED
      BY <1>3, <1>6, <2>4
  <1> QED
    BY <1>3, <1>4, <1>5, <1>6

(* Every step leaves the tables and the calls typed.                          *)
LEMMA TypeKeeps == TypeOK /\ StepsMatch /\ [Next]_vars => TypeOK'
  <1> SUFFICES ASSUME TypeOK, StepsMatch, [Next]_vars PROVE TypeOK'
    OBVIOUS
  <1>0. /\ call \in [Calls -> Record]
        /\ \A c \in Calls : call[c] \in Record
    BY DEF TypeOK, Record
  <1>1. ASSUME NEW c \in Calls, Ask(c) PROVE TypeOK'
    <2>1. area \subseteq Operations
      BY DEF TypeOK
    <2>2. PICK op \in area, by \in Users, about \in Users, to \in {"viewer", "admin"},
               valid \in BOOLEAN :
            /\ op \notin MemberCalls => about = by
            /\ op \notin {"addMember", "setRole"} => to = "viewer"
            /\ op \notin {"updateProject", "updateProfile", "updatePreferences"} => valid
            /\ call' = [call EXCEPT ![c] = [Idle EXCEPT
                 !.op = op, !.by = by, !.about = about, !.to = to, !.valid = valid,
                 !.step = "asked"]]
      BY <1>1, Zenon DEF Ask
    <2>3. Idle \in Record
      BY SuffixesBounded DEF Idle, Record, Steps, Writers
    <2>a. [Idle EXCEPT !.op = op, !.by = by, !.about = about, !.to = to, !.valid = valid,
                       !.step = "asked"] \in Record
      BY <2>1, <2>3 DEF Record, Steps
    <2>4. call' \in [Calls -> Record]
      BY <2>2, <2>a, OneCall
    <2> QED
      BY <1>1, <2>4 DEF Ask, TypeOK, tables, Record
  <1>2. ASSUME NEW c \in Calls, NEW step \in Steps, To(c, step) PROVE call' \in [Calls -> Record]
    <2>1. [call[c] EXCEPT !.step = step] \in Record
      BY <1>0 DEF Record
    <2> QED
      BY <1>0, <1>2, <2>1 DEF To
  <1>3. ASSUME NEW c \in Calls, Require(c) \/ Open(c) \/ Answer(c) PROVE TypeOK'
    <2>1. call' \in [Calls -> Record]
      <3>1. PICK step \in Steps : To(c, step)
        BY <1>3 DEF Require, Open, Answer, Steps
      <3> QED
        BY <1>2, <3>1
    <2> QED
      BY <1>3, <2>1 DEF Require, Open, Answer, TypeOK, tables, Record
  <1>4. ASSUME NEW c \in Calls, LookUp(c) PROVE TypeOK'
    <2> DEFINE step == IF Found(c) THEN "found" ELSE "refused"
    <2>a. step \in Steps /\ settings \in [Settings -> Writers]
      BY DEF Steps, TypeOK
    <2>b. call' = [call EXCEPT ![c] = [call[c] EXCEPT !.step = step, !.copy = settings]]
      BY <1>4 DEF LookUp
    <2> HIDE DEF step
    <2>1. [call[c] EXCEPT !.step = step, !.copy = settings] \in Record
      BY <1>0, <2>a DEF Record
    <2>2. call' \in [Calls -> Record]
      BY <2>b, <2>1, OneCall
    <2>3. /\ settings' \in [Settings -> Writers]
          /\ preferences' \in [Preferences -> Writers]
          /\ latest' \in [Settings \cup Preferences -> Writers]
      BY <1>4, PutTyped DEF LookUp, TypeOK
    <2> QED
      BY <1>4, <2>2, <2>3 DEF LookUp, TypeOK, Record
  <1>5. ASSUME NEW c \in Calls, ResolveKey(c) PROVE TypeOK'
    <2> DEFINE step == IF projects[call[c].key] = Absent THEN "open"
                       ELSE IF call[c].key = MaxSuffix THEN "refused" ELSE call[c].step
               key == IF projects[call[c].key] # Absent /\ call[c].key < MaxSuffix
                        THEN call[c].key + 1 ELSE call[c].key
    <2>1. step \in Steps
      BY <1>0 DEF Steps, Record
    <2>2. key \in 1..MaxSuffix
      <3>1. call[c].key \in 1..MaxSuffix
        BY <1>0 DEF Record
      <3> QED
        BY <3>1, SuffixesBounded
    <2>3. call' = [call EXCEPT ![c] = [call[c] EXCEPT !.step = step, !.key = key]]
      BY <1>5 DEF ResolveKey
    <2> HIDE DEF step, key
    <2>4. [call[c] EXCEPT !.step = step, !.key = key] \in Record
      BY <1>0, <2>1, <2>2 DEF Record
    <2>5. call' \in [Calls -> Record]
      BY <2>3, <2>4, OneCall
    <2> QED
      BY <1>5, <2>5 DEF ResolveKey, TypeOK, tables, Record
  <1>6. ASSUME NEW c \in Calls, Execute(c) PROVE TypeOK'
    <2> DEFINE statement == Statements(call[c].op)[call[c].written + 1]
               dropped == IF statement = "conditions" THEN segment.conditions ELSE call[c].dropped
               r == [call[c] EXCEPT !.written = call[c].written + 1, !.dropped = dropped]
               q == [call[c] EXCEPT !.step = "refused"]
    <2>1. dropped \in SUBSET Writers
      BY <1>0 DEF TypeOK, Record
    <2>2. call[c].written + 1 \in 0..4
      <3>1. call[c].op \in Operations \ (WorkspaceCalls \cup PreferenceCalls)
        BY <1>6 DEF Execute, StepsMatch
      <3>2. Len(Statements(call[c].op)) \in 2..4 /\ call[c].written \in 0..4
            /\ call[c].written < Len(Statements(call[c].op))
        BY <1>0, <1>6, <3>1, OneLock DEF Execute, Record
      <3>3. \A n, l : n \in 0..4 /\ l \in 2..4 /\ n < l => n + 1 \in 0..4
        OBVIOUS
      <3> QED
        BY <3>2, <3>3
    <2>3. call' = [call EXCEPT ![c] = r] \/ call' = [call EXCEPT ![c] = q]
      BY <1>6 DEF Execute
    <2> HIDE DEF dropped
    <2>4. r \in Record /\ q \in Record
      BY <1>0, <2>1, <2>2 DEF Record, Steps
    <2> HIDE DEF r, q
    <2>5. call' \in [Calls -> Record]
      BY <2>3, <2>4, OneCall
    <2> QED
      BY <1>6, <2>5 DEF Execute, TypeOK, tables, Record
  <1>7. ASSUME NEW c \in Calls, Commit(c) PROVE TypeOK'
    <2> DEFINE op == call[c].op
               about == call[c].about
               w == ToSet(Written(c))
               roles == CASE op = "addMember" -> call[c].to
                          [] op = "setRole" -> IF role[about] = "none" THEN role[about] ELSE call[c].to
                          [] op = "removeMember" -> "none"
                          [] OTHER -> role[about]
    <2>1. call' \in [Calls -> Record]
      <3>1. PICK step \in Steps : To(c, step)
        BY <1>7 DEF Commit, Steps
      <3> QED
        BY <1>2, <3>1
    <2>2. about \in Users /\ op \in Operations
      BY <1>7 DEF Commit, StepsMatch
    <2>3. role' \in [Users -> ProjectRoles \cup {"none"}]
      BY <1>7, <1>0, <2>2 DEF Commit, TypeOK, ProjectRoles, Record
    <2>4. projects' \in [1..MaxSuffix -> [by : Writers, parts : SUBSET ProjectParts]]
      <3>1. CASE op = "createProject"
        <4>1. projects' = [projects EXCEPT ![call[c].key] = [by |-> c, parts |-> ProjectParts]]
          BY <1>7, <3>1, ReadyIs DEF Commit
        <4>2. [by |-> c, parts |-> ProjectParts] \in [by : Writers, parts : SUBSET ProjectParts]
          BY DEF Writers
        <4> QED
          BY <4>1, <4>2 DEF TypeOK
      <3>2. CASE op # "createProject"
        BY <1>7, <3>2 DEF Commit, TypeOK
      <3> QED
        BY <3>1, <3>2
    <2>5. projectName' \in Writers /\ audit' \in SUBSET Calls
      BY <1>7 DEF Commit, TypeOK, Writers
    <2>6. segment' \in [exists : BOOLEAN, archived : BOOLEAN, conditions : SUBSET Writers]
      <3> DEFINE archived == segment.archived \/ op = "archiveSegment"
                 conditions == (segment.conditions \ call[c].dropped)
                                 \cup (IF "conditions" \in w THEN {c} ELSE {})
      <3>1. archived \in BOOLEAN /\ conditions \in SUBSET Writers
        BY DEF TypeOK, Writers
      <3>2. segment' = segment
            \/ segment' = [exists |-> TRUE, archived |-> archived, conditions |-> conditions]
        BY <1>7 DEF Commit
      <3> HIDE DEF archived, conditions
      <3>3. [exists |-> TRUE, archived |-> archived, conditions |-> conditions]
              \in [exists : BOOLEAN, archived : BOOLEAN, conditions : SUBSET Writers]
        BY <3>1
      <3> QED
        BY <3>2, <3>3 DEF TypeOK
    <2> QED
      BY <1>7, <2>1, <2>3, <2>4, <2>5, <2>6 DEF Commit, TypeOK, Record
  <1>8. ASSUME NEW c \in Calls, UpdateMetadata(c) PROVE TypeOK'
    <2> DEFINE metadata == [f \in Settings |-> IF f = "name" THEN settings[f] ELSE call[c].copy[f]]
    <2>1. metadata \in [Settings -> Writers]
      BY <1>0 DEF TypeOK, Record
    <2>2. /\ settings' = Put(metadata, SettingsOf(call[c].op), c)
          /\ latest' = Put(latest, SettingsOf(call[c].op), c)
      BY <1>8 DEF UpdateMetadata
    <2> HIDE DEF metadata
    <2>3. settings' \in [Settings -> Writers] /\ latest' \in [Settings \cup Preferences -> Writers]
      BY <2>1, <2>2, PutTyped DEF TypeOK
    <2>4. call' \in [Calls -> Record]
      BY <1>2, <1>8 DEF UpdateMetadata, Steps
    <2> QED
      BY <1>8, <2>3, <2>4 DEF UpdateMetadata, TypeOK, Record
  <1>9. ASSUME NEW c \in Calls, UpsertPreferences(c) PROVE TypeOK'
    <2>1. /\ preferences' \in [Preferences -> Writers]
          /\ latest' \in [Settings \cup Preferences -> Writers]
      BY <1>9, PutTyped DEF UpsertPreferences, TypeOK
    <2>2. call' \in [Calls -> Record]
      BY <1>2, <1>9 DEF UpsertPreferences, Steps
    <2> QED
      BY <1>9, <2>1, <2>2 DEF UpsertPreferences, TypeOK, Record
  <1>10. ASSUME Crash PROVE TypeOK'
    <2>1. \A c \in Calls : [call[c] EXCEPT !.step = "lost"] \in Record
      BY <1>0 DEF Record, Steps
    <2>2. call' \in [Calls -> Record]
      BY <1>0, <1>10, <2>1 DEF Crash
    <2> QED
      BY <1>10, <2>2 DEF Crash, TypeOK, tables, Record
  <1>11. ASSUME UNCHANGED vars PROVE TypeOK'
    BY <1>11 DEF vars, tables, TypeOK
  <1> QED
    BY <1>1, <1>3, <1>4, <1>5, <1>6, <1>7, <1>8, <1>9, <1>10, <1>11 DEF Next

--------------------------------------------------------------------------------
(* The row a call holds: that of its first statement, once it is executed.     *)
Lock(c) ==
  IF call[c].step # "open" \/ call[c].written = 0 THEN {}
  ELSE IF call[c].op \in MemberCalls THEN {<<"member", call[c].about>>}
  ELSE IF call[c].op = "createProject" THEN {<<"key", call[c].key>>}
  ELSE IF call[c].op = "updateProject" THEN {<<"project", 1>>}
  ELSE {<<"segment", 1>>}

LocksAre == \A c \in Calls : Held(c) = Lock(c)

(* The row that the first statement of a transaction locks.                    *)
LEMMA FirstLock ==
  ASSUME NEW c \in Calls, call[c].op \in Operations \ (WorkspaceCalls \cup PreferenceCalls)
  PROVE  Locks(c, Statements(call[c].op)[1]) =
           IF call[c].op \in MemberCalls THEN {<<"member", call[c].about>>}
           ELSE IF call[c].op = "createProject" THEN {<<"key", call[c].key>>}
           ELSE IF call[c].op = "updateProject" THEN {<<"project", 1>>}
           ELSE {<<"segment", 1>>}
  <1> DEFINE op == call[c].op
             first == Statements(op)[1]
  <1>1. CASE op \in MemberCalls
    <2>1. first = "member"
      BY <1>1, StatementsAre
    <2> QED
      BY <1>1, <2>1 DEF Locks
  <1>2. CASE op = "createProject"
    <2>1. first = "key"
      BY <1>2, StatementsAre
    <2> QED
      BY <1>2, <2>1 DEF Locks, MemberCalls
  <1>3. CASE op = "updateProject"
    <2>1. first = "project"
      BY <1>3, StatementsAre
    <2> QED
      BY <1>3, <2>1 DEF Locks, MemberCalls
  <1>4. CASE op \in {"archiveSegment", "createSegment", "updateSegment"}
    <2>1. first = "segment"
      BY <1>4, StatementsAre
    <2> QED
      BY <1>4, <2>1 DEF Locks, MemberCalls
  <1> QED
    BY <1>1, <1>2, <1>3, <1>4, TransactionsAre

(* What Held says, as a case split over the operations.                        *)
LEMMA LockIsHeld == TypeOK /\ StepsMatch => LocksAre
  <1> SUFFICES ASSUME TypeOK, StepsMatch, NEW c \in Calls PROVE Held(c) = Lock(c)
    BY DEF LocksAre
  <1> DEFINE op == call[c].op
             first == Statements(op)[1]
  <1>1. call[c].written \in Nat
    BY DEF TypeOK
  <1>2. CASE call[c].step # "open" \/ call[c].written = 0
    BY <1>1, <1>2, HeldIs DEF Lock
  <1>3. CASE call[c].step = "open" /\ call[c].written > 0
    <2>1. Held(c) = Locks(c, first)
      BY <1>3, HeldIs
    <2>2. op \in Operations \ (WorkspaceCalls \cup PreferenceCalls)
      BY <1>3 DEF StepsMatch
    <2> QED
      BY <1>1, <1>3, <2>1, <2>2, FirstLock DEF Lock
  <1> QED
    BY <1>1, <1>2, <1>3

(* The same of the next state.                                               *)
LEMMA LockIsHeldNext == TypeOK' /\ StepsMatch' => LocksAre'
  BY LockIsHeld, PTL

(* The steps of one call other than its first.                                *)
Continue(c) ==
  \/ Require(c) \/ LookUp(c) \/ ResolveKey(c) \/ Open(c) \/ Execute(c)
  \/ Commit(c) \/ Answer(c) \/ UpdateMetadata(c) \/ UpsertPreferences(c)

(* What a step of a call changes in the call's record, and that other calls     *)
(* keep theirs.                                                              *)
LEMMA ContinueEffect ==
  ASSUME TypeOK, NEW c \in Calls, Continue(c)
  PROVE  /\ \A d \in Calls \ {c} : call'[d] = call[d]
         /\ call'[c].op = call[c].op /\ call'[c].about = call[c].about
         /\ Execute(c) \/ (call'[c].written = call[c].written /\ call'[c].dropped = call[c].dropped)
         /\ ResolveKey(c) \/ call'[c].key = call[c].key
         /\ LookUp(c) \/ call'[c].copy = call[c].copy
  <1>0. call \in [Calls -> Record] /\ call[c] \in Record
    BY DEF TypeOK, Record
  <1>1. ASSUME NEW step, To(c, step)
        PROVE  /\ \A d \in Calls \ {c} : call'[d] = call[d]
               /\ call'[c].op = call[c].op /\ call'[c].about = call[c].about
               /\ call'[c].written = call[c].written /\ call'[c].dropped = call[c].dropped
               /\ call'[c].key = call[c].key /\ call'[c].copy = call[c].copy
    BY <1>0, <1>1 DEF To, Record
  <1>2. CASE Require(c) \/ Open(c) \/ Commit(c) \/ Answer(c) \/ UpdateMetadata(c)
               \/ UpsertPreferences(c)
    BY <1>1, <1>2 DEF Require, Open, Commit, Answer, UpdateMetadata, UpsertPreferences
  <1>3. CASE LookUp(c)
    BY <1>0, <1>3 DEF LookUp, Record
  <1>4. CASE ResolveKey(c)
    BY <1>0, <1>4 DEF ResolveKey, Record
  <1>5. CASE Execute(c)
    BY <1>0, <1>5 DEF Execute, Record
  <1> QED
    BY <1>2, <1>3, <1>4, <1>5 DEF Continue

(* Where a step takes a call from, and where to.                               *)
LEMMA ContinueSteps ==
  ASSUME TypeOK, NEW c \in Calls
  PROVE  /\ Require(c) => call[c].step = "asked" /\ call'[c].step \in {"granted", "refused"}
         /\ LookUp(c) => /\ call[c].step = "granted" /\ call'[c].step \in {"found", "refused"}
                         /\ call'[c].copy = settings
         /\ ResolveKey(c) => /\ call[c].step = "found" /\ call[c].op = "createProject"
                             /\ call'[c].step \in {"found", "open", "refused"}
         /\ Open(c) => /\ call[c].step = "found" /\ call'[c].step = "open"
                       /\ call[c].op \notin WorkspaceCalls \cup PreferenceCalls \cup {"createProject"}
         /\ Execute(c) => call[c].step = "open"
         /\ Commit(c) => /\ call[c].step = "open"
                         /\ call'[c].step = IF call[c].op \in {"addMember", "setRole"}
                                            THEN "committed" ELSE "done"
         /\ Answer(c) => call[c].step = "committed" /\ call'[c].step \in {"refused", "done"}
         /\ UpdateMetadata(c) => call[c].step = "found" /\ call'[c].step = "done"
         /\ UpsertPreferences(c) => call[c].step = "found" /\ call'[c].step = "done"
  <1>0. call \in [Calls -> Record] /\ call[c] \in Record
    BY DEF TypeOK, Record
  <1>1. ASSUME NEW step, To(c, step) PROVE call'[c].step = step
    BY <1>0, <1>1 DEF To, Record
  <1>2. ASSUME Require(c) \/ Open(c) \/ Answer(c)
        PROVE  /\ Require(c) => call[c].step = "asked" /\ call'[c].step \in {"granted", "refused"}
               /\ Open(c) => /\ call[c].step = "found" /\ call'[c].step = "open"
                             /\ call[c].op \notin WorkspaceCalls \cup PreferenceCalls \cup {"createProject"}
               /\ Answer(c) => call[c].step = "committed" /\ call'[c].step \in {"refused", "done"}
    BY <1>1 DEF Require, Open, Answer
  <1>3. Commit(c) => /\ call[c].step = "open"
                     /\ call'[c].step = IF call[c].op \in {"addMember", "setRole"}
                                        THEN "committed" ELSE "done"
    BY <1>1 DEF Commit
  <1>4. (UpdateMetadata(c) \/ UpsertPreferences(c)) => call[c].step = "found" /\ call'[c].step = "done"
    BY <1>1 DEF UpdateMetadata, UpsertPreferences
  <1>5. LookUp(c) => /\ call[c].step = "granted" /\ call'[c].step \in {"found", "refused"}
                     /\ call'[c].copy = settings
    BY <1>0 DEF LookUp, Record
  <1>6. ResolveKey(c) => /\ call[c].step = "found" /\ call[c].op = "createProject"
                         /\ call'[c].step \in {"found", "open", "refused"}
    BY <1>0 DEF ResolveKey, Record
  <1>7. Execute(c) => call[c].step = "open"
    BY DEF Execute
  <1> QED
    BY <1>2, <1>3, <1>4, <1>5, <1>6, <1>7

(* A statement that is executed counts, locks its row if nobody else has it,   *)
(* and is refused where the row is there already.                            *)
LEMMA ExecuteEffect ==
  ASSUME TypeOK, StepsMatch, NEW c \in Calls, Execute(c)
  PROVE  LET statement == Statements(call[c].op)[call[c].written + 1]
         IN  /\ call[c].written < Len(Statements(call[c].op))
             /\ \A d \in Calls \ {c} : Locks(c, statement) \cap Held(d) = {}
             /\ \/ call'[c].step = "refused" /\ call'[c].written = call[c].written
                   /\ call'[c].dropped = call[c].dropped
                \/ /\ ~Violates(c, statement) /\ call'[c].step = "open"
                   /\ call'[c].written = call[c].written + 1
                   /\ call'[c].dropped = IF statement = "conditions" THEN segment.conditions
                                         ELSE call[c].dropped
  <1>0. call \in [Calls -> Record] /\ call[c] \in Record
    BY DEF TypeOK, Record
  <1> DEFINE statement == Statements(call[c].op)[call[c].written + 1]
  <1>1. /\ call[c].written < Len(Statements(call[c].op)) /\ call[c].step = "open"
        /\ \A d \in Calls \ {c} : Locks(c, statement) \cap Held(d) = {}
    BY DEF Execute
  <1>2. CASE Violates(c, statement)
    <2>1. call' = [call EXCEPT ![c].step = "refused"]
      BY <1>2 DEF Execute
    <2> QED
      BY <1>0, <1>1, <2>1 DEF Record
  <1>3. CASE ~Violates(c, statement)
    <2> DEFINE r == [call[c] EXCEPT !.written = call[c].written + 1,
                       !.dropped = IF statement = "conditions" THEN segment.conditions
                                   ELSE call[c].dropped]
    <2>1. call' = [call EXCEPT ![c] = r]
      BY <1>3 DEF Execute
    <2>2. /\ r.step = call[c].step /\ r.written = call[c].written + 1
          /\ r.dropped = IF statement = "conditions" THEN segment.conditions ELSE call[c].dropped
      BY <1>0 DEF Record
    <2> HIDE DEF r, statement
    <2>3. call'[c] = r
      BY <1>0, <2>1
    <2> QED
      BY <1>1, <1>3, <2>2, <2>3 DEF statement
  <1> QED
    BY <1>2, <1>3

(* A call that is asked has done nothing yet.                                 *)
LEMMA AskEffect ==
  ASSUME TypeOK, NEW c \in Calls, Ask(c)
  PROVE  /\ \A d \in Calls \ {c} : call'[d] = call[d]
         /\ call[c].step = "idle" /\ call'[c].step = "asked"
         /\ call'[c].op \in Operations /\ call'[c].about \in Users
         /\ call'[c].written = 0 /\ call'[c].dropped = {}
         /\ call'[c].copy = [f \in Settings |-> 0]
         /\ UNCHANGED tables
  <1>1. PICK op \in area, by \in Users, about \in Users, to \in {"viewer", "admin"},
             valid \in BOOLEAN :
          /\ op \notin MemberCalls => about = by
          /\ op \notin {"addMember", "setRole"} => to = "viewer"
          /\ op \notin {"updateProject", "updateProfile", "updatePreferences"} => valid
          /\ call' = [call EXCEPT ![c] = [Idle EXCEPT
               !.op = op, !.by = by, !.about = about, !.to = to, !.valid = valid,
               !.step = "asked"]]
    BY Zenon DEF Ask
  <1> DEFINE r == [Idle EXCEPT !.op = op, !.by = by, !.about = about, !.to = to,
                     !.valid = valid, !.step = "asked"]
  <1>2. Idle \in Record /\ Idle.written = 0 /\ Idle.dropped = {}
        /\ Idle.copy = [f \in Settings |-> 0]
    BY SuffixesBounded DEF Idle, Record, Steps, Writers
  <1>3. /\ r.op = op /\ r.about = about /\ r.step = "asked"
        /\ r.written = Idle.written /\ r.dropped = Idle.dropped /\ r.copy = Idle.copy
    BY <1>2 DEF Record
  <1>4. call' = [call EXCEPT ![c] = r]
    BY <1>1
  <1> HIDE DEF r
  <1>5. call'[c] = r /\ \A d \in Calls \ {c} : call'[d] = call[d]
    BY <1>4 DEF TypeOK
  <1>6. op \in Operations /\ UNCHANGED tables /\ call[c].step = "idle"
    BY DEF TypeOK, Ask
  <1> QED
    BY <1>2, <1>3, <1>5, <1>6

(* A crash ends what is under way and leaves the tables.                       *)
LEMMA CrashEffect ==
  ASSUME TypeOK, Crash
  PROVE  /\ UNCHANGED tables
         /\ \A c \in Calls :
              /\ call'[c].op = call[c].op /\ call'[c].about = call[c].about
              /\ call'[c].copy = call[c].copy
              /\ \/ call[c].step \in {"idle", "done", "refused"} /\ call'[c] = call[c]
                 \/ /\ call[c].step \notin {"idle", "done", "refused"}
                    /\ call'[c].step = "lost"
  BY DEF TypeOK, Crash

(* Next, without its quantifiers.                                            *)
LEMMA NextCases ==
  [Next]_vars => Crash \/ (\E c \in Calls : Ask(c) \/ Continue(c)) \/ UNCHANGED vars
  BY DEF Next, Continue

(* Every step keeps to the steps of its operation.                            *)
LEMMA StepsKeep == TypeOK /\ StepsMatch /\ [Next]_vars => StepsMatch'
  <1> SUFFICES ASSUME TypeOK, StepsMatch, [Next]_vars PROVE StepsMatch'
    OBVIOUS
  <1> DEFINE Matches(r) ==
        /\ r.step # "idle" => r.op \in Operations /\ r.about \in Users
        /\ r.step = "open" =>
             /\ r.op \notin WorkspaceCalls \cup PreferenceCalls
             /\ r.written <= Len(Statements(r.op))
        /\ r.step \in {"idle", "asked", "granted", "found"} => r.written = 0 /\ r.dropped = {}
        /\ r.step = "committed" => r.op \in {"addMember", "setRole"}
  <1>1. \A c \in Calls : Matches(call[c])
    BY DEF StepsMatch
  <1>2. ASSUME NEW c \in Calls, Ask(c) PROVE \A d \in Calls : Matches(call'[d])
    BY <1>1, <1>2, AskEffect
  <1>3. ASSUME NEW c \in Calls, Execute(c) PROVE \A d \in Calls : Matches(call'[d])
    <2>1. call[c].step = "open" /\ Matches(call[c])
      BY <1>1, <1>3 DEF Execute
    <2>2. call[c].op \in Operations \ (WorkspaceCalls \cup PreferenceCalls)
          /\ call'[c].op = call[c].op /\ call'[c].about = call[c].about
          /\ \A d \in Calls \ {c} : call'[d] = call[d]
      BY <1>3, <2>1, ContinueEffect DEF Continue
    <2>3. Len(Statements(call[c].op)) \in Nat /\ call[c].written \in Nat
      <3>1. call[c].written \in 0..4
        BY DEF TypeOK
      <3>2. Len(Statements(call[c].op)) \in 2..4
        BY <2>2, OneLock
      <3> QED
        BY <3>1, <3>2
    <2>4. /\ call[c].written < Len(Statements(call[c].op))
          /\ \/ call'[c].step = "refused"
             \/ call'[c].step = "open" /\ call'[c].written = call[c].written + 1
      BY <1>3, ExecuteEffect
    <2>5. call'[c].step = "open" => call'[c].written <= Len(Statements(call[c].op))
      BY <2>3, <2>4
    <2>6. Matches(call'[c])
      BY <2>1, <2>2, <2>4, <2>5
    <2> HIDE DEF Matches
    <2> QED
      BY <1>1, <2>2, <2>6
  <1>4. ASSUME NEW c \in Calls, Continue(c), ~Execute(c) PROVE \A d \in Calls : Matches(call'[d])
    <2>1. /\ \A d \in Calls \ {c} : call'[d] = call[d]
          /\ call'[c].op = call[c].op /\ call'[c].about = call[c].about
          /\ call'[c].written = call[c].written /\ call'[c].dropped = call[c].dropped
      BY <1>4, ContinueEffect
    <2>2. Matches(call[c])
      BY <1>1
    <2>3. ASSUME Require(c) \/ LookUp(c) PROVE Matches(call'[c])
      BY <2>1, <2>2, <2>3, ContinueSteps
    <2>4. ASSUME ResolveKey(c) \/ Open(c) PROVE Matches(call'[c])
      <3>1. call[c].op \notin WorkspaceCalls \cup PreferenceCalls /\ call[c].step = "found"
            /\ call'[c].step \in {"found", "open", "refused"}
        BY <2>4, ContinueSteps DEF WorkspaceCalls, PreferenceCalls
      <3>2. 0 <= Len(Statements(call[c].op))
        <4>1. call[c].op \in Operations
          BY <2>2, <3>1
        <4>2. Len(Statements(call[c].op)) \in 2..4
          BY <3>1, <4>1, OneLock
        <4> QED
          BY <4>2
      <3> QED
        BY <2>1, <2>2, <3>1, <3>2
    <2>5. ASSUME Commit(c) PROVE Matches(call'[c])
      BY <2>1, <2>2, <2>5, ContinueSteps
    <2>6. ASSUME Answer(c) \/ UpdateMetadata(c) \/ UpsertPreferences(c)
          PROVE  Matches(call'[c])
      BY <2>1, <2>2, <2>6, ContinueSteps
    <2>7. Matches(call'[c])
      BY <1>4, <2>3, <2>4, <2>5, <2>6 DEF Continue
    <2> HIDE DEF Matches
    <2> QED
      BY <1>1, <2>1, <2>7
  <1>5. ASSUME Crash PROVE \A d \in Calls : Matches(call'[d])
    BY <1>1, <1>5, CrashEffect
  <1>6. ASSUME UNCHANGED vars PROVE \A d \in Calls : Matches(call'[d])
    BY <1>1, <1>6 DEF vars
  <1>7. \A d \in Calls : Matches(call'[d])
    <2> HIDE DEF Matches
    <2> QED
      BY <1>2, <1>3, <1>4, <1>5, <1>6, NextCases
  <1> QED
    BY <1>7 DEF StepsMatch

(* A step leaves the locks of other calls alone.                              *)
LEMMA LockStays ==
  ASSUME NEW d \in Calls, call'[d] = call[d]
  PROVE  Lock(d)' = Lock(d)
  BY DEF Lock

(* A call gains a lock where it executes a statement that nobody else's lock   *)
(* forbids, and nowhere else.                                                *)
LEMMA LockGained ==
  ASSUME TypeOK, StepsMatch, TypeOK', StepsMatch', NEW c \in Calls, Continue(c)
  PROVE  \/ Lock(c)' \subseteq Lock(c)
         \/ Execute(c) /\ \A d \in Calls \ {c} : Lock(c)' \cap Lock(d) = {}
  <1>1. LocksAre /\ LocksAre'
    BY LockIsHeld, LockIsHeldNext
  <1>2. CASE Execute(c)
    <2> DEFINE statement == Statements(call[c].op)[call[c].written + 1]
    <2>1. /\ \A d \in Calls \ {c} : Locks(c, statement) \cap Held(d) = {}
          /\ call[c].step = "open" /\ call'[c].op = call[c].op /\ call'[c].about = call[c].about
          /\ call'[c].key = call[c].key
          /\ \/ call'[c].step = "refused"
             \/ call'[c].step = "open" /\ call'[c].written = call[c].written + 1
      BY <1>2, ExecuteEffect, ContinueEffect, ContinueSteps DEF ResolveKey
    <2>2. call[c].written \in Nat
      <3>1. call[c].written \in 0..4
        BY DEF TypeOK
      <3> QED
        BY <3>1
    <2>3. CASE call'[c].step = "refused"
      BY <2>3 DEF Lock
    <2>4. CASE call'[c].step = "open" /\ call[c].written > 0
      BY <2>1, <2>2, <2>4 DEF Lock
    <2>5. CASE call'[c].step = "open" /\ call[c].written = 0
      <3>1. Lock(c)' = Locks(c, statement)
        <4>1. call'[c].written = 1 /\ statement = Statements(call[c].op)[1]
          BY <2>1, <2>5
        <4>2. call[c].op \in Operations \ (WorkspaceCalls \cup PreferenceCalls)
          BY <2>1 DEF StepsMatch
        <4>3. Lock(c)' = IF call[c].op \in MemberCalls THEN {<<"member", call[c].about>>}
                         ELSE IF call[c].op = "createProject" THEN {<<"key", call[c].key>>}
                         ELSE IF call[c].op = "updateProject" THEN {<<"project", 1>>}
                         ELSE {<<"segment", 1>>}
          BY <2>1, <2>5, <4>1 DEF Lock
        <4> QED
          BY <4>1, <4>2, <4>3, FirstLock
      <3> QED
        BY <1>1, <1>2, <2>1, <3>1 DEF LocksAre
    <2> QED
      BY <2>1, <2>2, <2>3, <2>4, <2>5
  <1>3. CASE ~Execute(c)
    <2>1. /\ call'[c].op = call[c].op /\ call'[c].about = call[c].about
          /\ call'[c].written = call[c].written
      BY <1>3, ContinueEffect
    <2>2. CASE call[c].step # "open"
      <3>1. call'[c].step = "open" => call[c].written = 0
        BY <1>3, <2>2, ContinueSteps DEF StepsMatch, Continue
      <3> QED
        BY <2>1, <3>1 DEF Lock
    <2>3. CASE call[c].step = "open"
      <3>1. call'[c].step # "open"
        BY <1>3, <2>3, ContinueSteps DEF Continue
      <3> QED
        BY <3>1 DEF Lock
    <2> QED
      BY <2>2, <2>3
  <1> QED
    BY <1>2, <1>3

(* Locks exclude each other after every step.                                 *)
LEMMA LocksKeep ==
  TypeOK /\ StepsMatch /\ TypeOK' /\ StepsMatch' /\ LocksExclude /\ [Next]_vars => LocksExclude'
  <1> SUFFICES ASSUME TypeOK, StepsMatch, TypeOK', StepsMatch', LocksExclude, [Next]_vars
               PROVE  LocksExclude'
    OBVIOUS
  <1>1. LocksAre /\ LocksAre'
    BY LockIsHeld, LockIsHeldNext
  <1>2. \A a, b \in Calls : a # b => Lock(a) \cap Lock(b) = {}
    BY <1>1 DEF LocksAre, LocksExclude
  <1>3. ASSUME NEW c \in Calls, Continue(c)
        PROVE  \A a, b \in Calls : a # b => Lock(a)' \cap Lock(b)' = {}
    <2>1. \A d \in Calls \ {c} : Lock(d)' = Lock(d)
      BY <1>3, ContinueEffect, LockStays
    <2>2. \A d \in Calls \ {c} : Lock(c)' \cap Lock(d) = {}
      BY <1>2, <1>3, LockGained
    <2> QED
      BY <1>2, <2>1, <2>2
  <1>4. ASSUME NEW c \in Calls, Ask(c)
        PROVE  \A a, b \in Calls : a # b => Lock(a)' \cap Lock(b)' = {}
    <2>1. \A d \in Calls \ {c} : Lock(d)' = Lock(d)
      BY <1>4, AskEffect, LockStays
    <2>2. Lock(c)' = {}
      BY <1>4, AskEffect DEF Lock
    <2> QED
      BY <1>2, <2>1, <2>2
  <1>5. ASSUME Crash PROVE \A a, b \in Calls : a # b => Lock(a)' \cap Lock(b)' = {}
    <2>1. \A d \in Calls : Lock(d)' = {}
      BY <1>5, CrashEffect DEF Lock
    <2> QED
      BY <2>1
  <1>6. ASSUME UNCHANGED vars PROVE \A a, b \in Calls : a # b => Lock(a)' \cap Lock(b)' = {}
    <2>1. \A d \in Calls : Lock(d)' = Lock(d)
      BY <1>6 DEF vars, Lock
    <2> QED
      BY <1>2, <2>1
  <1>7. \A a, b \in Calls : a # b => Lock(a)' \cap Lock(b)' = {}
    BY <1>3, <1>4, <1>5, <1>6, NextCases
  <1> QED
    BY <1>1, <1>7 DEF LocksAre, LocksExclude

(* Only a commit writes members, projects or the segment, while it has the row. *)
LEMMA CommitAlone ==
  ASSUME TypeOK, StepsMatch, LocksExclude, NEW c \in Calls, Commit(c)
  PROVE  /\ \A d \in Calls \ {c} : d \in Calls => Lock(c) \cap Lock(d) = {}
         /\ call[c].written > 1 /\ call[c].step = "open"
         /\ call[c].op \in Operations \ (WorkspaceCalls \cup PreferenceCalls)
         /\ call[c].op = "createProject" => Lock(c) = {<<"key", call[c].key>>}
         /\ call[c].op \in MemberCalls => Lock(c) = {<<"member", call[c].about>>}
         /\ call[c].op \in SegmentCalls => Lock(c) = {<<"segment", 1>>}
  <1>1. call[c].step = "open" /\ Ready(c)
    BY DEF Commit
  <1>2. call[c].written \in Nat
    <2>1. call[c].written \in 0..4
      BY DEF TypeOK
    <2> QED
      BY <2>1
  <1>3. call[c].written > 1 /\ call[c].written # 0
    BY <1>1, <1>2, ReadyIs
  <1>4. call[c].op \in Operations \ (WorkspaceCalls \cup PreferenceCalls)
    BY <1>1 DEF StepsMatch
  <1>5. \A d \in Calls \ {c} : Lock(c) \cap Lock(d) = {}
    BY LockIsHeld DEF LocksAre, LocksExclude
  <1>6. /\ call[c].op = "createProject" => Lock(c) = {<<"key", call[c].key>>}
        /\ call[c].op \in MemberCalls => Lock(c) = {<<"member", call[c].about>>}
        /\ call[c].op \in SegmentCalls => Lock(c) = {<<"segment", 1>>}
    BY <1>1, <1>3 DEF Lock, SegmentCalls, MemberCalls
  <1> QED
    BY <1>1, <1>3, <1>4, <1>5, <1>6

(* The tables that only a commit writes.                                      *)
LEMMA OnlyCommits ==
  ASSUME TypeOK, NEW c \in Calls, Continue(c), ~Commit(c)
  PROVE  UNCHANGED <<role, projects, projectName, segment>>
  BY DEF Continue, Require, LookUp, ResolveKey, Open, Execute, Answer, UpdateMetadata,
         UpsertPreferences, tables

(* What a transaction creates, once inserted, stays free: nobody else can       *)
(* commit a row it holds.                                                    *)
LEMMA InsertsKeep ==
  TypeOK /\ StepsMatch /\ LocksExclude /\ InsertsAreFree /\ [Next]_vars => InsertsAreFree'
  <1> SUFFICES ASSUME TypeOK, StepsMatch, LocksExclude, InsertsAreFree, [Next]_vars,
                      NEW d \in Calls, call'[d].step = "open", call'[d].written > 0
               PROVE  IsFree(d)'
    BY DEF InsertsAreFree
  <1> DEFINE Free == IsFree(d)'
  <1>1. ASSUME UNCHANGED <<role, projects, segment>>, call'[d] = call[d] PROVE Free
    BY <1>1 DEF InsertsAreFree, IsFree
  <1>2. ASSUME NEW c \in Calls, Continue(c), ~Commit(c) PROVE Free
    <2>1. UNCHANGED <<role, projects, segment>>
      BY <1>2, OnlyCommits
    <2>2. CASE d # c
      BY <1>1, <1>2, <2>1, <2>2, ContinueEffect
    <2>3. CASE d = c /\ Execute(c)
      <3> DEFINE statement == Statements(call[c].op)[call[c].written + 1]
      <3>1. call[c].written \in Nat
        <4>1. call[c].written \in 0..4
          BY DEF TypeOK
        <4> QED
          BY <4>1
      <3>2. /\ call'[c].op = call[c].op /\ call'[c].key = call[c].key
            /\ call'[c].about = call[c].about /\ call[c].step = "open"
            /\ ~Violates(c, statement)
        BY <2>3, <1>2, ContinueEffect, ContinueSteps, ExecuteEffect
      <3>3. IsFree(c)
        <4>1. CASE call[c].written = 0
          <5>1. /\ call[c].op = "createProject" => statement = "key"
                /\ call[c].op = "addMember" => statement = "member"
                /\ call[c].op = "createSegment" => statement = "segment"
            BY <4>1, StatementsAre DEF MemberCalls
          <5> QED
            BY <3>2, <5>1 DEF Violates, IsFree
        <4>2. CASE call[c].written > 0
          BY <3>2, <4>2 DEF InsertsAreFree
        <4> QED
          BY <3>1, <4>1, <4>2
      <3> QED
        BY <2>1, <2>3, <3>2, <3>3 DEF IsFree
    <2>4. CASE d = c /\ ~Execute(c)
      <3>1. call[c].written > 0 /\ call[c].step # "open"
        BY <1>2, <2>4, ContinueEffect, ContinueSteps DEF Continue
      <3>2. call[c].written = 0
        BY <1>2, <2>4, <3>1, ContinueSteps DEF Continue, StepsMatch
      <3> QED
        BY <3>1, <3>2
    <2> QED
      BY <2>2, <2>3, <2>4
  <1>3. ASSUME NEW c \in Calls, Commit(c) PROVE Free
    <2>1. d # c /\ call'[d] = call[d]
      BY <1>3, ContinueEffect, ContinueSteps DEF Continue
    <2>2. IsFree(d) /\ call[d].step = "open" /\ call[d].written > 0 /\ call[d].written # 0
      BY <2>1 DEF InsertsAreFree
    <2>3. Lock(c) \cap Lock(d) = {}
      BY <1>3, <2>1, CommitAlone
    <2>4. call[d].op = "createProject" => projects'[call[d].key] = Absent
      <3>1. CASE call[c].op = "createProject" /\ call[d].op = "createProject"
        <4>1. Lock(d) = {<<"key", call[d].key>>} /\ Lock(c) = {<<"key", call[c].key>>}
          BY <1>3, <2>2, <3>1, CommitAlone DEF Lock, MemberCalls
        <4>2. call[c].key # call[d].key
          BY <2>3, <4>1
        <4>3. projects' = [projects EXCEPT ![call[c].key] = [by |-> c, parts |-> ToSet(Written(c))]]
          BY <1>3, <3>1 DEF Commit
        <4> QED
          BY <2>2, <3>1, <4>2, <4>3 DEF IsFree, TypeOK
      <3>2. CASE call[c].op # "createProject"
        BY <1>3, <2>2, <3>2 DEF Commit, IsFree
      <3> QED
        BY <3>1, <3>2
    <2>5. call[d].op = "addMember" => role'[call[d].about] = "none"
      <3>1. CASE call[c].op \in MemberCalls /\ call[d].op = "addMember"
        <4>1. Lock(d) = {<<"member", call[d].about>>} /\ Lock(c) = {<<"member", call[c].about>>}
          BY <1>3, <2>2, <3>1, CommitAlone DEF Lock, MemberCalls
        <4>2. call[c].about # call[d].about
          BY <2>3, <4>1
        <4>3. \A u \in Users : u # call[c].about => role'[u] = role[u]
          BY <1>3 DEF Commit, TypeOK
        <4>4. call[d].about \in Users
          BY <2>2 DEF StepsMatch
        <4> QED
          BY <2>2, <3>1, <4>2, <4>3, <4>4 DEF IsFree
      <3>2. CASE call[c].op \notin MemberCalls
        <4>1. \A u \in Users : role'[u] = role[u]
          BY <1>3, <3>2 DEF Commit, TypeOK, MemberCalls
        <4>2. call[d].about \in Users
          BY <2>2 DEF StepsMatch
        <4> QED
          BY <2>2, <4>1, <4>2 DEF IsFree
      <3> QED
        BY <3>1, <3>2
    <2>6. call[d].op = "createSegment" => ~segment'.exists
      <3>1. CASE call[c].op \in SegmentCalls /\ call[d].op = "createSegment"
        <4>1. Lock(d) = {<<"segment", 1>>} /\ Lock(c) = {<<"segment", 1>>}
          BY <1>3, <2>2, <3>1, CommitAlone DEF Lock, MemberCalls
        <4> QED
          BY <2>3, <4>1
      <3>2. CASE call[c].op \notin SegmentCalls
        BY <1>3, <2>2, <3>2 DEF Commit, IsFree
      <3> QED
        BY <3>1, <3>2
    <2> QED
      BY <2>1, <2>4, <2>5, <2>6 DEF IsFree
  <1>4. ASSUME NEW c \in Calls, Ask(c) PROVE Free
    BY <1>1, <1>4, AskEffect DEF tables
  <1>5. ASSUME Crash PROVE Free
    BY <1>1, <1>5, CrashEffect DEF tables
  <1>6. ASSUME UNCHANGED vars PROVE Free
    BY <1>1, <1>6 DEF vars, tables
  <1> HIDE DEF Free
  <1>7. Free
    BY <1>2, <1>3, <1>4, <1>5, <1>6, NextCases DEF Continue
  <1> QED
    BY <1>7 DEF Free

(* A segment update's view of the conditions stays the truth until it commits.  *)
LEMMA DropsKeep ==
  TypeOK /\ StepsMatch /\ LocksExclude /\ DropsAll /\ [Next]_vars => DropsAll'
  <1> SUFFICES ASSUME TypeOK, StepsMatch, LocksExclude, DropsAll, [Next]_vars,
                      NEW d \in Calls, call'[d].step = "open"
               PROVE  /\ call'[d].op \in {"createSegment", "updateSegment"} /\ call'[d].written > 1 =>
                           call'[d].dropped = segment'.conditions
                      /\ call'[d].op = "archiveSegment" => call'[d].dropped = {}
    BY DEF DropsAll
  <1> DEFINE Goal == /\ call'[d].op \in {"createSegment", "updateSegment"} /\ call'[d].written > 1 =>
                           call'[d].dropped = segment'.conditions
                     /\ call'[d].op = "archiveSegment" => call'[d].dropped = {}
  <1>1. ASSUME UNCHANGED segment, call'[d] = call[d] PROVE Goal
    BY <1>1 DEF DropsAll
  <1>2. ASSUME NEW c \in Calls, Continue(c), ~Commit(c) PROVE Goal
    <2>1. UNCHANGED segment
      BY <1>2, OnlyCommits
    <2>2. CASE d # c
      BY <1>1, <1>2, <2>1, <2>2, ContinueEffect
    <2>3. CASE d = c /\ Execute(c)
      <3> DEFINE statement == Statements(call[c].op)[call[c].written + 1]
      <3>1. call[c].written \in Nat
        <4>1. call[c].written \in 0..4
          BY DEF TypeOK
        <4> QED
          BY <4>1
      <3>2. /\ call'[c].op = call[c].op /\ call[c].step = "open"
            /\ call[c].written < Len(Statements(call[c].op))
            /\ call'[c].written = call[c].written + 1
            /\ call'[c].dropped = IF statement = "conditions" THEN segment.conditions
                                  ELSE call[c].dropped
        BY <2>3, <1>2, ContinueEffect, ContinueSteps, ExecuteEffect
      <3>3. CASE call[c].op = "archiveSegment"
        <4>1. statement # "conditions"
          <5>1. Statements(call[c].op) = <<"segment", "audit">>
            BY <3>3, StatementsAre
          <5>2. call[c].written \in {0, 1}
            BY <3>1, <3>2, <5>1
          <5> QED
            BY <5>1, <5>2
        <4> QED
          BY <2>3, <3>2, <3>3, <4>1 DEF DropsAll
      <3>4. CASE call[c].op \in {"createSegment", "updateSegment"}
        <4>1. Statements(call[c].op) = <<"segment", "conditions", "audit">>
          BY <3>4, StatementsAre
        <4>2. CASE call[c].written = 0
          BY <2>3, <3>2, <3>4, <4>2
        <4>3. CASE call[c].written = 1
          <5>1. statement = "conditions"
            BY <4>1, <4>3
          <5> QED
            BY <2>1, <2>3, <3>2, <3>4, <5>1
        <4>4. CASE call[c].written > 1
          <5>1. call[c].written = 2
            BY <3>1, <3>2, <4>1, <4>4
          <5>2. statement = "audit"
            BY <4>1, <5>1
          <5> QED
            BY <2>1, <2>3, <3>2, <3>4, <4>4, <5>2 DEF DropsAll
        <4> QED
          BY <3>1, <4>2, <4>3, <4>4
      <3> QED
        BY <2>3, <3>2, <3>3, <3>4
    <2>4. CASE d = c /\ ~Execute(c)
      <3>1. call[c].step # "open" /\ call'[c].written = call[c].written
            /\ call'[c].dropped = call[c].dropped
        BY <1>2, <2>4, ContinueEffect, ContinueSteps DEF Continue
      <3>2. call[c].written = 0 /\ call[c].dropped = {}
        BY <1>2, <2>4, <3>1, ContinueSteps DEF Continue, StepsMatch
      <3> QED
        BY <2>4, <3>1, <3>2
    <2> QED
      BY <2>2, <2>3, <2>4
  <1>3. ASSUME NEW c \in Calls, Commit(c) PROVE Goal
    <2>1. d # c /\ call'[d] = call[d]
      BY <1>3, ContinueEffect, ContinueSteps DEF Continue
    <2>2. CASE call[c].op \in SegmentCalls
      <3>1. ASSUME call[d].op \in {"createSegment", "updateSegment"}, call[d].written > 1
            PROVE  FALSE
        <4>1. Lock(d) = {<<"segment", 1>>}
          BY <2>1, <3>1 DEF Lock, MemberCalls
        <4> QED
          BY <1>3, <2>1, <2>2, <4>1, CommitAlone
      <3> QED
        BY <2>1, <3>1 DEF DropsAll
    <2>3. CASE call[c].op \notin SegmentCalls
      BY <1>1, <1>3, <2>1, <2>3 DEF Commit
    <2> QED
      BY <2>2, <2>3
  <1>4. ASSUME NEW c \in Calls, Ask(c) PROVE Goal
    BY <1>1, <1>4, AskEffect DEF tables
  <1>5. ASSUME Crash PROVE Goal
    BY <1>1, <1>5, CrashEffect DEF tables
  <1>6. ASSUME UNCHANGED vars PROVE Goal
    BY <1>1, <1>6 DEF vars, tables
  <1> HIDE DEF Goal
  <1>7. Goal
    BY <1>2, <1>3, <1>4, <1>5, <1>6, NextCases DEF Continue
  <1> QED
    BY <1>7 DEF Goal

(* A step that leaves projects and the segment alone, or is a commit.           *)
LEMMA OthersLeave ==
  TypeOK /\ [Next]_vars =>
    (\E c \in Calls : Commit(c)) \/ UNCHANGED <<projects, projectName, segment>>
  <1> SUFFICES ASSUME TypeOK, [Next]_vars, \A c \in Calls : ~Commit(c)
               PROVE  UNCHANGED <<projects, projectName, segment>>
    OBVIOUS
  <1>1. ASSUME NEW c \in Calls, Continue(c) PROVE UNCHANGED <<projects, projectName, segment>>
    BY <1>1, OnlyCommits
  <1>2. ASSUME NEW c \in Calls, Ask(c) PROVE UNCHANGED <<projects, projectName, segment>>
    BY <1>2, AskEffect DEF tables
  <1>3. ASSUME Crash PROVE UNCHANGED <<projects, projectName, segment>>
    BY <1>3, CrashEffect DEF tables
  <1>4. ASSUME UNCHANGED vars PROVE UNCHANGED <<projects, projectName, segment>>
    BY <1>4 DEF vars, tables
  <1> QED
    BY <1>1, <1>2, <1>3, <1>4, NextCases

(* A commit makes its project whole, under a key that was free.                *)
LEMMA ProjectsKeep ==
  IInv /\ [Next]_vars => /\ EveryProjectIsWhole'
                         /\ \A k \in 1..MaxSuffix : projects[k] # Absent => projects'[k] = projects[k]
  <1> SUFFICES ASSUME IInv, [Next]_vars, NEW k \in 1..MaxSuffix
               PROVE  /\ projects'[k] # Absent => projects'[k].parts = ProjectParts
                      /\ projects[k] # Absent => projects'[k] = projects[k]
    BY DEF EveryProjectIsWhole
  <1>0. /\ TypeOK /\ StepsMatch /\ LocksExclude /\ InsertsAreFree
        /\ projects[k] # Absent => projects[k].parts = ProjectParts
    BY DEF IInv, EveryProjectIsWhole
  <1>1. CASE UNCHANGED projects
    BY <1>0, <1>1
  <1>2. ASSUME NEW c \in Calls, Commit(c), call[c].op = "createProject"
        PROVE  /\ projects'[k] # Absent => projects'[k].parts = ProjectParts
               /\ projects[k] # Absent => projects'[k] = projects[k]
    <2>1. /\ call[c].step = "open" /\ Ready(c)
          /\ projects' = [projects EXCEPT ![call[c].key] = [by |-> c, parts |-> ToSet(Written(c))]]
      BY <1>2 DEF Commit
    <2>2. ToSet(Written(c)) = ProjectParts /\ call[c].written > 1
      BY <1>0, <1>2, <2>1, ReadyIs
    <2>3. call[c].written > 0
      <3>1. call[c].written \in 0..4
        BY <1>0 DEF TypeOK
      <3> QED
        BY <2>2, <3>1
    <2>4. projects[call[c].key] = Absent
      BY <1>0, <1>2, <2>1, <2>3 DEF InsertsAreFree, IsFree
    <2>5. CASE k = call[c].key
      BY <1>0, <2>1, <2>2, <2>4, <2>5 DEF TypeOK
    <2>6. CASE k # call[c].key
      BY <1>0, <2>1, <2>6 DEF TypeOK
    <2> QED
      BY <2>5, <2>6
  <1>3. ASSUME NEW c \in Calls, Commit(c), call[c].op # "createProject" PROVE UNCHANGED projects
    BY <1>3 DEF Commit
  <1> QED
    BY <1>0, <1>1, <1>2, <1>3, OthersLeave

(* A commit of a segment leaves the conditions of one update.                  *)
LEMMA ConditionsKeep == IInv /\ [Next]_vars => ConditionsOfOneUpdate'
  <1> SUFFICES ASSUME IInv, [Next]_vars PROVE \A a, b \in segment'.conditions : a = b
    BY DEF ConditionsOfOneUpdate
  <1>0. TypeOK /\ StepsMatch /\ DropsAll /\ \A a, b \in segment.conditions : a = b
    BY DEF IInv, ConditionsOfOneUpdate
  <1>1. CASE UNCHANGED segment
    BY <1>0, <1>1
  <1> DEFINE One == \A a, b \in segment'.conditions : a = b
  <1>2. ASSUME NEW c \in Calls, Commit(c), call[c].op \in SegmentCalls PROVE One
    <2> DEFINE w == ToSet(Written(c))
    <2>1. /\ call[c].step = "open" /\ Ready(c)
          /\ segment'.conditions = (segment.conditions \ call[c].dropped)
                                     \cup (IF "conditions" \in w THEN {c} ELSE {})
      BY <1>2 DEF Commit
    <2>2. /\ call[c].written > 1
          /\ call[c].op \in {"createSegment", "updateSegment"} => "conditions" \in w
          /\ call[c].op = "archiveSegment" => "conditions" \notin w
      BY <1>0, <2>1, ReadyIs
    <2> HIDE DEF w
    <2>3. ASSUME call[c].op = "archiveSegment" PROVE One
      <3>1. segment'.conditions \subseteq segment.conditions
        BY <2>1, <2>2, <2>3
      <3> QED
        BY <1>0, <3>1
    <2>4. ASSUME call[c].op \in {"createSegment", "updateSegment"} PROVE One
      <3>1. call[c].dropped = segment.conditions
        BY <1>0, <2>1, <2>2, <2>4 DEF DropsAll
      <3>2. segment'.conditions \subseteq {c}
        BY <2>1, <3>1
      <3> QED
        BY <3>2
    <2> QED
      BY <1>2, <2>3, <2>4 DEF SegmentCalls
  <1>3. ASSUME NEW c \in Calls, Commit(c), call[c].op \notin SegmentCalls PROVE UNCHANGED segment
    BY <1>3 DEF Commit
  <1> QED
    BY <1>0, <1>1, <1>2, <1>3, OthersLeave

(* The invariant holds in every state.                                       *)
LEMMA Invariance == Spec => []IInv
  <1>1. IInv /\ [Next]_vars => IInv'
    <2> SUFFICES ASSUME IInv, [Next]_vars PROVE IInv'
      OBVIOUS
    <2>1. TypeOK /\ StepsMatch /\ LocksExclude /\ InsertsAreFree /\ DropsAll
      BY DEF IInv
    <2>2. TypeOK' /\ StepsMatch'
      BY <2>1, TypeKeeps, StepsKeep
    <2>3. LocksExclude' /\ InsertsAreFree' /\ DropsAll'
      BY <2>1, <2>2, LocksKeep, InsertsKeep, DropsKeep
    <2>4. EveryProjectIsWhole' /\ ConditionsOfOneUpdate'
      BY ProjectsKeep, ConditionsKeep
    <2> QED
      BY <2>2, <2>3, <2>4 DEF IInv
  <1> QED
    BY <1>1, InitHolds, PTL DEF Spec

--------------------------------------------------------------------------------
(* The tables and the calls are typed in every state.                         *)
THEOREM TypeCorrect == Spec => []TypeOK
  <1>1. IInv => TypeOK
    BY DEF IInv
  <1> QED
    BY <1>1, Invariance, PTL

(* A project that is there is whole, whatever suffixes race and whenever the    *)
(* process dies (ProjectsService.create), and no other takes its key.          *)
THEOREM ProjectsAreWhole ==
  Spec => /\ []EveryProjectIsWhole
          /\ [][\A k \in 1..MaxSuffix : projects[k] # Absent => projects'[k] = projects[k]]_vars
  <1>1. IInv => EveryProjectIsWhole
    BY DEF IInv
  <1>2. IInv /\ [Next]_vars =>
          [\A k \in 1..MaxSuffix : projects[k] # Absent => projects'[k] = projects[k]]_vars
    BY ProjectsKeep
  <1> QED
    BY <1>1, <1>2, Invariance, PTL DEF Spec

(* The conditions of a segment are those of one update, however updates and     *)
(* archives of it overlap (SegmentsService.update).                           *)
THEOREM ConditionsAreOfOneUpdate == Spec => []ConditionsOfOneUpdate
  <1>1. IInv => ConditionsOfOneUpdate
    BY DEF IInv
  <1> QED
    BY <1>1, Invariance, PTL

(* Of the calls that have found the same key, member or segment free one       *)
(* creates it (the unique indexes of project, project_member and segment).    *)
THEOREM CreatesAreFirst == Spec => CreatesTakeWhatIsFree
  <1>1. IInv /\ [Next]_vars =>
          [\A c \in Calls :
             call[c].step = "open" /\ call'[c].step \in {"committed", "done"} => IsFree(c)]_vars
    <2> SUFFICES ASSUME IInv, [Next]_vars, NEW c \in Calls,
                        call[c].step = "open", call'[c].step \in {"committed", "done"}
                 PROVE  IsFree(c)
      OBVIOUS
    <2>1. TypeOK /\ StepsMatch /\ LocksExclude /\ InsertsAreFree
      BY DEF IInv
    <2>2. Commit(c)
      <3>1. ASSUME NEW d \in Calls, Continue(d) PROVE Commit(c)
        <4>1. d = c
          BY <2>1, <3>1, ContinueEffect
        <4>2. Execute(c) => call'[c].step \in {"open", "refused"}
          BY <2>1, ExecuteEffect
        <4> QED
          BY <2>1, <3>1, <4>1, <4>2, ContinueSteps DEF Continue
      <3>2. ASSUME NEW d \in Calls, Ask(d) PROVE FALSE
        BY <2>1, <3>2, AskEffect
      <3>3. ASSUME Crash PROVE FALSE
        BY <2>1, <3>3 DEF Crash, TypeOK
      <3>4. ASSUME UNCHANGED vars PROVE FALSE
        BY <3>4 DEF vars
      <3> QED
        BY <3>1, <3>2, <3>3, <3>4, NextCases
    <2>3. call[c].written > 0
      <3>1. call[c].written > 1 /\ call[c].written \in 0..4
        BY <2>1, <2>2, CommitAlone DEF TypeOK
      <3> QED
        BY <3>1
    <2> QED
      BY <2>1, <2>3 DEF InsertsAreFree
  <1> QED
    BY <1>1, Invariance, PTL DEF Spec, CreatesTakeWhatIsFree
================================================================================
