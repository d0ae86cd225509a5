---------------------------- MODULE Publishing_proofs ----------------------------
(***************************************************************************)
(* What racing publish transactions leave in force, proved for any number of *)
(* transactions and any rule sets and target lists. The inductive invariant  *)
(* says what a transaction's locks and the numbers it has drawn still mean   *)
(* when it commits.                                                          *)
(***************************************************************************)
EXTENDS Publishing, TLAPS

Ended == {"idle", "done", "failed"}
NamesIn(part) == IF part = "rules" THEN UNION RuleSets ELSE UNION TargetSets
Tabled == {"rules", "targets"}
Table(part) == IF part = "rules" THEN rules ELSE targets

(* Versions are numbered apart, each part has a latest one, and those who      *)
(* wrote versions and rows are done.                                         *)
HasGreatest(S) == \E v \in S : \A w \in S : w.number <= v.number
History ==
  /\ \A v, w \in versions : v.number = w.number => v = w
  /\ \A part \in Parts : HasGreatest({v \in versions : v.part = part})
  /\ HasGreatest(versions)
  /\ \A v \in versions : v.by \in Calls => pc[v.by] = "done"

(* The versions a transaction has inserted are its own, one after the other,   *)
(* of the parts it has published; what it is to write is of a part it        *)
(* publishes.                                                                *)
Entries ==
  DOMAIN entries = Calls /\ \A c \in Calls :
    /\ \A e \in entries[c] : e.number \in Nat /\ e.part \in Parts \ todo[c] /\ e.by = c
    /\ \A e, g \in entries[c] : e.number = g.number \/ e.part = g.part => e = g
    /\ entries[c] = {} \/ HasGreatest(entries[c])
    /\ pc[c] \in Ended => entries[c] = {} /\ deleted[c] = {}
    /\ pc[c] \notin Ended => \A part \in Tabled :
         input[c][part] # {} => part \in todo[c] \/ Published(c, part)

(* The rows of a table are of transactions that are done, and named by them.   *)
RowsOfCalls ==
  \A part \in Tabled : \A row \in Table(part) :
    /\ row.name \in NamesIn(part)
    /\ row.by \in Calls => pc[row.by] = "done" /\ row.name \in input[row.by][part]

(* A DELETE waits on rows of its part; what it deletes stays locked, and is of *)
(* a part the transaction publishes.                                         *)
Locks ==
  \A c \in Calls :
    /\ \A row \in seen[c] : /\ pc[c] = "rows" /\ Current(c) # "config"
                             /\ row.name \in NamesIn(Current(c))
    /\ deleted[c] \subseteq rules \cup targets
    /\ \A d \in Calls \ {c} : deleted[c] \cap deleted[d] = {}
    /\ \A part \in Tabled : \A row \in deleted[c] : row.name \in NamesIn(part) =>
         Published(c, part) \/ (pc[c] \in {"rows", "version"} /\ Current(c) = part)

(* A set of rows holds all the rules of a transaction or none of them; so does *)
(* what a DELETE has taken with what it will still find.                     *)
WholeIn(S, w) ==
  \A m, n \in input[w].rules : [by |-> w, name |-> m] \in S => [by |-> w, name |-> n] \in S
Taking(c) == deleted[c] \cup (seen[c] \cap rules)
Whole ==
  \A w \in Calls :
    /\ WholeIn(rules, w)
    /\ \A c \in Calls : WholeIn(Taking(c), w) /\ \A row \in seen[c] : row.by = w => pc[w] = "done"

(* A number that is inserted is nobody else's; the number that is read is past *)
(* the transaction's own, those of the rows it has deleted and, while it     *)
(* holds the config row, those of the configuration.                         *)
Numbers ==
  \A c \in Calls :
    /\ \A e \in entries[c] : /\ ~NumberTaken(e.number)
                             /\ \A d \in Calls \ {c} : ~NumberHeld(d, e.number)
    /\ pc[c] = "version" =>
         /\ \A e \in entries[c] : e.number < number[c]
         /\ \A row \in deleted[c], v \in versions : v.by = row.by => v.number < number[c]
         /\ Current(c) = "config" => \A v \in versions : v.part = "config" => v.number < number[c]

(* The users a transaction has inserted are of its list, all of them before it *)
(* is numbered, and nobody else has their keys.                              *)
Users ==
  \A c \in Calls :
    /\ \A user \in written[c] : /\ user \in input[c].targets /\ ~UserTaken(c, user)
                                /\ \A d \in Calls \ {c} : ~UserHeld(d, user)
    /\ Published(c, "targets") \/ (pc[c] = "version" /\ Current(c) = "targets") =>
         written[c] = input[c].targets
    /\ pc[c] \in Ended => written[c] = {}

(* A transaction that deletes another's rows is numbered after it.             *)
Overtakes ==
  \A c \in Calls, part \in Tabled : \A row \in deleted[c], e \in entries[c], v \in versions :
    row.name \in NamesIn(part) /\ e.part = part /\ v.part = part /\ v.by = row.by =>
      v.number < e.number

(* One transaction at a time holds the config row, from its update to its      *)
(* commit, and so is numbered after those before it.                         *)
ConfigInOrder ==
  /\ \A c, d \in Calls : HoldsConfig(c) /\ HoldsConfig(d) => c = d
  /\ \A c \in Calls : \A e \in entries[c], v \in versions :
       e.part = "config" /\ v.part = "config" => v.number < e.number

IInv ==
  /\ TypeOK /\ History /\ Entries /\ RowsOfCalls /\ Locks /\ Whole /\ Overtakes
  /\ Numbers /\ Users
  /\ ConfigInOrder /\ ConfigMatchesHistory /\ LatestInForce /\ OneTargetPerUser
--------------------------------------------------------------------------------
(* Lemmas about numbers and parts *)

(* The greatest number of a set that has one.                                 *)
LEMMA MaxNumberIs ==
  ASSUME NEW S, \A e \in S : e.number \in Nat, HasGreatest(S)
  PROVE  MaxNumber(S) \in Nat /\ \A e \in S : e.number <= MaxNumber(S)
  <1>1. PICK v \in S : \A w \in S : w.number <= v.number
    BY DEF HasGreatest
  <1>2. \E n \in {e.number : e \in S} : \A e \in S : e.number <= n
    BY <1>1
  <1>3. MaxNumber(S) \in {e.number : e \in S} /\ \A e \in S : e.number <= MaxNumber(S)
    BY <1>2 DEF MaxNumber
  <1> QED
    BY <1>3

(* Two sets that have a greatest number have one together.                     *)
LEMMA GreatestOfBoth ==
  ASSUME NEW S, NEW T, \A e \in S \cup T : e.number \in Nat, HasGreatest(S),
         T = {} \/ HasGreatest(T)
  PROVE  HasGreatest(S \cup T)
  <1>1. PICK v \in S : \A w \in S : w.number <= v.number
    BY DEF HasGreatest
  <1>2. CASE T = {}
    BY <1>1, <1>2 DEF HasGreatest
  <1>3. CASE HasGreatest(T)
    <2>1. PICK x \in T : \A w \in T : w.number <= x.number
      BY <1>3 DEF HasGreatest
    <2>2. v.number \in Nat /\ x.number \in Nat
      OBVIOUS
    <2>3. CASE x.number <= v.number
      BY <1>1, <2>1, <2>2, <2>3 DEF HasGreatest
    <2>4. CASE v.number <= x.number
      BY <1>1, <2>1, <2>2, <2>4 DEF HasGreatest
    <2> QED
      BY <2>2, <2>3, <2>4
  <1> QED
    BY <1>2, <1>3

(* The latest version of a part is the one with the greatest number.           *)
LEMMA LatestOne ==
  ASSUME NEW S, \A v \in S : v.number \in Nat, \A v, w \in S : v.number = w.number => v = w,
         NEW part, NEW x \in {v \in S : v.part = part},
         \A w \in {v \in S : v.part = part} : w.number <= x.number
  PROVE  (CHOOSE v \in {u \in S : u.part = part} :
            \A w \in {u \in S : u.part = part} : w.number <= v.number) = x
  <1> DEFINE of == {v \in S : v.part = part}
             y == CHOOSE v \in of : \A w \in of : w.number <= v.number
  <1>1. y \in of /\ \A w \in of : w.number <= y.number
    OBVIOUS
  <1>2. x.number <= y.number /\ y.number <= x.number /\ x.number \in Nat /\ y.number \in Nat
    BY <1>1
  <1> QED
    BY <1>1, <1>2

(* Whoever the history names last for a part wrote its latest version.         *)
LEMMA LatestIs ==
  ASSUME TypeOK, History, NEW part \in Parts
  PROVE  \E x \in versions : /\ x.part = part /\ Latest(part) = x.by
                             /\ \A w \in versions : w.part = part => w.number <= x.number
  <1>1. PICK x \in {v \in versions : v.part = part} :
          \A w \in {v \in versions : v.part = part} : w.number <= x.number
    BY DEF History, HasGreatest
  <1>2. /\ \A v \in versions : v.number \in Nat
        /\ \A v, w \in versions : v.number = w.number => v = w
    BY DEF TypeOK, History
  <1>3. (CHOOSE v \in {u \in versions : u.part = part} :
           \A w \in {u \in versions : u.part = part} : w.number <= v.number) = x
    BY <1>1, <1>2, LatestOne
  <1>4. Latest(part) = x.by
    BY Zenon, <1>3 DEF Latest
  <1> QED
    BY <1>1, <1>4

(* The rows that are written with some names have those names.                 *)
LEMMA NamesOfRows ==
  ASSUME NEW w, NEW names
  PROVE  {row.name : row \in RowsBy(w, names)} = names
  <1>1. ASSUME NEW n \in names
        PROVE  n \in {row.name : row \in RowsBy(w, names)}
    <2>1. [by |-> w, name |-> n] \in RowsBy(w, names) /\ [by |-> w, name |-> n].name = n
      BY DEF RowsBy
    <2> QED
      BY <2>1
  <1>2. \A row \in RowsBy(w, names) : row.name \in names
    BY DEF RowsBy
  <1> QED
    BY <1>1, <1>2

(* The part a transaction publishes next is one it has left.                   *)
LEMMA CurrentIs ==
  ASSUME TypeOK, NEW c \in Calls, pc[c] \in {"write", "rows", "version"}
  PROVE  Current(c) \in todo[c] /\ Current(c) \in Parts /\ todo[c] \subseteq Parts
  BY DEF TypeOK, Current, Parts

--------------------------------------------------------------------------------
(* The initial states *)

(* The initial states satisfy the invariant.                                *)
LEMMA InitHolds == Init => IInv
  <1> SUFFICES ASSUME Init  PROVE IInv
    OBVIOUS
  <1>1. PICK names \in RuleSets, users \in TargetSets :
          rules = RowsBy(Seed, names) /\ targets = RowsBy(Seed, users)
    BY DEF Init
  <1>2. /\ \A row \in rules : row.by = Seed /\ row.name \in UNION RuleSets /\ row \in Row
        /\ \A row \in targets : row.by = Seed /\ row.name \in UNION TargetSets /\ row \in Row
        /\ \A r, s \in targets : r.name = s.name => r = s
    BY <1>1 DEF RowsBy, Row, Writers
  <1>3. /\ versions = {Entry(1, "config", Seed), Entry(2, "rules", Seed), Entry(3, "targets", Seed)}
        /\ \A v \in versions : v.number \in Nat /\ v.part \in Parts /\ v.by = Seed
        /\ \A v, w \in versions : v.number = w.number => v = w
        /\ \A v, w \in versions : v.part = w.part => v = w
        /\ \A part \in Parts : \E v \in versions : v.part = part
        /\ HasGreatest(versions)
    BY DEF Init, Entry, Parts, HasGreatest
  <1>4. TypeOK
    BY <1>2, <1>3 DEF Init, TypeOK, Writers, Parts
  <1>5. History
    <2>1. \A part \in Parts : HasGreatest({v \in versions : v.part = part})
      BY <1>3 DEF HasGreatest
    <2> QED
      BY <1>3, <2>1, SeedIsNoCall DEF History
  <1>6. \A part \in Parts : Latest(part) = Seed
    BY <1>3, <1>4, <1>5, LatestIs
  <1>7. Entries /\ Locks /\ Overtakes /\ ConfigInOrder /\ Numbers /\ Users
    BY DEF Init, Entries, Locks, Overtakes, ConfigInOrder, HoldsConfig, Ended, Numbers, Users, Published
  <1>8. RowsOfCalls
    BY <1>2, SeedIsNoCall DEF RowsOfCalls, Table, NamesIn, Tabled
  <1>9. Whole
    BY <1>2, SeedIsNoCall DEF Init, Whole, WholeIn, Taking
  <1>10. ConfigMatchesHistory /\ LatestInForce /\ OneTargetPerUser
    BY <1>2, <1>6, SeedIsNoCall DEF Init, Parts, ConfigMatchesHistory, LatestInForce, OneTargetPerUser
  <1> QED
    BY <1>4, <1>5, <1>7, <1>8, <1>9, <1>10 DEF IInv

--------------------------------------------------------------------------------
(* One step of one transaction *)

Step(c) == Begin(c) \/ Continue(c) \/ Rollback(c)

(* A transaction changes nothing of the others'.                              *)
Alone(c) ==
  /\ DOMAIN entries' = Calls
  /\ \A d \in Calls \ {c} : /\ pc'[d] = pc[d] /\ todo'[d] = todo[d] /\ input'[d] = input[d]
                            /\ seen'[d] = seen[d] /\ deleted'[d] = deleted[d]
                            /\ entries'[d] = entries[d] /\ written'[d] = written[d]
                            /\ number'[d] = number[d]

(* What a transaction that ends gives up.                                     *)
LEMMA ReleaseEffect ==
  ASSUME TypeOK, Entries, NEW c \in Calls, NEW label, Release(c, label)
  PROVE  /\ Alone(c) /\ input' = input /\ pc'[c] = label
         /\ todo'[c] = {} /\ seen'[c] = {} /\ deleted'[c] = {} /\ entries'[c] = {}
         /\ written'[c] = {} /\ number'[c] = 0
  BY DEF TypeOK, Entries, Release, Alone

(* What a transaction that begins is to publish.                              *)
LEMMA BeginEffect ==
  ASSUME TypeOK, Entries, NEW c \in Calls, Begin(c)
  PROVE  /\ pc[c] = "idle" /\ Alone(c) /\ pc' = [pc EXCEPT ![c] = "write"]
         /\ UNCHANGED <<seen, deleted, written, number, entries, tables>>
         /\ \E parts \in (SUBSET Parts) \ {{}}, names \in RuleSets \cup {{}},
              users \in TargetSets \cup {{}} :
              /\ todo' = [todo EXCEPT ![c] = parts]
              /\ input' = [input EXCEPT ![c] = [rules |-> names, targets |-> users]]
              /\ names # {} => "rules" \in parts
              /\ users # {} => "targets" \in parts
  <1>1. PICK parts \in Payloads :
          /\ todo' = [todo EXCEPT ![c] = parts]
          /\ \E names \in (IF "rules" \in parts THEN RuleSets ELSE {{}}),
               users \in (IF "targets" \in parts THEN TargetSets ELSE {{}}) :
               input' = [input EXCEPT ![c] = [rules |-> names, targets |-> users]]
    BY Zenon DEF Begin
  <1>2. PICK names \in (IF "rules" \in parts THEN RuleSets ELSE {{}}),
             users \in (IF "targets" \in parts THEN TargetSets ELSE {{}}) :
          input' = [input EXCEPT ![c] = [rules |-> names, targets |-> users]]
    BY Zenon, <1>1
  <1>3. /\ pc[c] = "idle" /\ pc' = [pc EXCEPT ![c] = "write"]
        /\ UNCHANGED <<seen, deleted, written, number, entries, tables>>
    BY DEF Begin
  <1>4. Alone(c)
    BY <1>1, <1>2, <1>3 DEF Alone, TypeOK, Entries
  <1>5. /\ names \in RuleSets \cup {{}} /\ users \in TargetSets \cup {{}}
        /\ names # {} => "rules" \in parts
        /\ users # {} => "targets" \in parts
    BY <1>2
  <1> QED
    BY <1>1, <1>2, <1>3, <1>4, <1>5, PayloadsPublish

(* A transaction that waits in a circle waits for somebody, so has not ended.  *)
LEMMA CircleWaits ==
  ASSUME NEW c \in Calls, InCircle(c)
  PROVE  pc[c] \in {"write", "rows", "version"}
  <1>1. WaitedFor(c) # {}
    BY DEF InCircle
  <1> QED
    BY <1>1 DEF WaitedFor, Waits

(* A transaction that is aborted has not ended, and leaves the tables.         *)
Leave(c) == Collide(c) \/ DetectDeadlock(c) \/ Rollback(c)
LEMMA LeaveEffect ==
  ASSUME NEW c \in Calls, Leave(c)
  PROVE  Release(c, "failed") /\ pc[c] \notin Ended /\ UNCHANGED tables
  BY CircleWaits DEF Leave, Collide, UserCollides, NumberCollides, DetectDeadlock, Rollback, Ended

(* A step moves one call, and only a commit writes the tables.              *)
LEMMA StepIsAlone ==
  ASSUME IInv, NEW c \in Calls, Step(c)
  PROVE  Alone(c) /\ pc[c] \notin {"done", "failed"} /\ (~Begin(c) => input' = input)
         /\ (Begin(c) => pc[c] = "idle") /\ (~Commit(c) => UNCHANGED tables)
  <1> USE DEF IInv, tables
  <1>1. CASE Commit(c)
    <2>1. Release(c, "done") /\ pc[c] = "commit"
      BY <1>1 DEF Commit
    <2>2. Alone(c) /\ input' = input
      BY <2>1, ReleaseEffect
    <2> QED
      BY <1>1, <2>1, <2>2 DEF Begin
  <1>2. CASE Leave(c)
    <2>1. Release(c, "failed") /\ pc[c] \notin {"idle", "done", "failed"} /\ UNCHANGED tables
      BY <1>2, LeaveEffect DEF Ended
    <2>2. Alone(c) /\ input' = input
      BY <2>1, ReleaseEffect
    <2> QED
      BY <2>1, <2>2 DEF Begin
  <1>3. CASE Begin(c)
    BY <1>3, BeginEffect DEF Commit
  <1>4. CASE UpdateConfig(c) \/ ScanRows(c) \/ DeleteRow(c)
    BY <1>4 DEF UpdateConfig, ScanRows, DeleteRow, Alone, TypeOK, Entries, Begin
  <1>5. CASE InsertTarget(c) \/ ReadNumber(c) \/ InsertVersion(c)
    BY <1>5 DEF InsertTarget, ReadNumber, InsertVersion, Alone, TypeOK, Entries, Begin
  <1> QED
    BY <1>1, <1>2, <1>3, <1>4, <1>5 DEF Step, Continue, Leave

(* While the committed rows stand, so does what is true of them alone.         *)
LEMMA TablesKeep ==
  ASSUME IInv, NEW c \in Calls, Step(c), UNCHANGED tables
  PROVE  History' /\ RowsOfCalls' /\ ConfigMatchesHistory' /\ LatestInForce' /\ OneTargetPerUser'
  <1> USE DEF IInv, tables
  <1>1. /\ \A d \in Calls : pc[d] = "done" => pc'[d] = "done" /\ input'[d] = input[d]
        /\ config' = config /\ rules' = rules /\ targets' = targets /\ versions' = versions
    BY StepIsAlone DEF Alone
  <1>2. History'
    BY <1>1 DEF History
  <1>3. RowsOfCalls'
    BY <1>1 DEF RowsOfCalls, Table
  <1>4. OneTargetPerUser' /\ ConfigMatchesHistory'
    BY <1>1 DEF OneTargetPerUser, ConfigMatchesHistory, Latest
  <1>5. LatestInForce'
    <2>1. \A part \in Parts : Latest(part)' = Latest(part)
      BY <1>1 DEF Latest
    <2>2. \A part \in Parts : Latest(part) \in Calls => pc[Latest(part)] = "done"
      BY LatestIs DEF History
    <2>3. "rules" \in Parts /\ "targets" \in Parts
      BY DEF Parts
    <2>4. Latest("rules")' = Latest("rules") /\ Latest("targets")' = Latest("targets")
      BY <1>1 DEF Latest
    <2>5. \A w : NamesOf(w, rules) = NamesOf(w, rules)' /\ NamesOf(w, targets) = NamesOf(w, targets)'
      BY <1>1 DEF NamesOf
    <2> QED
      BY <1>1, <2>2, <2>3, <2>4, <2>5 DEF LatestInForce, NamesOf
  <1> QED
    BY <1>2, <1>3, <1>4, <1>5
(* The rows in a table, and those deleted from it, are of transactions done.   *)
LEMMA RowsAreOfDone ==
  ASSUME IInv, NEW w \in Calls, pc[w] # "done"
  PROVE  /\ \A row \in rules \cup targets : row.by # w
         /\ \A c \in Calls : \A row \in seen[c] \cup deleted[c] : row.by # w
  <1>1. \A row \in rules \cup targets : row.by # w
    BY DEF IInv, RowsOfCalls, Tabled, Table
  <1>2. \A c \in Calls : \A row \in seen[c] : row.by # w
    BY DEF IInv, Whole
  <1>3. \A c \in Calls : deleted[c] \subseteq rules \cup targets
    BY DEF IInv, Locks
  <1> QED
    BY <1>1, <1>2, <1>3

(* No rule of a transaction is a row of the targets.                          *)
LEMMA RulesAreNoTargets ==
  ASSUME IInv, NEW w \in Calls, NEW m \in input[w].rules
  PROVE  [by |-> w, name |-> m] \notin targets
  <1>1. m \in UNION RuleSets
    BY DEF IInv, TypeOK
  <1>2. \A row \in targets : row.name \in UNION TargetSets
    BY DEF IInv, RowsOfCalls, Tabled, Table, NamesIn
  <1> QED
    BY <1>1, <1>2, TablesDiffer

(* A transaction that begins disturbs nothing.                              *)
LEMMA BeginKeeps ==
  ASSUME IInv, NEW c \in Calls, Begin(c)
  PROVE  IInv'
  <1> USE DEF IInv
  <1>1. PICK parts \in (SUBSET Parts) \ {{}}, names \in RuleSets \cup {{}},
             users \in TargetSets \cup {{}} :
          /\ todo' = [todo EXCEPT ![c] = parts]
          /\ input' = [input EXCEPT ![c] = [rules |-> names, targets |-> users]]
          /\ names # {} => "rules" \in parts
          /\ users # {} => "targets" \in parts
    BY BeginEffect
  <1>2. /\ pc[c] = "idle" /\ Alone(c) /\ pc' = [pc EXCEPT ![c] = "write"]
        /\ seen' = seen /\ deleted' = deleted /\ entries' = entries /\ UNCHANGED tables
        /\ written' = written /\ number' = number
    BY BeginEffect
  <1>3. /\ pc'[c] = "write" /\ todo'[c] = parts
        /\ input'[c] = [rules |-> names, targets |-> users]
        /\ \A d \in Calls \ {c} : pc'[d] = pc[d] /\ todo'[d] = todo[d] /\ input'[d] = input[d]
        /\ rules' = rules /\ targets' = targets /\ versions' = versions
    BY <1>1, <1>2 DEF TypeOK, tables
  <1>4. entries[c] = {} /\ deleted[c] = {} /\ written[c] = {} /\ seen[c] = {}
    BY <1>2 DEF Entries, Ended, Users, Locks
  <1>5. TypeOK'
    BY <1>1, <1>2, <1>3 DEF TypeOK, tables
  <1>6. Entries'
    <2>1. \A part \in Tabled : input'[c][part] # {} => part \in todo'[c]
      BY <1>1, <1>3 DEF Tabled
    <2> QED
      BY <1>2, <1>3, <1>4, <2>1 DEF Entries, Published
  <1>7. Locks'
    BY <1>2, <1>3, <1>4 DEF Locks, Published, Current
  <1>8. Whole'
    <2>1. \A w \in Calls \ {c} : input'[w] = input[w] /\ (pc[w] = "done" <=> pc'[w] = "done")
      BY <1>3
    <2>2. \A d \in Calls : Taking(d)' = Taking(d)
      BY <1>2, <1>3 DEF Taking
    <2>3. /\ WholeIn(rules, c)'
          /\ \A d \in Calls : WholeIn(Taking(d), c)' /\ \A row \in seen[d] : row.by # c
      BY <1>2, <1>3, <2>2, RowsAreOfDone DEF WholeIn, Taking
    <2> QED
      BY <1>2, <1>3, <2>1, <2>2, <2>3 DEF Whole, WholeIn
  <1>9. Overtakes' /\ ConfigInOrder'
    BY <1>2, <1>3, <1>4 DEF Overtakes, ConfigInOrder, HoldsConfig, Current
  <1>10. Numbers'
    BY <1>2, <1>3 DEF Numbers, NumberTaken, NumberHeld, Current
  <1>11. Users'
    BY <1>2, <1>3, <1>4 DEF Users, UserTaken, UserHeld, Published, Current, Ended
  <1> QED
    BY <1>2, <1>5, <1>6, <1>7, <1>8, <1>9, <1>10, <1>11, TablesKeep DEF Step

(* The UPDATE of the configuration locks its row for this call.             *)
LEMMA UpdateConfigKeeps ==
  ASSUME IInv, NEW c \in Calls, UpdateConfig(c)
  PROVE  IInv'
  <1> USE DEF IInv
  <1>1. /\ pc[c] = "write" /\ Current(c) = "config" /\ pc' = [pc EXCEPT ![c] = "rows"]
        /\ todo' = todo /\ input' = input /\ seen' = seen /\ deleted' = deleted
        /\ entries' = entries /\ written' = written /\ number' = number /\ UNCHANGED tables
        /\ \A d \in Calls \ {c} : ~HoldsConfig(d)
    BY DEF UpdateConfig, ConfigLocked, tables
  <1>2. /\ pc'[c] = "rows" /\ \A d \in Calls \ {c} : pc'[d] = pc[d]
        /\ rules' = rules /\ targets' = targets /\ versions' = versions
    BY <1>1 DEF TypeOK, tables
  <1>3. TypeOK'
    BY <1>1, <1>2 DEF TypeOK, tables
  <1>4. Entries' /\ Locks'
    BY <1>1, <1>2 DEF Entries, Locks, Published, Current, Ended
  <1>5. Whole'
    BY <1>1, <1>2 DEF Whole, WholeIn, Taking
  <1>6. Overtakes' /\ ConfigInOrder'
    BY <1>1, <1>2 DEF Overtakes, ConfigInOrder, HoldsConfig, Current
  <1>7. Numbers' /\ Users'
    BY <1>1, <1>2 DEF Numbers, NumberTaken, NumberHeld, Current, Users, UserTaken, UserHeld,
      Published, Ended
  <1> QED
    BY <1>1, <1>3, <1>4, <1>5, <1>6, <1>7, TablesKeep DEF Step, Continue

(* What a DELETE finds is whole, as the committed rows are.                    *)
LEMMA ScanRowsKeeps ==
  ASSUME IInv, NEW c \in Calls, ScanRows(c)
  PROVE  IInv'
  <1> USE DEF IInv
  <1>1. /\ pc[c] = "write" /\ Current(c) # "config" /\ pc' = [pc EXCEPT ![c] = "rows"]
        /\ todo' = todo /\ input' = input /\ deleted' = deleted
        /\ entries' = entries /\ written' = written /\ number' = number /\ UNCHANGED tables
    BY DEF ScanRows, tables
  <1>2. /\ pc'[c] = "rows" /\ \A d \in Calls \ {c} : pc'[d] = pc[d] /\ seen'[d] = seen[d]
        /\ rules' = rules /\ targets' = targets /\ versions' = versions
        /\ seen'[c] = Table(Current(c)) /\ seen' = [seen EXCEPT ![c] = Table(Current(c))]
    BY <1>1 DEF ScanRows, TypeOK, tables, Table
  <1>3. Current(c) \in Tabled
    BY <1>1, CurrentIs DEF Tabled, Parts
  <1>4. TypeOK'
    BY <1>1, <1>2, <1>3 DEF TypeOK, tables, Table
  <1>5. Entries'
    BY <1>1, <1>2 DEF Entries, Published, Ended
  <1>6. Locks'
    <2>1. \A row \in Table(Current(c)) : row.name \in NamesIn(Current(c))
      BY <1>3 DEF RowsOfCalls
    <2> QED
      BY <1>1, <1>2, <2>1 DEF Locks, Published, Current
  <1>7. Whole'
    <2>1. seen[c] = {}
      BY <1>1 DEF Locks
    <2>2. ASSUME NEW w \in Calls  PROVE WholeIn(deleted[c] \cup (Table(Current(c)) \cap rules), w)
      <3>1. \A m \in input[w].rules : [by |-> w, name |-> m] \notin targets
        BY RulesAreNoTargets
      <3>2. WholeIn(rules, w) /\ WholeIn(deleted[c], w) /\ deleted[c] \subseteq rules \cup targets
        BY <2>1 DEF Whole, Taking, Locks
      <3> QED
        BY <3>1, <3>2 DEF WholeIn, Table
    <2>3. \A w \in Calls : \A row \in Table(Current(c)) : row.by = w => pc[w] = "done"
      BY RowsAreOfDone DEF Table
    <2>4. \A w \in Calls : pc[w] = "done" <=> pc'[w] = "done"
      BY <1>1, <1>2
    <2>5. /\ Taking(c)' = deleted[c] \cup (Table(Current(c)) \cap rules)
          /\ \A d \in Calls \ {c} : Taking(d)' = Taking(d)
      BY <1>1, <1>2 DEF Taking
    <2> QED
      BY <1>1, <1>2, <2>2, <2>3, <2>4, <2>5 DEF Whole, WholeIn
  <1>8. Overtakes' /\ ConfigInOrder'
    BY <1>1, <1>2 DEF Overtakes, ConfigInOrder, HoldsConfig, Current
  <1>9. Numbers' /\ Users'
    BY <1>1, <1>2 DEF Numbers, NumberTaken, NumberHeld, Current, Users, UserTaken, UserHeld,
      Published, Ended
  <1> QED
    BY <1>1, <1>4, <1>5, <1>6, <1>7, <1>8, <1>9, TablesKeep DEF Step, Continue

(* A DELETE that has the lock of a row takes it if it is still there.          *)
LEMMA DeleteRowKeeps ==
  ASSUME IInv, NEW c \in Calls, DeleteRow(c)
  PROVE  IInv'
  <1> USE DEF IInv
  <1>1. PICK row \in seen[c] :
          /\ ~RowLocked(c, row)
          /\ seen' = [seen EXCEPT ![c] = seen[c] \ {row}]
          /\ deleted' = [deleted EXCEPT ![c] = deleted[c] \cup ({row} \cap (rules \cup targets))]
    BY DEF DeleteRow
  <1> DEFINE new == {row} \cap (rules \cup targets)
  <1>2. /\ pc[c] = "rows" /\ pc' = pc
        /\ todo' = todo /\ input' = input /\ entries' = entries
        /\ written' = written /\ number' = number /\ UNCHANGED tables
        /\ \A d \in Calls \ {c} : new \cap deleted[d] = {}
    BY <1>1 DEF DeleteRow, RowLocked, tables
  <1>3. /\ seen'[c] = seen[c] \ {row} /\ deleted'[c] = deleted[c] \cup new
        /\ \A d \in Calls \ {c} : seen'[d] = seen[d] /\ deleted'[d] = deleted[d]
        /\ rules' = rules /\ targets' = targets /\ versions' = versions
    BY <1>1, <1>2 DEF TypeOK, tables
  <1>4. /\ Current(c) \in Tabled /\ Current(c) \in todo[c]
        /\ row.name \in NamesIn(Current(c))
        /\ \A part \in Tabled : row.name \in NamesIn(part) => part = Current(c)
    <2>1. Current(c) \in Tabled /\ Current(c) \in todo[c]
      BY <1>2, CurrentIs DEF Locks, Parts, Tabled
    <2>2. row.name \in NamesIn(Current(c))
      BY DEF Locks
    <2> QED
      BY <2>1, <2>2, TablesDiffer DEF Tabled, NamesIn
  <1>5. TypeOK'
    <2>1. new \subseteq Row /\ seen[c] \ {row} \subseteq Row
      BY DEF TypeOK
    <2> HIDE DEF new
    <2> QED
      BY <1>1, <1>2, <1>3, <2>1 DEF TypeOK, tables
  <1>6. Entries'
    <2>1. pc[c] \notin Ended
      BY <1>2 DEF Ended
    <2> QED
      BY <1>2, <1>3, <2>1 DEF Entries, Published
  <1>7. Locks'
    <2>1. new \subseteq rules \cup targets /\ \A x \in new : x = row
      OBVIOUS
    <2> HIDE DEF new
    <2>2. \A d \in Calls : /\ deleted'[d] \subseteq rules \cup targets
                           /\ \A x \in Calls \ {d} : deleted'[d] \cap deleted'[x] = {}
      BY <1>2, <1>3, <2>1 DEF Locks
    <2>3. \A d \in Calls, part \in Tabled : \A x \in deleted'[d] : x.name \in NamesIn(part) =>
            Published(d, part) \/ (pc[d] \in {"rows", "version"} /\ Current(d) = part)
      BY <1>2, <1>3, <1>4, <2>1 DEF Locks
    <2>4. \A d \in Calls : \A x \in seen'[d] : x \in seen[d]
      BY <1>3
    <2> QED
      BY <1>2, <1>3, <2>2, <2>3, <2>4 DEF Locks, Published, Current
  <1>8. Whole'
    <2>1. ASSUME NEW w \in Calls  PROVE WholeIn(Taking(c), w)'
      <3>1. \A m \in input[w].rules :
              [by |-> w, name |-> m] \in Taking(c)' <=> [by |-> w, name |-> m] \in Taking(c)
        BY <1>3, RulesAreNoTargets DEF Taking
      <3> QED
        BY <1>2, <3>1 DEF Whole, WholeIn
    <2>2. \A d \in Calls \ {c} : Taking(d)' = Taking(d)
      BY <1>3 DEF Taking
    <2>3. \A d \in Calls : \A x \in seen'[d] : x \in seen[d]
      BY <1>3
    <2> QED
      BY <1>2, <1>3, <2>1, <2>2, <2>3 DEF Whole, WholeIn
  <1>9. Overtakes'
    <2>1. \A e \in entries[c] : e.part # Current(c)
      BY <1>4 DEF Entries
    <2>2. \A x \in new : x = row
      OBVIOUS
    <2> HIDE DEF new
    <2>3. ASSUME NEW d \in Calls, NEW part \in Tabled, NEW x \in deleted'[d],
                 NEW e \in entries[d], NEW v \in versions,
                 x.name \in NamesIn(part), e.part = part, v.part = part, v.by = x.by
          PROVE  v.number < e.number
      BY <1>3, <1>4, <2>1, <2>2, <2>3 DEF Overtakes
    <2> QED
      BY <1>2, <1>3, <2>3 DEF Overtakes
  <1>10. ConfigInOrder'
    BY <1>2, <1>3 DEF ConfigInOrder, HoldsConfig, Current
  <1>11. Numbers'
    BY <1>2, <1>3 DEF Numbers, NumberTaken, NumberHeld, Current
  <1>12. Users'
    <2>1. \A d \in Calls : \A user : UserTaken(d, user)' => UserTaken(d, user)
      BY <1>3 DEF UserTaken
    <2>2. ASSUME NEW d \in Calls, NEW user \in written[d], NEW x \in Calls \ {d}, UserHeld(x, user)'
          PROVE  FALSE
      <3>1. ~UserHeld(x, user) /\ ~UserTaken(d, user)
        BY DEF Users
      <3>2. x = c /\ row.name = user /\ row \in targets
        BY <1>2, <1>3, <2>2, <3>1 DEF UserHeld
      <3>3. row \notin deleted[d]
        BY <1>1, <3>2 DEF RowLocked
      <3> QED
        BY <3>1, <3>2, <3>3 DEF UserTaken
    <2>3. ASSUME NEW d \in Calls
          PROVE  /\ Published(d, "targets")' <=> Published(d, "targets")
                 /\ Current(d)' = Current(d)
      BY <1>2 DEF Published, Current
    <2> QED
      BY <1>2, <2>1, <2>2, <2>3 DEF Users
  <1> HIDE DEF new
  <1> QED
    BY <1>2, <1>5, <1>6, <1>7, <1>8, <1>9, <1>10, <1>11, <1>12, TablesKeep DEF Step, Continue

(* A target is inserted under a key nobody has, so nobody else can have it.    *)
LEMMA InsertTargetKeeps ==
  ASSUME IInv, NEW c \in Calls, InsertTarget(c)
  PROVE  IInv'
  <1> USE DEF IInv
  <1>1. PICK user \in ToInsert(c) :
          /\ \A d \in Calls \ {c} : ~UserHeld(d, user)
          /\ ~UserTaken(c, user)
          /\ written' = [written EXCEPT ![c] = written[c] \cup {user}]
    BY DEF InsertTarget
  <1>2. /\ pc[c] = "rows" /\ pc' = pc
        /\ todo' = todo /\ input' = input /\ entries' = entries /\ seen' = seen
        /\ deleted' = deleted /\ number' = number /\ UNCHANGED tables
        /\ rules' = rules /\ targets' = targets /\ versions' = versions
    BY DEF InsertTarget, tables
  <1>3. /\ written'[c] = written[c] \cup {user}
        /\ \A d \in Calls \ {c} : written'[d] = written[d]
    BY <1>1 DEF TypeOK
  <1>4. Current(c) = "targets" /\ user \in input[c].targets
    BY DEF ToInsert
  <1>5. TypeOK'
    <2>1. user \in UNION TargetSets
      BY <1>4 DEF TypeOK
    <2>2. written' \in [Calls -> SUBSET UNION TargetSets]
      BY <1>1, <2>1 DEF TypeOK
    <2> QED
      BY <1>2, <2>2 DEF TypeOK, tables
  <1>6. Entries' /\ Locks' /\ Whole' /\ Overtakes'
    BY <1>2 DEF Entries, Locks, Whole, WholeIn, Taking, Overtakes, Published, Current
  <1>7. ConfigInOrder' /\ Numbers'
    BY <1>2 DEF ConfigInOrder, HoldsConfig, Current, Numbers, NumberTaken, NumberHeld
  <1>8. Users'
    <2>1. ~Published(c, "targets")
      <3>1. Current(c) \in todo[c]
        BY <1>2, CurrentIs
      <3> QED
        BY <1>4, <3>1 DEF Entries, Published
    <2>2. \A d \in Calls : \A u : UserTaken(d, u)' <=> UserTaken(d, u)
      BY <1>2 DEF UserTaken
    <2>3. \A d \in Calls : \A u : UserHeld(d, u)' => UserHeld(d, u) \/ (d = c /\ u = user)
      BY <1>2, <1>3 DEF UserHeld
    <2>4. \A d \in Calls \ {c} : user \notin written[d]
      BY <1>1 DEF UserHeld
    <2>5. \A d \in Calls : /\ Published(d, "targets")' <=> Published(d, "targets")
                           /\ Current(d)' = Current(d)
      BY <1>2 DEF Published, Current
    <2>6. ASSUME NEW d \in Calls, NEW u \in written'[d]
          PROVE  /\ u \in input[d].targets /\ ~UserTaken(d, u)
                 /\ \A x \in Calls \ {d} : ~UserHeld(x, u)'
      BY <1>1, <1>3, <1>4, <2>3, <2>4 DEF Users
    <2>7. pc[c] \notin Ended
      BY <1>2 DEF Ended
    <2> QED
      BY <1>2, <1>3, <2>1, <2>2, <2>5, <2>6, <2>7 DEF Users
  <1> QED
    BY <1>2, <1>5, <1>6, <1>7, <1>8, TablesKeep DEF Step, Continue

(* The number that is read is past all that is committed and the transaction's *)
(* own.                                                                      *)
LEMMA ReadNumberKeeps ==
  ASSUME IInv, NEW c \in Calls, ReadNumber(c)
  PROVE  IInv'
  <1> USE DEF IInv
  <1> DEFINE n == MaxNumber(versions \cup entries[c]) + 1
  <1>1. /\ pc[c] = "rows" /\ seen[c] = {} /\ ToInsert(c) = {} /\ pc' = [pc EXCEPT ![c] = "version"]
        /\ todo' = todo /\ input' = input /\ entries' = entries /\ seen' = seen
        /\ deleted' = deleted /\ written' = written /\ UNCHANGED tables
        /\ number' = [number EXCEPT ![c] = n]
        /\ rules' = rules /\ targets' = targets /\ versions' = versions
    BY DEF ReadNumber, tables
  <1>2. n \in Nat /\ \A e \in versions \cup entries[c] : e.number < n /\ e.number \in Nat
    <2> DEFINE S == versions \cup entries[c]
    <2>1. \A e \in S : e.number \in Nat
      BY DEF TypeOK, Entries
    <2>2. HasGreatest(S)
      BY <2>1, GreatestOfBoth DEF History, Entries
    <2>3. n = MaxNumber(S) + 1
      OBVIOUS
    <2> HIDE DEF S
    <2>4. MaxNumber(S) \in Nat /\ \A e \in S : e.number <= MaxNumber(S)
      BY <2>1, <2>2, MaxNumberIs
    <2> HIDE DEF n
    <2>5. \A e \in S : e.number < n /\ e.number \in Nat
      BY <2>1, <2>3, <2>4
    <2>6. n \in Nat
      BY <2>3, <2>4
    <2> QED
      BY <2>5, <2>6 DEF S
  <1> HIDE DEF n
  <1>3. /\ pc'[c] = "version" /\ number'[c] = n
        /\ \A d \in Calls \ {c} : pc'[d] = pc[d] /\ number'[d] = number[d]
    BY <1>1 DEF TypeOK
  <1>4. TypeOK'
    BY <1>1, <1>2, <1>3 DEF TypeOK, tables
  <1>5. Entries' /\ Locks'
    BY <1>1, <1>3 DEF Entries, Locks, Published, Current, Ended
  <1>6. Whole' /\ Overtakes' /\ ConfigInOrder'
    BY <1>1, <1>3 DEF Whole, WholeIn, Taking, Overtakes, ConfigInOrder, HoldsConfig, Current
  <1>7. Numbers'
    BY <1>1, <1>2, <1>3 DEF Numbers, NumberTaken, NumberHeld, Current
  <1>8. Users'
    <2>1. Current(c) = "targets" => written[c] = input[c].targets
      BY <1>1 DEF ToInsert, Users
    <2> QED
      BY <1>1, <1>3, <2>1 DEF Users, UserTaken, UserHeld, Published, Current, Ended
  <1> QED
    BY <1>1, <1>4, <1>5, <1>6, <1>7, <1>8, TablesKeep DEF Step, Continue

(* A version is inserted under the number read, which nobody else has.         *)
LEMMA InsertVersionKeeps ==
  ASSUME IInv, NEW c \in Calls, InsertVersion(c)
  PROVE  IInv'
  <1> USE DEF IInv
  <1> DEFINE n == number[c]
             new == Entry(n, Current(c), c)
  <1>1. /\ pc[c] = "version" /\ input' = input /\ seen' = seen /\ deleted' = deleted
        /\ written' = written /\ number' = number /\ UNCHANGED tables
        /\ entries' = [entries EXCEPT ![c] = entries[c] \cup {new}]
        /\ todo' = [todo EXCEPT ![c] = todo[c] \ {Current(c)}]
        /\ pc' = [pc EXCEPT ![c] = IF todo'[c] = {} THEN "commit" ELSE "write"]
        /\ ~NumberTaken(n) /\ \A d \in Calls \ {c} : ~NumberHeld(d, n)
    BY DEF InsertVersion, tables
  <1>2. n \in Nat /\ (\A e \in entries[c] : e.number < n) /\ \A v \in versions : v.number \in Nat
    BY <1>1 DEF Numbers, TypeOK
  <1>3. new.number = n /\ new.part = Current(c) /\ new.by = c
    BY DEF Entry
  <1>4. Current(c) \in todo[c] /\ Current(c) \in Parts /\ todo[c] \subseteq Parts
    BY <1>1, CurrentIs
  <1> HIDE DEF n, new
  <1>5. /\ entries'[c] = entries[c] \cup {new} /\ todo'[c] = todo[c] \ {Current(c)}
        /\ pc'[c] = IF todo'[c] = {} THEN "commit" ELSE "write"
        /\ \A d \in Calls \ {c} : pc'[d] = pc[d] /\ todo'[d] = todo[d] /\ entries'[d] = entries[d]
        /\ DOMAIN entries' = Calls
        /\ rules' = rules /\ targets' = targets /\ versions' = versions
    BY <1>1 DEF TypeOK, Entries, tables
  <1>6. TypeOK'
    BY <1>1, <1>4, <1>5 DEF TypeOK, tables
  <1>7. \A part : Published(c, part)' <=> Published(c, part) \/ part = Current(c)
    BY <1>3, <1>5 DEF Published
  <1>8. Entries'
    <2>1. /\ \A e \in entries'[c] : e.number \in Nat /\ e.part \in Parts \ todo'[c] /\ e.by = c
          /\ \A e, g \in entries'[c] : e.number = g.number \/ e.part = g.part => e = g
      BY <1>2, <1>3, <1>4, <1>5 DEF Entries
    <2>2. HasGreatest(entries'[c])
      <3>1. \A e \in entries'[c] : e.number <= new.number
        BY <1>2, <1>3, <1>5 DEF Entries
      <3> QED
        BY <1>5, <3>1 DEF HasGreatest
    <2>3. /\ pc'[c] \notin Ended
          /\ \A part \in Tabled : input[c][part] # {} => part \in todo'[c] \/ Published(c, part)'
      BY <1>1, <1>5, <1>7 DEF Entries, Ended
    <2> QED
      BY <1>1, <1>5, <2>1, <2>2, <2>3 DEF Entries, Published
  <1>9. Locks'
    <2>1. \A part \in Tabled : \A row \in deleted[c] : row.name \in NamesIn(part) =>
            Published(c, part)'
      BY <1>7 DEF Locks
    <2>2. seen[c] = {}
      BY <1>1 DEF Locks
    <2> QED
      BY <1>1, <1>5, <2>1, <2>2 DEF Locks, Published, Current
  <1>10. Whole'
    <2>1. \A w \in Calls : pc[w] = "done" <=> pc'[w] = "done"
      BY <1>1, <1>5
    <2> QED
      BY <1>1, <1>5, <2>1 DEF Whole, WholeIn, Taking
  <1>11. Overtakes'
    <2>1. ASSUME NEW d \in Calls, NEW part \in Tabled, NEW row \in deleted[d],
                 NEW e \in entries'[d], NEW v \in versions,
                 row.name \in NamesIn(part), e.part = part, v.part = part, v.by = row.by
          PROVE  v.number < e.number
      <3>1. CASE d = c /\ e = new
        BY <1>1, <1>3, <2>1, <3>1 DEF Numbers, n
      <3>2. CASE e \in entries[d]
        BY <2>1, <3>2 DEF Overtakes
      <3> QED
        BY <1>5, <3>1, <3>2
    <2> QED
      BY <1>1, <1>5, <2>1 DEF Overtakes
  <1>12. ConfigInOrder'
    <2>1. HoldsConfig(c)' => HoldsConfig(c)
      BY <1>1, <1>3, <1>5 DEF HoldsConfig
    <2>2. \A d \in Calls \ {c} : HoldsConfig(d)' <=> HoldsConfig(d)
      BY <1>5 DEF HoldsConfig, Current
    <2>3. ASSUME NEW d \in Calls, NEW e \in entries'[d], NEW v \in versions,
                 e.part = "config", v.part = "config"
          PROVE  v.number < e.number
      <3>1. CASE d = c /\ e = new
        BY <1>1, <1>3, <2>3, <3>1 DEF Numbers, n
      <3>2. CASE e \in entries[d]
        BY <2>3, <3>2 DEF ConfigInOrder
      <3> QED
        BY <1>5, <3>1, <3>2
    <2> QED
      BY <1>5, <2>1, <2>2, <2>3 DEF ConfigInOrder
  <1>13. Numbers'
    <2>1. \A m : NumberTaken(m)' <=> NumberTaken(m)
      BY <1>5 DEF NumberTaken
    <2>2. \A d \in Calls : \A m : NumberHeld(d, m)' => NumberHeld(d, m) \/ (d = c /\ m = n)
      BY <1>3, <1>5 DEF NumberHeld
    <2>3. ASSUME NEW d \in Calls, NEW e \in entries'[d]
          PROVE  ~NumberTaken(e.number) /\ \A x \in Calls \ {d} : ~NumberHeld(x, e.number)'
      <3>1. CASE d = c /\ e = new
        BY <1>1, <1>3, <2>2, <3>1
      <3>2. CASE e \in entries[d]
        <4>1. d # c => e.number # n
          BY <1>1, <3>2 DEF NumberHeld
        <4> QED
          BY <2>2, <3>2, <4>1 DEF Numbers
      <3> QED
        BY <1>5, <3>1, <3>2
    <2>4. \A d \in Calls \ {c} : Current(d)' = Current(d)
      BY <1>5 DEF Current
    <2>5. pc'[c] # "version"
      BY <1>5
    <2> QED
      BY <1>1, <1>5, <2>1, <2>3, <2>4, <2>5 DEF Numbers
  <1>14. Users'
    <2>1. /\ Published(c, "targets")' => written[c] = input[c].targets
          /\ pc'[c] # "version" /\ pc'[c] \notin Ended
      BY <1>1, <1>5, <1>7 DEF Users, Ended
    <2>2. \A d \in Calls \ {c} : /\ Published(d, "targets")' <=> Published(d, "targets")
                                 /\ Current(d)' = Current(d)
      BY <1>5 DEF Published, Current
    <2>3. \A d \in Calls : \A user \in written'[d] :
            /\ user \in input'[d].targets /\ ~UserTaken(d, user)'
            /\ \A x \in Calls \ {d} : ~UserHeld(x, user)'
      <3>1. ASSUME NEW d \in Calls, NEW user \in written[d]
            PROVE  /\ user \in input[d].targets /\ ~UserTaken(d, user)'
                   /\ \A x \in Calls \ {d} : ~UserHeld(x, user)'
        <4>1. /\ user \in input[d].targets /\ ~UserTaken(d, user)
              /\ \A x \in Calls \ {d} : ~UserHeld(x, user)
          BY DEF Users
        <4> QED
          BY <1>1, <1>5, <4>1 DEF UserTaken, UserHeld
      <3> QED
        BY <1>1, <3>1
    <2>4. ASSUME NEW d \in Calls \ {c}
          PROVE  /\ Published(d, "targets")' \/ (pc'[d] = "version" /\ Current(d)' = "targets") =>
                      written'[d] = input'[d].targets
                 /\ pc'[d] \in Ended => written'[d] = {}
      BY <1>1, <1>5, <2>2 DEF Users
    <2>5. Published(c, "targets")' => written'[c] = input'[c].targets
      BY <1>1, <2>1
    <2> HIDE DEF IInv
    <2> QED
      BY <2>1, <2>3, <2>4, <2>5 DEF Users
  <1> QED
    BY <1>1, <1>6, <1>8, <1>9, <1>10, <1>11, <1>12, <1>13, <1>14, TablesKeep DEF Step, Continue

(* A transaction that is aborted gives up its locks, its keys and its numbers. *)
LEMMA LeaveKeeps ==
  ASSUME IInv, NEW c \in Calls, Leave(c)
  PROVE  IInv'
  <1> USE DEF IInv
  <1>1. Release(c, "failed") /\ UNCHANGED tables /\ pc[c] \notin {"idle", "done", "failed"}
    BY LeaveEffect DEF Ended
  <1>2. /\ Alone(c) /\ input' = input /\ pc'[c] = "failed"
        /\ todo'[c] = {} /\ seen'[c] = {} /\ deleted'[c] = {} /\ entries'[c] = {}
        /\ written'[c] = {} /\ number'[c] = 0
    BY <1>1, ReleaseEffect
  <1>3. rules' = rules /\ targets' = targets /\ versions' = versions
    BY <1>1 DEF tables
  <1>4. TypeOK'
    BY <1>1, <1>2 DEF TypeOK, tables, Release
  <1>5. Entries'
    BY <1>2 DEF Alone, Entries, Published, Ended
  <1>6. Locks'
    BY <1>2, <1>3 DEF Alone, Locks, Published, Current
  <1>7. Whole'
    <2>1. \A w \in Calls : pc[w] = "done" <=> pc'[w] = "done"
      BY <1>1, <1>2 DEF Alone
    <2> QED
      BY <1>2, <1>3, <2>1 DEF Alone, Whole, WholeIn, Taking
  <1>8. Overtakes' /\ ConfigInOrder'
    BY <1>2, <1>3 DEF Alone, Overtakes, ConfigInOrder, HoldsConfig, Current
  <1>9. Numbers'
    BY <1>2, <1>3 DEF Alone, Numbers, NumberTaken, NumberHeld, Current
  <1>10. Users'
    BY <1>2, <1>3 DEF Alone, Users, UserTaken, UserHeld, Published, Current, Ended
  <1>11. Step(c) /\ UNCHANGED tables
    BY <1>1 DEF Step, Continue, Leave
  <1> QED
    BY <1>4, <1>5, <1>6, <1>7, <1>8, <1>9, <1>10, <1>11, TablesKeep

(* The commit puts the rows and versions of one transaction in place. Whoever   *)
(* the history then names last is this transaction, or one whose rows it has *)
(* not deleted.                                                              *)
LEMMA CommitKeeps ==
  ASSUME IInv, NEW c \in Calls, Commit(c)
  PROVE  IInv'
  <1> USE DEF IInv
  <1> DEFINE D == deleted[c]
             E == entries[c]
             OwnRules == RowsBy(c, input[c].rules)
             OwnTargets == RowsBy(c, written[c])
  <1>1. /\ pc[c] = "commit" /\ Release(c, "done")
        /\ config' = IF Published(c, "config") THEN c ELSE config
        /\ rules' = (rules \ D) \cup OwnRules /\ targets' = (targets \ D) \cup OwnTargets
        /\ versions' = versions \cup E
    BY DEF Commit, TargetsLeft
  <1>2. /\ Alone(c) /\ input' = input /\ pc'[c] = "done" /\ todo[c] = {}
        /\ todo'[c] = {} /\ seen'[c] = {} /\ deleted'[c] = {} /\ entries'[c] = {}
        /\ written'[c] = {} /\ number'[c] = 0
    BY <1>1, ReleaseEffect DEF TypeOK
  <1>3. /\ \A row : row \in OwnRules <=> \E m \in input[c].rules : row = [by |-> c, name |-> m]
        /\ \A row : row \in OwnTargets <=> \E m \in written[c] : row = [by |-> c, name |-> m]
        /\ OwnRules \subseteq Row /\ OwnTargets \subseteq Row
        /\ input[c].rules \subseteq UNION RuleSets /\ input[c].targets \subseteq UNION TargetSets
        /\ written[c] \subseteq UNION TargetSets
    <2>1. /\ input[c].rules \in RuleSets \cup {{}} /\ input[c].targets \in TargetSets \cup {{}}
          /\ written[c] \subseteq UNION TargetSets
      BY DEF TypeOK
    <2> QED
      BY <2>1 DEF RowsBy, Row, Writers
  <1> HIDE DEF OwnRules, OwnTargets
  <1>4. \A part \in Tabled :
          /\ input[c][part] # {} => Published(c, part)
          /\ \A row \in D : row.name \in NamesIn(part) => Published(c, part)
    BY <1>1, <1>2 DEF Entries, Ended, Locks
  <1>5. /\ \A row \in rules \cup targets : row.by # c
        /\ \A d \in Calls : \A row \in seen[d] \cup deleted[d] : row.by # c
    BY <1>1, RowsAreOfDone
  <1>5a. written[c] = input[c].targets
    <2>1. CASE Published(c, "targets")
      BY <2>1 DEF Users
    <2>2. CASE ~Published(c, "targets")
      BY <1>4, <2>2 DEF Users, Tabled
    <2> QED
      BY <2>1, <2>2
  <1>6. TypeOK'
    <2>1. \A v \in versions' : v.number \in Nat /\ v.part \in Parts /\ v.by \in Writers
      BY <1>1 DEF TypeOK, Entries, Writers
    <2>2. rules' \subseteq Row /\ targets' \subseteq Row /\ config' \in Writers
      BY <1>1, <1>3 DEF TypeOK, Writers
    <2> QED
      BY <1>1, <1>2, <2>1, <2>2 DEF TypeOK, Release
  <1>7. History'
    <2>1. \A v, w \in versions' : v.number = w.number => v = w
      BY <1>1 DEF History, Entries, Numbers, NumberTaken
    <2>2. ASSUME NEW part \in Parts
          PROVE  HasGreatest({v \in versions' : v.part = part})
      <3> DEFINE S == {v \in versions : v.part = part}
                 T == {e \in E : e.part = part}
      <3>1. \A e \in S \cup T : e.number \in Nat
        BY DEF TypeOK, Entries
      <3>2. HasGreatest(S)
        BY DEF History
      <3>3. T = {} \/ HasGreatest(T)
        <4>1. \A e, g \in T : e = g /\ e.number \in Nat
          BY DEF Entries
        <4> QED
          BY <4>1 DEF HasGreatest
      <3>4. {v \in versions' : v.part = part} = S \cup T
        BY <1>1
      <3> HIDE DEF S, T
      <3> QED
        BY <3>1, <3>2, <3>3, <3>4, GreatestOfBoth
    <2>3. HasGreatest(versions')
      <3>1. \A e \in versions \cup E : e.number \in Nat
        BY DEF TypeOK, Entries
      <3> QED
        BY <1>1, <3>1, GreatestOfBoth DEF History, Entries
    <2>4. \A v \in versions' : v.by \in Calls => pc'[v.by] = "done"
      BY <1>1, <1>2 DEF History, Entries, Alone
    <2> QED
      BY <2>1, <2>2, <2>3, <2>4 DEF History
  <1>8. Entries'
    BY <1>2 DEF Alone, Entries, Published, Ended
  <1>9. RowsOfCalls'
    <2>1. \A row \in rules' : row.name \in NamesIn("rules") /\
            (row.by \in Calls => pc'[row.by] = "done" /\ row.name \in input[row.by].rules)
      BY <1>1, <1>2, <1>3 DEF RowsOfCalls, Tabled, Table, NamesIn, Alone
    <2>2. \A row \in targets' : row.name \in NamesIn("targets") /\
            (row.by \in Calls => pc'[row.by] = "done" /\ row.name \in input[row.by].targets)
      BY <1>1, <1>2, <1>3, <1>5a DEF RowsOfCalls, Tabled, Table, NamesIn, Alone
    <2> QED
      BY <1>2, <2>1, <2>2 DEF RowsOfCalls, Tabled, Table
  <1>10. Locks'
    <2>1. \A d \in Calls \ {c} : deleted[d] \subseteq rules' \cup targets'
      BY <1>1 DEF Locks
    <2> QED
      BY <1>2, <2>1 DEF Alone, Locks, Published, Current
  <1>11. Whole'
    <2>1. seen[c] = {}
      BY <1>1 DEF Locks
    <2>2. \A w \in Calls : WholeIn(D, w)
      BY <2>1 DEF Whole, Taking
    <2>3. \A w \in Calls \ {c} : WholeIn(rules', w)
      BY <1>1, <1>3, <2>2 DEF Whole, WholeIn
    <2>4. WholeIn(rules', c)
      BY <1>1, <1>3 DEF WholeIn
    <2>5. \A w \in Calls : pc[w] = "done" => pc'[w] = "done"
      BY <1>2 DEF Alone
    <2>6. Taking(c)' = {}
      BY <1>2 DEF Taking
    <2>7. ASSUME NEW d \in Calls \ {c}, NEW w \in Calls
          PROVE  WholeIn(Taking(d)', w)
      <3>1. /\ Taking(d)' = deleted[d] \cup (seen[d] \cap ((rules \ D) \cup OwnRules))
            /\ \A row \in Taking(d)' : row.by # c
            /\ deleted[d] \cap D = {}
        BY <1>1, <1>2, <1>3, <1>5 DEF Alone, Taking, Locks
      <3>2. \A row : row \in Taking(d)' <=> row \in Taking(d) /\ row \notin D
        BY <1>3, <1>5, <3>1 DEF Taking
      <3> QED
        BY <2>2, <3>2 DEF Whole, WholeIn
    <2> QED
      BY <1>2, <2>3, <2>4, <2>5, <2>6, <2>7 DEF Alone, Whole, WholeIn
  <1>12. Overtakes'
    BY <1>1, <1>2, <1>5 DEF Alone, Overtakes, Entries
  <1>13. ConfigInOrder'
    <2>1. \A d \in Calls \ {c} : HoldsConfig(d)' <=> HoldsConfig(d)
      BY <1>2 DEF Alone, HoldsConfig, Current
    <2>2. ~HoldsConfig(c)'
      BY <1>2 DEF HoldsConfig
    <2>3. ASSUME NEW d \in Calls \ {c}, NEW e \in entries[d], NEW v \in versions',
                 e.part = "config", v.part = "config"
          PROVE  v.number < e.number
      <3>1. v \notin E
        BY <2>3 DEF ConfigInOrder, HoldsConfig
      <3> QED
        BY <1>1, <2>3, <3>1 DEF ConfigInOrder
    <2> QED
      BY <1>2, <2>1, <2>2, <2>3 DEF Alone, ConfigInOrder
  <1>14. ASSUME NEW part \in Parts
         PROVE  \E x \in versions' : /\ x.part = part /\ Latest(part)' = x.by
                                     /\ \A w \in versions' : w.part = part => w.number <= x.number
    <2>1. PICK x \in {v \in versions' : v.part = part} :
            \A w \in {v \in versions' : v.part = part} : w.number <= x.number
      BY <1>7 DEF History, HasGreatest
    <2>2. /\ \A v \in versions' : v.number \in Nat
          /\ \A v, w \in versions' : v.number = w.number => v = w
      BY <1>6, <1>7 DEF TypeOK, History
    <2>3. (CHOOSE v \in {u \in versions' : u.part = part} :
             \A w \in {u \in versions' : u.part = part} : w.number <= v.number) = x
      BY <2>1, <2>2, LatestOne
    <2>4. Latest(part)' = x.by
      BY Zenon, <2>3 DEF Latest
    <2> QED
      BY <2>1, <2>4
  <1>15. ConfigMatchesHistory'
    <2>1. "config" \in Parts
      BY DEF Parts
    <2>2. PICK x \in versions' : /\ x.part = "config" /\ Latest("config")' = x.by
                                 /\ \A w \in versions' : w.part = "config" => w.number <= x.number
      BY <1>14, <2>1
    <2>3. CASE Published(c, "config")
      <3>1. PICK e \in E : e.part = "config"
        BY <2>3 DEF Published
      <3>2. e.number <= x.number /\ e.number \in Nat
        BY <1>1, <2>2, <3>1 DEF Entries
      <3>3. x \notin versions
        BY <2>2, <3>1, <3>2 DEF ConfigInOrder, TypeOK
      <3> QED
        BY <1>1, <2>2, <2>3, <3>3 DEF ConfigMatchesHistory, Entries
    <2>4. CASE ~Published(c, "config")
      <3>1. {v \in versions' : v.part = "config"} = {v \in versions : v.part = "config"}
        BY <1>1, <2>4 DEF Published
      <3>2. Latest("config")' = Latest("config")
        BY Zenon, <3>1 DEF Latest
      <3> QED
        BY <1>1, <2>4, <3>2 DEF ConfigMatchesHistory
    <2> QED
      BY <2>3, <2>4
  <1>16. LatestInForce'
    <2>1. ASSUME NEW part \in Tabled, NEW w \in Calls, w = Latest(part)', w # c
          PROVE  Latest(part) = w /\ \A row \in Table(part) : row.by = w => row \notin D
      <3>1. PICK x \in versions' : /\ x.part = part /\ w = x.by
                                   /\ \A v \in versions' : v.part = part => v.number <= x.number
        BY <1>14, <2>1 DEF Tabled, Parts
      <3>2. x \in versions
        BY <1>1, <2>1, <3>1 DEF Entries
      <3>3. \A v, y \in versions : v.number \in Nat /\ (v.number = y.number => v = y)
        BY DEF TypeOK, History
      <3>4. (CHOOSE v \in {u \in versions : u.part = part} :
               \A y \in {u \in versions : u.part = part} : y.number <= v.number) = x
        BY <1>1, <3>1, <3>2, <3>3, LatestOne
      <3>5. Latest(part) = w
        BY Zenon, <3>1, <3>4 DEF Latest
      <3>6. ASSUME NEW row \in Table(part), row.by = w, row \in D
            PROVE  FALSE
        <4>1. row.name \in NamesIn(part)
          BY DEF RowsOfCalls
        <4>2. PICK e \in E : e.part = part
          BY <1>4, <3>6, <4>1 DEF Published
        <4>3. x.number < e.number
          BY <3>1, <3>2, <3>6, <4>1, <4>2 DEF Overtakes
        <4>4. e.number <= x.number /\ e.number \in Nat /\ x.number \in Nat
          BY <1>1, <3>1, <3>2, <3>3, <4>2 DEF Entries
        <4> QED
          BY <4>3, <4>4
      <3> QED
        BY <3>5, <3>6
    <2>2. NamesOf(c, rules') = input[c].rules /\ NamesOf(c, targets') = input[c].targets
      <3>1. {r \in rules' : r.by = c} = OwnRules /\ {r \in targets' : r.by = c} = OwnTargets
        BY <1>1, <1>3, <1>5
      <3>2. /\ NamesOf(c, rules') = {row.name : row \in OwnRules}
            /\ NamesOf(c, targets') = {row.name : row \in OwnTargets}
        BY <3>1 DEF NamesOf
      <3> QED
        BY <1>5a, <3>2, NamesOfRows DEF OwnRules, OwnTargets
    <2>3. ASSUME NEW w \in Calls, w = Latest("rules")'
          PROVE  NamesOf(w, rules') = input[w].rules
      <3>1. CASE w # c
        <4>1. Latest("rules") = w /\ \A row \in rules : row.by = w => row \notin D
          BY <2>1, <2>3, <3>1 DEF Tabled, Table
        <4>2. {r \in rules' : r.by = w} = {r \in rules : r.by = w}
          BY <1>1, <1>3, <3>1, <4>1
        <4> QED
          BY <4>1, <4>2 DEF NamesOf, LatestInForce
      <3> QED
        BY <2>2, <3>1
    <2>4. ASSUME NEW w \in Calls, w = Latest("targets")'
          PROVE  NamesOf(w, targets') = input[w].targets
      <3>1. CASE w # c
        <4>1. Latest("targets") = w /\ \A row \in targets : row.by = w => row \notin D
          BY <2>1, <2>4, <3>1 DEF Tabled, Table
        <4>2. {r \in targets' : r.by = w} = {r \in targets : r.by = w}
          BY <1>1, <1>3, <3>1, <4>1
        <4> QED
          BY <4>1, <4>2 DEF NamesOf, LatestInForce
      <3> QED
        BY <2>2, <3>1
    <2> QED
      BY <1>2, <2>3, <2>4 DEF LatestInForce, NamesOf
  <1>17. OneTargetPerUser'
    <2>1. \A r \in OwnTargets : \A s \in targets \ D : r.name # s.name
      BY <1>3 DEF Users, UserTaken
    <2>2. \A r, s \in OwnTargets : r.name = s.name => r = s
      BY <1>3
    <2> QED
      BY <1>1, <2>1, <2>2 DEF OneTargetPerUser
  <1>18. Numbers'
    <2>1. ASSUME NEW d \in Calls \ {c}, NEW e \in entries[d]
          PROVE  ~NumberTaken(e.number)' /\ \A x \in Calls \ {d} : ~NumberHeld(x, e.number)'
      <3>1. ~NumberTaken(e.number) /\ ~NumberHeld(c, e.number)
        BY DEF Numbers
      <3>2. ~NumberTaken(e.number)'
        BY <1>1, <3>1 DEF NumberTaken, NumberHeld
      <3>3. \A x \in Calls : NumberHeld(x, e.number)' => NumberHeld(x, e.number)
        BY <1>2 DEF Alone, NumberHeld
      <3> QED
        BY <3>2, <3>3 DEF Numbers
    <2>2. ASSUME NEW d \in Calls \ {c}, pc[d] = "version", NEW row \in deleted[d],
                 NEW v \in versions', v.by = row.by
          PROVE  v.number < number[d]
      <3>1. v \in versions
        BY <1>1, <1>5, <2>2 DEF Entries
      <3> QED
        BY <2>2, <3>1 DEF Numbers
    <2>3. ASSUME NEW d \in Calls \ {c}, pc[d] = "version", Current(d) = "config",
                 NEW v \in versions', v.part = "config"
          PROVE  v.number < number[d]
      <3>1. HoldsConfig(d)
        BY <2>3 DEF HoldsConfig
      <3>2. v \notin E
        BY <2>3, <3>1 DEF ConfigInOrder, HoldsConfig
      <3> QED
        BY <1>1, <2>3, <3>2 DEF Numbers
    <2>4. \A d \in Calls \ {c} : /\ pc'[d] = pc[d] /\ deleted'[d] = deleted[d] /\ number'[d] = number[d]
                                 /\ entries'[d] = entries[d] /\ Current(d)' = Current(d)
      BY <1>2 DEF Alone, Current
    <2>5. \A d \in Calls \ {c} : pc[d] = "version" => \A e \in entries[d] : e.number < number[d]
      BY DEF Numbers
    <2>6. pc'[c] # "version" /\ entries'[c] = {}
      BY <1>2
    <2> QED
      BY <2>1, <2>2, <2>3, <2>4, <2>5, <2>6 DEF Numbers
  <1>19. Users'
    <2>1. ASSUME NEW d \in Calls \ {c}, NEW user \in written[d]
          PROVE  /\ user \in input[d].targets /\ ~UserTaken(d, user)'
                 /\ \A x \in Calls \ {d} : ~UserHeld(x, user)'
      <3>1. /\ user \in input[d].targets /\ ~UserTaken(d, user)
            /\ \A x \in Calls \ {d} : ~UserHeld(x, user)
        BY DEF Users
      <3>2. user \notin written[c]
        BY <3>1 DEF UserHeld
      <3>3. ~UserTaken(d, user)'
        BY <1>1, <1>2, <1>3, <3>1, <3>2 DEF UserTaken, Alone
      <3>4. ASSUME NEW x \in Calls \ {d}, UserHeld(x, user)'  PROVE FALSE
        <4>1. x # c
          BY <1>2, <3>4 DEF UserHeld
        <4>2. \A row \in deleted[x] : row \notin OwnTargets
          BY <1>3, <1>5
        <4>3. UserHeld(x, user)
          BY <1>1, <1>2, <3>4, <4>1, <4>2 DEF Alone, UserHeld
        <4> QED
          BY <3>1, <4>3
      <3> QED
        BY <3>1, <3>3, <3>4
    <2>2. \A d \in Calls \ {c} : /\ pc'[d] = pc[d] /\ written'[d] = written[d]
                                 /\ Published(d, "targets")' = Published(d, "targets")
                                 /\ Current(d)' = Current(d)
      BY <1>2 DEF Alone, Current, Published
    <2>3. ~Published(c, "targets")'
      BY <1>2 DEF Published
    <2>4. /\ \A d \in Calls \ {c} : pc[d] \in Ended => written[d] = {}
          /\ \A d \in Calls \ {c} :
               Published(d, "targets") \/ (pc[d] = "version" /\ Current(d) = "targets") =>
                 written[d] = input[d].targets
      BY DEF Users
    <2> QED
      BY <1>2, <2>1, <2>2, <2>3, <2>4 DEF Users
  <1> QED
    BY <1>6, <1>7, <1>8, <1>9, <1>10, <1>11, <1>12, <1>13, <1>15, <1>16, <1>17, <1>18, <1>19

(* Every step preserves the invariant.                                      *)
LEMMA NextKeeps == IInv /\ [Next]_vars => IInv'
  <1> SUFFICES ASSUME IInv, [Next]_vars  PROVE IInv'
    OBVIOUS
  <1>1. CASE \E c \in Calls : Begin(c) \/ Continue(c) \/ Rollback(c)
    BY <1>1, BeginKeeps, UpdateConfigKeeps, ScanRowsKeeps, DeleteRowKeeps, InsertTargetKeeps,
      ReadNumberKeeps, InsertVersionKeeps, CommitKeeps, LeaveKeeps DEF Continue, Leave
  <1>2. CASE UNCHANGED vars
    <2> USE <1>2 DEF vars, IInv
    <2>1. TypeOK' /\ History'
      BY DEF TypeOK, History
    <2>2. Entries' /\ RowsOfCalls' /\ Locks'
      BY DEF Entries, RowsOfCalls, Locks, Table, Published, Current
    <2>3. Whole' /\ Overtakes' /\ ConfigInOrder'
      BY DEF Whole, WholeIn, Taking, Overtakes, ConfigInOrder, HoldsConfig, Current
    <2>5. Numbers' /\ Users'
      BY DEF Numbers, NumberTaken, NumberHeld, Users, UserTaken, UserHeld, Published, Current
    <2>4. ConfigMatchesHistory' /\ LatestInForce' /\ OneTargetPerUser'
      <3>1. /\ Latest("config")' = Latest("config") /\ Latest("rules")' = Latest("rules")
            /\ Latest("targets")' = Latest("targets")
        BY DEF Latest
      <3> QED
        BY <3>1 DEF ConfigMatchesHistory, LatestInForce, OneTargetPerUser, NamesOf
    <2> QED
      BY <2>1, <2>2, <2>3, <2>4, <2>5
  <1> QED
    BY <1>1, <1>2 DEF Next

(* The invariant holds in every state.                                      *)
LEMMA Inductive == Spec => []IInv
  BY InitHolds, NextKeeps, PTL DEF Spec

--------------------------------------------------------------------------------
(* The theorems *)

(* However many publishes of a configuration race, the stored one is the one   *)
(* its latest history entry describes: its row's lock orders the numbers.    *)
THEOREM ConfigIsTheLatest == Spec => []ConfigMatchesHistory
  <1>1. IInv => ConfigMatchesHistory
    BY DEF IInv
  <1> QED
    BY <1>1, Inductive, PTL

(* The rules and targets of the latest history entry are in force, a rule set  *)
(* is there whole or not at all, and no user has two targets, whatever       *)
(* replacements race and abort.                                              *)
THEOREM RowsAreInForce == Spec => []RowsInForce
  <1>1. ASSUME IInv  PROVE WholeRuleSets
    <2> SUFFICES ASSUME NEW c \in Calls
                 PROVE  NamesOf(c, rules) \in {{}, input[c].rules}
      BY DEF WholeRuleSets
    <2>1. \A row \in rules : row.by = c => row.name \in input[c].rules /\ row = [by |-> c, name |-> row.name]
      BY <1>1 DEF IInv, RowsOfCalls, Tabled, Table, TypeOK, Row
    <2>2. \A m, n \in input[c].rules :
            [by |-> c, name |-> m] \in rules => [by |-> c, name |-> n] \in rules
      BY <1>1 DEF IInv, Whole, WholeIn
    <2>3. \A n \in NamesOf(c, rules) : n \in input[c].rules /\ [by |-> c, name |-> n] \in rules
      BY <2>1 DEF NamesOf
    <2>4. \A n : [by |-> c, name |-> n] \in rules => n \in NamesOf(c, rules)
      BY DEF NamesOf
    <2> QED
      BY <2>2, <2>3, <2>4
  <1>2. IInv => RowsInForce
    BY <1>1 DEF IInv, RowsInForce
  <1> QED
    BY <1>2, Inductive, PTL
================================================================================
