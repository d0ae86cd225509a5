------------------------------- MODULE Publishing -------------------------------
(***************************************************************************)
(* What happens inside the publish transactions of one flag in one          *)
(* environment, statement by statement, at READ COMMITTED: a DELETE sees    *)
(* the rows committed when it starts, locks them one by one, waits for the  *)
(* locks of other transactions, and never sees rows committed while it      *)
(* waited. An INSERT waits for a transaction that holds its key of a unique *)
(* index and has not ended; PostgreSQL aborts one of a circle of waits.     *)
(*                                                                          *)
(* The variables config, rules, targets and versions are committed rows;    *)
(* what a transaction has deleted or written so far is its own.             *)
(*                                                                          *)
(* A definition whose name ends in _Mutant is the definition after it with  *)
(* one plausible bug; no action uses it.                                    *)
(***************************************************************************)
EXTENDS Integers, FiniteSets

CONSTANTS
  Calls,       (* Publish transactions; bounds how many run.                *)
  Seed,        (* Whoever published the state the calls start from.         *)
  Payloads,    (* The sets of parts one transaction publishes.              *)
  RuleSets,    (* The rule sets a publish may carry, as sets of names.      *)
  TargetSets   (* The target lists a publish may carry, as sets of users.   *)

Parts == {"config", "rules", "targets"}
Writers == Calls \cup {Seed}

ASSUME SeedIsNoCall == Seed \notin Calls
ASSUME PayloadsPublish == Payloads \subseteq (SUBSET Parts) \ {{}}
(* Rules and targets are rows of two tables; here their names tell them apart. *)
ASSUME TablesDiffer == (UNION RuleSets) \cap (UNION TargetSets) = {}

VARIABLES
  pc,         (* pc[c]: the statement call c's transaction runs next.       *)
  todo,       (* todo[c]: the parts it has not published yet.               *)
  input,      (* input[c]: the rule names and target users it publishes.    *)
  seen,       (* seen[c]: the rows its DELETE found and has yet to visit.   *)
  deleted,    (* deleted[c]: the committed rows it has deleted and locked.  *)
  written,    (* written[c]: the users whose targets it has inserted.       *)
  number,     (* number[c]: the version number it has read.                 *)
  entries,    (* entries[c]: the versions it has inserted.                  *)
  config,     (* Who wrote the flag_environment_config row last.            *)
  rules,      (* The targeting_rule rows.                                   *)
  targets,    (* The flag_individual_target rows.                           *)
  versions    (* The flag_versions rows.                                    *)

private == <<pc, todo, input, seen, deleted, written, number, entries>>
tables == <<config, rules, targets, versions>>
vars == <<pc, todo, input, seen, deleted, written, number, entries,
          config, rules, targets, versions>>

RowsBy(w, names) == {[by |-> w, name |-> n] : n \in names}
Entry(n, part, w) == [number |-> n, part |-> part, by |-> w]

(* Each part has been published once, by Seed.                               *)
Init ==
  /\ pc = [c \in Calls |-> "idle"]
  /\ todo = [c \in Calls |-> {}]
  /\ input = [c \in Calls |-> [rules |-> {}, targets |-> {}]]
  /\ seen = [c \in Calls |-> {}]
  /\ deleted = [c \in Calls |-> {}]
  /\ written = [c \in Calls |-> {}]
  /\ number = [c \in Calls |-> 0]
  /\ entries = [c \in Calls |-> {}]
  /\ config = Seed
  /\ \E names \in RuleSets : rules = RowsBy(Seed, names)
  /\ \E users \in TargetSets : targets = RowsBy(Seed, users)
  /\ versions = {Entry(1, "config", Seed), Entry(2, "rules", Seed),
                 Entry(3, "targets", Seed)}

--------------------------------------------------------------------------------
(* Parts are published in the order config, rules, targets.                  *)
Current(c) ==
  IF "config" \in todo[c] THEN "config"
  ELSE IF "rules" \in todo[c] THEN "rules" ELSE "targets"

RowLocked(c, row) == \E d \in Calls \ {c} : row \in deleted[d]

(* From its UPDATE on a transaction holds the lock of the config row.        *)
HoldsConfig(c) ==
  \/ \E e \in entries[c] : e.part = "config"
  \/ pc[c] \in {"rows", "version"} /\ Current(c) = "config"
ConfigLocked(c) == \E d \in Calls \ {c} : HoldsConfig(d)

(* The unique indexes on (flag, environment, user) and (flag, environment,   *)
(* version): a key is taken by a committed row, and held by a transaction    *)
(* that has deleted its row or inserted one and has not ended.               *)
UserTaken(c, user) == \E row \in targets \ deleted[c] : row.name = user
UserHeld(d, user) ==
  user \in written[d] \/ \E row \in deleted[d] \cap targets : row.name = user
NumberTaken(n) == \E v \in versions : v.number = n
NumberHeld(d, n) == \E e \in entries[d] : e.number = n

MaxNumber(S) == CHOOSE n \in {e.number : e \in S} : \A e \in S : e.number <= n

Begin(c) ==
  /\ pc[c] = "idle"
  /\ \E parts \in Payloads :
       /\ todo' = [todo EXCEPT ![c] = parts]
       /\ \E names \in (IF "rules" \in parts THEN RuleSets ELSE {{}}),
            users \in (IF "targets" \in parts THEN TargetSets ELSE {{}}) :
            input' = [input EXCEPT ![c] = [rules |-> names, targets |-> users]]
  /\ pc' = [pc EXCEPT ![c] = "write"]
  /\ UNCHANGED <<seen, deleted, written, number, entries, tables>>

UpdateConfig_Mutant(c) ==  \* the row is written outside the transaction
  /\ pc[c] = "write" /\ Current(c) = "config"
  /\ ~ConfigLocked(c)
  /\ config' = c
  /\ pc' = [pc EXCEPT ![c] = "rows"]
  /\ UNCHANGED <<todo, input, seen, deleted, written, number, entries,
                 rules, targets, versions>>

(* updateConfig: one UPDATE, which takes the lock of the config row.         *)
UpdateConfig(c) ==
  /\ pc[c] = "write" /\ Current(c) = "config"
  /\ ~ConfigLocked(c)
  /\ pc' = [pc EXCEPT ![c] = "rows"]
  /\ UNCHANGED <<todo, input, seen, deleted, written, number, entries, tables>>

(* replaceRules, replaceTargets: the DELETE starts on the committed rows ... *)
ScanRows(c) ==
  /\ pc[c] = "write" /\ Current(c) # "config"
  /\ seen' = [seen EXCEPT ![c] = IF Current(c) = "rules" THEN rules ELSE targets]
  /\ pc' = [pc EXCEPT ![c] = "rows"]
  /\ UNCHANGED <<todo, input, deleted, written, number, entries, tables>>

(* ... and visits them in some order: it waits for the lock of a row and     *)
(* deletes the row if it is still there.                                     *)
DeleteRow(c) ==
  /\ pc[c] = "rows"
  /\ \E row \in seen[c] :
       /\ ~RowLocked(c, row)
       /\ seen' = [seen EXCEPT ![c] = @ \ {row}]
       /\ deleted' = [deleted EXCEPT ![c] = @ \cup ({row} \cap (rules \cup targets))]
  /\ UNCHANGED <<pc, todo, input, written, number, entries, tables>>

(* The INSERT of the targets takes a key of the index for each, in the order *)
(* the list has them; the rules' rows have no key but their own.             *)
ToInsert(c) == IF Current(c) = "targets" THEN input[c].targets \ written[c] ELSE {}

InsertTarget(c) ==
  /\ pc[c] = "rows" /\ seen[c] = {}
  /\ \E user \in ToInsert(c) :
       /\ \A d \in Calls \ {c} : ~UserHeld(d, user)
       /\ ~UserTaken(c, user)
       /\ written' = [written EXCEPT ![c] = @ \cup {user}]
  /\ UNCHANGED <<pc, todo, input, seen, deleted, number, entries, tables>>

(* nextVersion: one SELECT of the committed versions and the transaction's.  *)
ReadNumber(c) ==
  /\ pc[c] = "rows" /\ seen[c] = {} /\ ToInsert(c) = {}
  /\ number' = [number EXCEPT ![c] = MaxNumber(versions \cup entries[c]) + 1]
  /\ pc' = [pc EXCEPT ![c] = "version"]
  /\ UNCHANGED <<todo, input, seen, deleted, written, entries, tables>>

(* insertVersion with the number read, and on to the next part.              *)
InsertVersion(c) ==
  /\ pc[c] = "version"
  /\ \A d \in Calls \ {c} : ~NumberHeld(d, number[c])
  /\ ~NumberTaken(number[c])
  /\ entries' = [entries EXCEPT ![c] = @ \cup {Entry(number[c], Current(c), c)}]
  /\ todo' = [todo EXCEPT ![c] = @ \ {Current(c)}]
  /\ pc' = [pc EXCEPT ![c] = IF todo'[c] = {} THEN "commit" ELSE "write"]
  /\ UNCHANGED <<input, seen, deleted, written, number, tables>>

--------------------------------------------------------------------------------
(* The end of a transaction *)

Published(c, part) == \E e \in entries[c] : e.part = part
TargetsLeft(c) == targets \ deleted[c]

Release(c, label) ==
  /\ pc' = [pc EXCEPT ![c] = label]
  /\ deleted' = [deleted EXCEPT ![c] = {}]
  /\ entries' = [entries EXCEPT ![c] = {}]
  /\ seen' = [seen EXCEPT ![c] = {}]
  /\ todo' = [todo EXCEPT ![c] = {}]
  /\ written' = [written EXCEPT ![c] = {}]
  /\ number' = [number EXCEPT ![c] = 0]
  /\ UNCHANGED input

Commit_Mutant(c) ==  \* the DELETE is forgotten and the history kept
  /\ pc[c] = "commit"
  /\ config' = IF Published(c, "config") THEN c ELSE config
  /\ rules' = rules \ deleted[c]
  /\ targets' = TargetsLeft(c) \cup RowsBy(c, written[c])
  /\ versions' = versions \cup entries[c]
  /\ Release(c, "done")

Commit(c) ==
  /\ pc[c] = "commit"
  /\ config' = IF Published(c, "config") THEN c ELSE config
  /\ rules' = (rules \ deleted[c]) \cup RowsBy(c, input[c].rules)
  /\ targets' = TargetsLeft(c) \cup RowsBy(c, written[c])
  /\ versions' = versions \cup entries[c]
  /\ Release(c, "done")

(* A key that a committed row has, held by no transaction that could free it. *)
UserCollides(c) ==
  /\ pc[c] = "rows" /\ seen[c] = {}
  /\ \E user \in ToInsert(c) :
       UserTaken(c, user) /\ \A d \in Calls \ {c} : ~UserHeld(d, user)
NumberCollides(c) == pc[c] = "version" /\ NumberTaken(number[c])

Collide_Mutant(c) ==  \* the insert is tried again with the number it read
  /\ UserCollides(c) \/ NumberCollides(c)
  /\ UNCHANGED vars

(* A unique violation aborts the transaction.                                *)
Collide(c) ==
  /\ UserCollides(c) \/ NumberCollides(c)
  /\ Release(c, "failed")
  /\ UNCHANGED tables

(* The locks of other transactions that the statement c is at may wait for.  *)
Waits(c, d) ==
  /\ c # d
  /\ \/ pc[c] = "write" /\ Current(c) = "config" /\ HoldsConfig(d)
     \/ pc[c] = "rows" /\ \E row \in seen[c] : row \in deleted[d]
     \/ pc[c] = "rows" /\ seen[c] = {} /\ \E user \in ToInsert(c) : UserHeld(d, user)
     \/ pc[c] = "version" /\ NumberHeld(d, number[c])
WaitedFor(c) == {d \in Calls : Waits(c, d)}

(* Whoever c waits for, those they wait for and so on include c itself.      *)
InCircle(c) ==
  \A S \in SUBSET Calls :
    WaitedFor(c) \subseteq S /\ (\A d \in S : WaitedFor(d) \subseteq S) => c \in S

(* The deadlock detector of the database aborts a transaction of a circle.   *)
DetectDeadlock(c) ==
  /\ InCircle(c)
  /\ Release(c, "failed")
  /\ UNCHANGED tables

(* The connection or the process is lost before the commit.                  *)
Rollback(c) ==
  /\ pc[c] \notin {"idle", "done", "failed"}
  /\ Release(c, "failed")
  /\ UNCHANGED tables

Continue(c) ==
  \/ UpdateConfig(c) \/ ScanRows(c) \/ DeleteRow(c) \/ InsertTarget(c)
  \/ ReadNumber(c) \/ InsertVersion(c) \/ Commit(c) \/ Collide(c) \/ DetectDeadlock(c)

Next == \E c \in Calls : Begin(c) \/ Continue(c) \/ Rollback(c)

Spec == Init /\ [][Next]_vars

(* A transaction that has begun is run to its end by the server, or aborted  *)
(* by the detector when it waits in a circle.                                *)
FairSpec == Spec /\ \A c \in Calls : WF_vars(Continue(c))

--------------------------------------------------------------------------------
(* Properties *)

Row == [by : Writers, name : UNION (RuleSets \cup TargetSets)]

(* Every variable keeps its type, and a transaction writes as long as parts  *)
(* are left to publish.                                                      *)
TypeOK ==
  /\ pc \in [Calls -> {"idle", "write", "rows", "version", "commit", "done", "failed"}]
  /\ todo \in [Calls -> SUBSET Parts]
  /\ \A c \in Calls : pc[c] \in {"write", "rows", "version"} <=> todo[c] # {}
  /\ input \in [Calls -> [rules : RuleSets \cup {{}}, targets : TargetSets \cup {{}}]]
  /\ seen \in [Calls -> SUBSET Row] /\ deleted \in [Calls -> SUBSET Row]
  /\ written \in [Calls -> SUBSET UNION TargetSets] /\ number \in [Calls -> Nat]
  /\ config \in Writers
  /\ rules \subseteq Row /\ targets \subseteq Row
  /\ \A v \in versions : v.number \in Nat /\ v.part \in Parts /\ v.by \in Writers

(* The publisher the history names last for a part.                          *)
Latest(part) ==
  LET of == {v \in versions : v.part = part}
  IN  (CHOOSE v \in of : \A w \in of : w.number <= v.number).by
NamesOf(w, S) == {row.name : row \in {r \in S : r.by = w}}

(* The stored configuration is the one its latest history entry describes:   *)
(* racing publishes commit in the order their versions are numbered.         *)
ConfigMatchesHistory == config = Latest("config")

(* The rules and targets of the latest history entry are all in force; no    *)
(* earlier publish that commits late takes one of them away.                 *)
LatestInForce ==
  /\ Latest("rules") \in Calls => NamesOf(Latest("rules"), rules) = input[Latest("rules")].rules
  /\ Latest("targets") \in Calls =>
       NamesOf(Latest("targets"), targets) = input[Latest("targets")].targets

(* A published rule set is in force as a whole or not at all, whatever other *)
(* publishes replace it.                                                     *)
WholeRuleSets ==
  \A c \in Calls : NamesOf(c, rules) \in {{}, input[c].rules}

(* No user has two individual targets.                                       *)
OneTargetPerUser == \A r, s \in targets : r.name = s.name => r = s

(* All of it, of well-typed rows: what is in force of the rules and targets.  *)
RowsInForce == TypeOK /\ LatestInForce /\ WholeRuleSets /\ OneTargetPerUser

(* Refuted: "The matching PUT replaces the whole set" (docs/flags.md): only the rules *)
(* of the latest publish are in force.                                       *)
ReplacesWholeSet == \A row \in rules : row.by = Latest("rules")

(* Refuted: but for DELETEs that visit rows in opposite orders, the locks of   *)
(* publishes never form a circle. An approval that has numbered one part may *)
(* wait for the rows of a publish that waits for that number.                *)
OnlyDeletesCircle == \A c \in Calls : InCircle(c) => pc[c] = "rows" /\ seen[c] # {}

(* Every publish that begins is answered, also one caught in a circle of     *)
(* locks or beaten to its number or to a user's target.                      *)
EveryPublishEnds ==
  \A c \in Calls : pc[c] = "write" ~> pc[c] \in {"done", "failed"}
================================================================================
