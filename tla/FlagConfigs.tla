------------------------------ MODULE FlagConfigs -------------------------------
(***************************************************************************)
(* The flags of one project, their variations, and what each environment's  *)
(* configuration, rules and targets reference by variation key. No foreign  *)
(* key ties a reference to its variation or a configuration to its flag and *)
(* environment: the service keeps them together by reading before it writes.*)
(*                                                                          *)
(* A call reads outside its transaction, or under READ COMMITTED one        *)
(* statement after another inside it, and its writes happen at the commit.  *)
(* How racing replacements of one rule set combine is left to Publishing.   *)
(*                                                                          *)
(* A definition whose name ends in _Mutant is the definition after it with  *)
(* one plausible bug; no action uses it.                                    *)
(***************************************************************************)
EXTENDS Integers, FiniteSets, Sequences

CONSTANTS
  Calls,         (* API calls; bounds how many are made.                     *)
  Operations,    (* The operations the calls may ask for.                    *)
  Flags,         (* Flag keys; the flags that may exist.                     *)
  Environments,  (* Environment keys; the environments that may exist.       *)
  OwnKeys,       (* The flags whose creator names their two variations.      *)
  FirstFlags,    (* The flags and environments there are at the start.       *)
  FirstEnvironments,
  None,          (* No environment to copy from.                             *)
  Seed           (* Whoever wrote the references the calls start from.       *)

ASSUME FirstExist == FirstFlags \subseteq Flags /\ FirstEnvironments \subseteq Environments
ASSUME NamesDiffer == Seed \notin Calls /\ None \notin Environments

VARIABLES
  pc,            (* pc[c]: what call c does next.                            *)
  table,         (* table[c]: the table it reads next, an index of Tables.   *)
  op,            (* op[c]: the operation it asks for and what it names.      *)
  read,          (* read[c]: what it has read so far.                        *)
  flags,         (* The flags that exist.                                    *)
  environments,  (* The environments that exist, archived ones included.     *)
  variations,    (* variations[f]: the variation keys of flag f.             *)
  references     (* The variation keys named by configurations, rules and    *)
                 (* targets.                                                 *)

call == <<pc, table, op, read>>
rows == <<flags, environments, variations, references>>
vars == <<pc, table, op, read, flags, environments, variations, references>>

OnKey(f) == IF f \in OwnKeys THEN "treatment" ELSE "on"
OffKey(f) == IF f \in OwnKeys THEN "control" ELSE "off"
Variations == {"on", "off", "treatment", "control", "extra"}

(* A configuration names two variations, a rule and a target one each.       *)
Tables_Mutant == <<{"off", "default"}, {"rule"}, {}>>  \* no look at the targets

Tables == <<{"off", "default"}, {"rule"}, {"target"}>>

Row(f, e, kind, key, by) ==
  [flag |-> f, environment |-> e, kind |-> kind, key |-> key, by |-> by]

Config(f, e, off, default, by) == {Row(f, e, "off", off, by), Row(f, e, "default", default, by)}

RowsOf(f, e) == {r \in references : r.flag = f /\ r.environment = e}
HasConfig(f, e) == \E r \in RowsOf(f, e) : r.kind = "off"

Nothing == [environments |-> {}, flags |-> {}, rows |-> {}]

(* Every flag of the start has its two variations and an "extra" one, which   *)
(* one row of each of these kinds references.                                *)
FirstVariations(kinds) ==
  [f \in Flags |-> IF f \notin FirstFlags THEN {}
                   ELSE {OnKey(f), OffKey(f)} \cup {"extra" : kind \in kinds}]
FirstRows(f, e, kinds) ==
  Config(f, e, OffKey(f), OffKey(f), Seed) \cup {Row(f, e, kind, "extra", Seed) : kind \in kinds}

Init ==
  /\ pc = [c \in Calls |-> "idle"]
  /\ table = [c \in Calls |-> 1]
  /\ op = [c \in Calls |-> <<"none">>]
  /\ read = [c \in Calls |-> Nothing]
  /\ flags = FirstFlags
  /\ environments = FirstEnvironments
  /\ \E kinds \in {{"rule"}, {"target"}, {}} :
       /\ variations = FirstVariations(kinds)
       /\ references = UNION {UNION {FirstRows(f, e, kinds) : e \in FirstEnvironments} :
                              f \in FirstFlags}

--------------------------------------------------------------------------------
(* One call *)

Start(c, request, what, label) ==
  /\ pc[c] = "idle"
  /\ request[1] \in Operations
  /\ op' = [op EXCEPT ![c] = request]
  /\ read' = [read EXCEPT ![c] = what]
  /\ pc' = [pc EXCEPT ![c] = label]
  /\ UNCHANGED table

Write(c, operation) ==
  /\ pc[c] = "write" /\ op[c][1] = operation
  /\ pc' = [pc EXCEPT ![c] = "done"]
  /\ UNCHANGED <<table, op, read>>

(* The call has read a table: on to the next one, or to the write.           *)
Advance(c) ==
  IF table[c] < Len(Tables)
  THEN table' = [table EXCEPT ![c] = @ + 1] /\ UNCHANGED pc
  ELSE pc' = [pc EXCEPT ![c] = "write"] /\ UNCHANGED table

Refuse(c) == pc' = [pc EXCEPT ![c] = "failed"] /\ UNCHANGED table

--------------------------------------------------------------------------------
(* Flags and environments *)

(* create: the environments are listed before the transaction.               *)
CreateFlag(c) ==
  /\ \E f \in Flags \ flags :
       Start(c, <<"createFlag", f>>, [Nothing EXCEPT !.environments = environments], "write")
  /\ UNCHANGED rows

WriteFlag(c) ==
  /\ Write(c, "createFlag")
  /\ LET f == op[c][2]
     IN  /\ f \notin flags
         /\ flags' = flags \cup {f}
         /\ variations' = [variations EXCEPT ![f] = {OnKey(f), OffKey(f)}]
         /\ references' = references \cup
              UNION {Config(f, e, OffKey(f), OnKey(f), c) : e \in read[c].environments}
  /\ UNCHANGED environments

CreateEnvironment(c) ==
  /\ \E e \in Environments \ environments, source \in environments \cup {None} :
       Start(c, <<"createEnvironment", e, source>>, Nothing, "list")
  /\ UNCHANGED rows

(* unarchive: any environment may have been archived before.                 *)
Unarchive(c) ==
  /\ \E e \in environments : Start(c, <<"unarchive", e, None>>, Nothing, "list")
  /\ UNCHANGED rows

Unconfigured_Mutant(e) ==  \* the environment is left out of the join
  {f \in flags : \A x \in environments : ~HasConfig(f, x)}

(* initializeEnvironmentConfigs: the flags of the project that are not       *)
(* configured there get "off" and "on" ...                                   *)
Unconfigured(e) == {f \in flags : ~HasConfig(f, e)}

ListFlags(c) ==
  /\ pc[c] = "list"
  /\ LET e == op[c][2]
         listed == Unconfigured(e)
     IN  IF op[c][3] = None
         THEN /\ read' = [read EXCEPT ![c].flags = flags,
                   ![c].rows = UNION {Config(f, e, "off", "on", c) : f \in listed}]
              /\ pc' = [pc EXCEPT ![c] = "write"]
         ELSE /\ read' = [read EXCEPT ![c].flags = listed]
              /\ pc' = [pc EXCEPT ![c] = "copy"]
  /\ UNCHANGED <<table, op, rows>>

(* ... or a copy of the source's, one table after the other.                 *)
CopyTable(c) ==
  /\ pc[c] = "copy"
  /\ LET from == {r \in references : /\ r.flag \in read[c].flags
                                     /\ r.environment = op[c][3]
                                     /\ r.kind \in Tables[table[c]]}
     IN  /\ read' = [read EXCEPT ![c].rows = @ \cup
              {Row(r.flag, op[c][2], r.kind, r.key, c) : r \in from}]
         /\ IF \E f \in read[c].flags : ~HasConfig(f, op[c][3])
            THEN Refuse(c) ELSE Advance(c)
  /\ UNCHANGED <<op, rows>>

(* The unique indexes on the environment key and on (flag, environment).     *)
Fresh(c) == \A r \in read[c].rows : ~HasConfig(r.flag, r.environment)

WriteEnvironment(c) ==
  /\ Write(c, "createEnvironment")
  /\ op[c][2] \notin environments /\ Fresh(c)
  /\ environments' = environments \cup {op[c][2]}
  /\ references' = references \cup read[c].rows
  /\ UNCHANGED <<flags, variations>>

WriteUnarchive(c) ==
  /\ Write(c, "unarchive")
  /\ Fresh(c)
  /\ references' = references \cup read[c].rows
  /\ UNCHANGED <<flags, environments, variations>>

--------------------------------------------------------------------------------
(* Variations and what references them *)

AddVariation(c) ==
  /\ \E f \in flags : \E key \in Variations \ variations[f] :
       Start(c, <<"addVariation", f, key>>, Nothing, "write")
  /\ UNCHANGED rows

WriteAddVariation(c) ==
  /\ Write(c, "addVariation")
  /\ op[c][3] \notin variations[op[c][2]]
  /\ variations' = [variations EXCEPT ![op[c][2]] = @ \cup {op[c][3]}]
  /\ UNCHANGED <<flags, environments, references>>

RemoveVariation(c) ==
  /\ \E f \in flags : \E key \in variations[f] :
       /\ Cardinality(variations[f]) > 1
       /\ Start(c, <<"removeVariation", f, key>>, Nothing, "check")
  /\ UNCHANGED rows

(* findVariationReferences: one query per table, before the transaction.     *)
CheckReferences(c) ==
  /\ pc[c] = "check"
  /\ IF \E r \in references : /\ r.flag = op[c][2] /\ r.key = op[c][3]
                              /\ r.kind \in Tables[table[c]]
     THEN Refuse(c) ELSE Advance(c)
  /\ UNCHANGED <<op, read, rows>>

WriteRemoveVariation(c) ==
  /\ Write(c, "removeVariation")
  /\ variations' = [variations EXCEPT ![op[c][2]] = @ \ {op[c][3]}]
  /\ UNCHANGED <<flags, environments, references>>

(* What may be published into a table: variations the flag has.              *)
Choices(f, e, kinds, by) ==
  IF "off" \in kinds
  THEN UNION {{Config(f, e, off, default, by) : off \in variations[f]} : default \in variations[f]}
  ELSE {{}} \cup {{Row(f, e, kind, key, by) : kind \in kinds} : key \in variations[f]}

(* updateEnvironmentConfig, replaceRules, replaceTargets: validated before   *)
(* the transaction.                                                          *)
Publish(c) ==
  /\ \E f \in flags, e \in environments, t \in DOMAIN Tables :
       /\ HasConfig(f, e)
       /\ \E new \in Choices(f, e, Tables[t], c) :
            Start(c, <<"publish", f, e, t>>, [Nothing EXCEPT !.rows = new], "write")
  /\ UNCHANGED rows

WritePublish(c) ==
  /\ Write(c, "publish")
  /\ LET old == {r \in RowsOf(op[c][2], op[c][3]) : r.kind \in Tables[op[c][4]]}
     IN  references' = (references \ old) \cup read[c].rows
  /\ UNCHANGED <<flags, environments, variations>>

--------------------------------------------------------------------------------
(* A unique index refuses the insert, or the connection is lost.             *)
Rollback(c) ==
  /\ pc[c] \notin {"idle", "done", "failed"}
  /\ Refuse(c)
  /\ UNCHANGED <<op, read, rows>>

Begin(c) ==
  \/ CreateFlag(c) \/ CreateEnvironment(c) \/ Unarchive(c)
  \/ AddVariation(c) \/ RemoveVariation(c) \/ Publish(c)

Continue(c) ==
  \/ WriteFlag(c) \/ ListFlags(c) \/ CopyTable(c) \/ WriteEnvironment(c) \/ WriteUnarchive(c)
  \/ WriteAddVariation(c) \/ CheckReferences(c) \/ WriteRemoveVariation(c) \/ WritePublish(c)

Next == \E c \in Calls : Begin(c) \/ Continue(c) \/ Rollback(c)

Spec == Init /\ [][Next]_vars

--------------------------------------------------------------------------------
(* Properties *)

(* "a missing row is a bug" (docs/domain-model.md): a flag lacks its         *)
(* configuration in an environment only if the two were created across each  *)
(* other, neither call having seen what the other created; copying such an   *)
(* environment does not spread the gap.                                      *)
CoveredUnlessCrossed ==
  \A f \in flags, e \in environments :
    HasConfig(f, e) \/
    \E c, d \in Calls :
      /\ pc[c] = "done" /\ pc[d] = "done"
      /\ op[c] = <<"createFlag", f>> /\ e \notin read[c].environments
      /\ op[d][1] = "createEnvironment" /\ op[d][2] = e /\ f \notin read[d].flags

(* No sequence of calls removes a variation from under a reference that was  *)
(* there all along, in whichever table it is.                                *)
OldReferencesResolve ==
  \A r \in references : r.by = Seed => r.key \in variations[r.flag]

(* Refuted: "A flag therefore always has a configuration in every environment"        *)
(* (docs/domain-model.md).                                                   *)
EveryPairConfigured == \A f \in flags, e \in environments : HasConfig(f, e)

(* Refuted: "a configuration never points at a variation that does not exist"         *)
(* (docs/flags.md), when no variation is ever removed.                       *)
ConfigsResolve ==
  \A r \in references : r.kind \in {"off", "default"} => r.key \in variations[r.flag]

(* Refuted: "A flag has to keep at least one variation."                     *)
KeepsAVariation == \A f \in flags : variations[f] # {}

(* Refuted: "A variation key can only go once nothing names it"                       *)
(* (flags.service.ts, removeVariation).                                      *)
ReferencesResolve == \A r \in references : r.key \in variations[r.flag]
================================================================================
