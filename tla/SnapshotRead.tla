------------------------------ MODULE SnapshotRead ------------------------------
(***************************************************************************)
(* Reads of one flag's configuration in one environment: the SDK's snapshot, *)
(* the dashboard's view of it, the evaluation endpoint, and the copy a new    *)
(* environment starts from. Each is a sequence of statements that see what is *)
(* committed when they start, while publishes and segment edits, each one     *)
(* transaction, commit between them.                                         *)
(*                                                                          *)
(* A table holds what its latest writer left; writers are numbered in commit *)
(* order, from 1, the writer of what was there before. How racing publishes  *)
(* of one rule set combine is left to Publishing.                            *)
(*                                                                          *)
(* A definition whose name ends in _Mutant is the definition after it with   *)
(* one plausible bug; no action uses it.                                     *)
(***************************************************************************)
EXTENDS Integers, Sequences, SequencesExt

CONSTANTS
  Readers,    (* Requests that read; bounds how many.                        *)
  Payloads,   (* The sets of parts one publish writes.                       *)
  MaxWrites,  (* Bounds how many transactions commit.                        *)
  Unread,     (* A table a reader has not read.                              *)
  Gone        (* What a reader finds of rows that have been deleted.         *)

Tables == {"config", "rules", "conditions", "targets", "segmentConditions"}

ASSUME PayloadsPublish == Payloads \subseteq (SUBSET {"config", "rules", "targets"}) \ {{}}
ASSUME WritesBounded == MaxWrites \in Nat
ASSUME NoWriters == Unread \notin Nat /\ Gone \notin Nat /\ Unread # Gone

VARIABLES
  history,   (* history[n][t]: the writer whose rows table t held after the  *)
             (* n-th commit.                                                 *)
  kind,      (* kind[r]: what reader r reads for.                            *)
  plan,      (* plan[r]: the stages of statements it has left.               *)
  seen       (* seen[r][t]: the writer whose rows it found in table t.       *)

readerVars == <<history, kind, plan, seen>>

Kinds == {"snapshot", "detail", "decision", "copy"}

--------------------------------------------------------------------------------
(* The statements of a stage are sent together and run in any order, the stages *)
(* one after the other.                                                      *)

SnapshotStages_Mutant ==  \* the configuration is read beside the rules
  {<<{"config", "rules", "targets"}, {"conditions", "segmentConditions"}>>}

SnapshotStages == {<<{"config"}, {"rules", "targets"}, {"conditions", "segmentConditions"}>>}

DecisionStages ==
  {<<{"config"}, {"rules"}, {"conditions"}, {"targets"}, {"segmentConditions"}>>}

CopyStages == {<<{"config"}, {"rules"}, {"conditions"}, {"targets"}>>}

(* The targets are read beside the rules and their conditions.               *)
DetailStages == {<<{"config"}, {"rules", "targets"}, {"conditions"}>>,
                 <<{"config"}, {"rules"}, {"conditions", "targets"}>>}

Stages(k) ==
  CASE k = "snapshot" -> SnapshotStages
    [] k = "detail" -> DetailStages
    [] k = "decision" -> DecisionStages
    [] k = "copy" -> CopyStages

ReadersInit ==
  /\ history = << [t \in Tables |-> 1] >>
  /\ kind \in [Readers -> Kinds]
  /\ plan \in [Readers -> UNION {Stages(k) : k \in Kinds}]
  /\ \A r \in Readers : plan[r] \in Stages(kind[r])
  /\ seen = [r \in Readers |-> [t \in Tables |-> Unread]]

--------------------------------------------------------------------------------
Commit(tables) ==
  /\ Len(history) <= MaxWrites
  /\ history' = Append(history,
       [t \in Tables |-> IF t \in tables THEN Len(history) + 1 ELSE Last(history)[t]])
  /\ UNCHANGED <<kind, plan, seen>>

(* Rules are replaced with their conditions, under ids of their own.         *)
PublishParts ==
  \E parts \in Payloads :
    Commit(IF "rules" \in parts THEN parts \cup {"conditions"} ELSE parts)

(* SegmentsRepository.update: a segment keeps its id, its conditions are     *)
(* replaced.                                                                 *)
UpdateSegment == Commit({"segmentConditions"})

(* What a statement finds. Conditions are sought by the ids of the rules     *)
(* read before and are deleted with them; the reader then takes the rules for *)
(* rules without conditions, which match everybody.                          *)
Found(r, t) ==
  IF t = "conditions" /\ Last(history)["rules"] # seen[r]["rules"]
    THEN Gone ELSE Last(history)[t]

Read(r, t) ==
  /\ plan[r] # <<>> /\ t \in Head(plan[r])
  /\ seen' = [seen EXCEPT ![r][t] = Found(r, t)]
  /\ plan' = [plan EXCEPT ![r] =
       IF Head(@) = {t} THEN Tail(@) ELSE <<Head(@) \ {t}>> \o Tail(@)]
  /\ UNCHANGED <<history, kind>>

ReadersNext == PublishParts \/ UpdateSegment \/ \E r \in Readers, t \in Tables : Read(r, t)

ReadersSpec == ReadersInit /\ [][ReadersNext]_readerVars

--------------------------------------------------------------------------------
(* Properties *)

Done(r) == plan[r] = <<>>
Has(r, t) == seen[r][t] # Unread

(* The second table is what the first is to be read with: a switch with the  *)
(* rules and targets that narrow it, a rule with its conditions and with the *)
(* segments it names.                                                        *)
Narrows == {<<"config", "rules">>, <<"config", "targets">>,
            <<"rules", "conditions">>, <<"rules", "segmentConditions">>}

AsNew(r, p) ==
  seen[r][p[2]] # Gone /\ history[seen[r][p[1]]][p[2]] <= seen[r][p[2]]

(* A read pairs what one commit left in a table with what narrows it as it   *)
(* stood at that commit or later: whoever narrows first and opens after, in   *)
(* one publish or in two, is never overtaken by the opening. But one pair may *)
(* fail: rules that were replaced after they were read, before their          *)
(* conditions were, are read without them.                                   *)
WiderOnlyByReplacedRules ==
  \A r \in Readers : \A p \in Narrows :
    Has(r, p[1]) /\ Has(r, p[2]) =>
      \/ AsNew(r, p)
      \/ /\ p = <<"rules", "conditions">> /\ seen[r]["conditions"] = Gone
         /\ seen[r]["rules"] < Last(history)["rules"]

(* Refuted: no read is wider than what was published. A publish between the   *)
(* two statements leaves the rules of the one before it without conditions, in *)
(* the SDK's snapshot as in the dashboard's view, a decision or a copy.      *)
NeverWiderThanPublished ==
  \A r \in Readers : \A p \in Narrows : Has(r, p[1]) /\ Has(r, p[2]) => AsNew(r, p)

(* Refuted: "an approver approves a whole change, and half of it must never be        *)
(* visible" (flags.service.ts, publishApprovedChange): what a finished read  *)
(* took of a publish's parts stood together after some commit.               *)
HalfIsNeverVisible ==
  \A r \in Readers : Done(r) =>
    \E n \in 1..Len(history) : \A t \in {"config", "rules", "targets"} :
      seen[r][t] = history[n][t]

(* Refuted: "enabled, selections, rollout, rules and individual targets move together" *)
(* (flags.repository.ts, copyConfigIntoEnvironment): a finished copy has the  *)
(* conditions of every rule it copied, and keeps them.                       *)
CopiesKeepConditions ==
  \A r \in Readers : Done(r) /\ kind[r] = "copy" => seen[r]["conditions"] # Gone
================================================================================
