------------------------------- MODULE Evaluation -------------------------------
(***************************************************************************)
(* The engine: what one flag serves to one subject in one environment, as    *)
(* the flag's configuration is published step by step. The subject and the   *)
(* hash of its bucketing values stay as they are; the properties say how a   *)
(* publish may change the decision.                                          *)
(*                                                                          *)
(* Attribute values are the strings they are compared as. matches_regex is   *)
(* left out; the hash is any function from a value to a bucket.              *)
(*                                                                          *)
(* A definition whose name ends in _Mutant is the definition after it with   *)
(* one plausible bug; no action uses it.                                     *)
(***************************************************************************)
EXTENDS Integers, Sequences, SequencesExt

CONSTANTS
  Plans,        (* The values of the subject's attribute, or Missing.        *)
  Percentages,  (* The flag's rollout percentages that may be published.     *)
  Gates,        (* The rollout gates of rules: a percentage, or Null.        *)
  BucketBys,    (* The bucketBy of rules: an attribute, or Null.             *)
  Conditions,   (* The conditions of rules and segments.                     *)
  ValueLists,   (* The value lists a condition may compare with.             *)
  Segments,     (* The segment keys rules may reference.                     *)
  Buckets,      (* The buckets the hash may give.                            *)
  MaxRules,     (* Bounds the length of the rule list.                       *)
  Null,         (* A column that is null.                                    *)
  Missing       (* An attribute the subject does not have.                   *)

Numeric == [v \in {"1", "2", "12"} |-> CASE v = "1" -> 1 [] v = "2" -> 2 [] v = "12" -> 12]

ASSUME PercentagesInRange == Percentages \subseteq 0..100 /\ Gates \subseteq (0..100) \cup {Null}
ASSUME BucketsInRange == Buckets \subseteq 0..99
ASSUME ConditionsWellFormed ==
  \A k \in Conditions : k.values \in ValueLists
ASSUME AttributesExist == BucketBys \subseteq {"userId", "plan", Null}

VARIABLES
  plan,        (* The subject's one attribute; its id is Id.                 *)
  bucket,      (* bucket[by]: the bucket of the value bucketBy picks.        *)
  status,      (* flag.status                                                *)
  config,      (* The flag's configuration in the environment.               *)
  targets,     (* The individual targets: user to variation.                 *)
  rules,       (* The targeting rules in priority order.                     *)
  segments     (* The conditions of each segment the project has.            *)

Id == "u1"

subject == <<plan, bucket>>
vars == <<plan, bucket, status, config, targets, rules, segments>>

--------------------------------------------------------------------------------
(* satisfies *)

IsNumber(v) == v \in DOMAIN Numeric
Includes(text, part) == text = part \/ (text = "12" /\ part \in {"1", "2"})

Compare(left, operator, right) ==
  CASE operator = "greater_than" -> left > right
    [] operator = "greater_than_or_equal" -> left >= right
    [] operator = "less_than" -> left < right
    [] operator = "less_than_or_equal" -> left <= right

(* The positive operators need the attribute; their negations do not.        *)
Positive(operator, attribute, values) ==
  /\ attribute # Missing
  /\ CASE operator = "equals" -> values # <<>> /\ attribute = values[1]
       [] operator = "contains" -> \E v \in ToSet(values) : Includes(attribute, v)
       [] operator = "in" -> attribute \in ToSet(values)

Satisfies(condition, attribute) ==
  LET operator == condition.operator
      values == condition.values
  IN  CASE operator \in {"equals", "contains", "in"} -> Positive(operator, attribute, values)
        [] operator = "not_equals" -> ~Positive("equals", attribute, values)
        [] operator = "not_contains" -> ~Positive("contains", attribute, values)
        [] operator = "not_in" -> ~Positive("in", attribute, values)
        [] OTHER -> /\ IsNumber(attribute) /\ values # <<>> /\ IsNumber(values[1])
                    /\ Compare(Numeric[attribute], operator, Numeric[values[1]])

AllConditionsMatch(conditions) == \A condition \in conditions : Satisfies(condition, plan)

--------------------------------------------------------------------------------
(* evaluate *)

SegmentMatches(key) == key \in DOMAIN segments /\ AllConditionsMatch(segments[key])

BucketFor(by) == bucket[by]

Gate_Mutant(rule) ==  \* the comparison that skips a rule admits it
  rule.gate # Null => BucketFor(config.bucketBy) >= rule.gate

BucketBy_Mutant(rule) == config.bucketBy  \* the rule's own attribute is ignored

BucketBy(rule) == IF rule.bucketBy = Null THEN config.bucketBy ELSE rule.bucketBy

Gate(rule) == rule.gate # Null => BucketFor(BucketBy(rule)) < rule.gate

(* The three gates of a rule: conditions, segments, its own rollout.         *)
Applies(rule) ==
  /\ AllConditionsMatch(rule.conditions)
  /\ \A key \in rule.segmentKeys : SegmentMatches(key)
  /\ Gate(rule)

Serve(variation, reason, rule) ==
  [variation |-> variation, reason |-> reason, rule |-> rule,
   enabled |-> variation # config.offVariation]

Rollout_Mutant ==  \* the branches are swapped
  Serve(IF BucketFor(config.bucketBy) >= config.rolloutPercentage
        THEN config.defaultVariation ELSE config.offVariation, "percentage_rollout", 0)

Rollout ==
  Serve(IF BucketFor(config.bucketBy) < config.rolloutPercentage
        THEN config.defaultVariation ELSE config.offVariation, "percentage_rollout", 0)

(* The first rule that applies, 0 when none does.                            *)
FirstRule_Mutant == SelectLastInSeq(rules, Applies)  \* goes on after a match

FirstRule == SelectInSeq(rules, Applies)

RuleReason(rule) == IF rule.segmentKeys # {} THEN "segment" ELSE "targeting_rule"

Evaluate ==
  IF status = "archived" THEN Serve(config.offVariation, "flag_archived", 0)
  ELSE IF ~config.enabled THEN Serve(config.offVariation, "flag_disabled", 0)
  ELSE IF Id \in DOMAIN targets THEN Serve(targets[Id], "targeting_rule", 0)
  ELSE IF FirstRule > 0 THEN
    Serve(rules[FirstRule].variation, RuleReason(rules[FirstRule]), FirstRule)
  ELSE IF config.rolloutPercentage \in 1..99 THEN Rollout
  ELSE Serve(config.defaultVariation, "default_variation", 0)

--------------------------------------------------------------------------------
(* Publishes *)

RuleSpace ==
  [conditions : {{}} \cup {{k} : k \in Conditions}, segmentKeys : {{}} \cup {{s} : s \in Segments},
   gate : Gates, bucketBy : BucketBys, variation : {"blue"}]

(* A new flag is off, with a rollout of 0 and no rules.                      *)
Init ==
  /\ plan \in Plans
  /\ bucket \in [{"userId", "plan"} -> Buckets]
  /\ plan = Missing => bucket["plan"] = bucket["userId"]
  /\ status = "active"
  /\ config = [enabled |-> FALSE, offVariation |-> "off", defaultVariation |-> "on",
               rolloutPercentage |-> 0, bucketBy |-> "userId"]
  /\ targets = <<>>
  /\ rules = <<>>
  /\ segments \in UNION {[keys -> {{}} \cup {{k} : k \in Conditions}] : keys \in SUBSET Segments}

UpdateConfig ==
  /\ \E enabled \in BOOLEAN, percentage \in Percentages, by \in {"userId", "plan"} :
       config' = [config EXCEPT !.enabled = enabled, !.rolloutPercentage = percentage,
                                !.bucketBy = by]
  /\ UNCHANGED <<subject, status, targets, rules, segments>>

(* One publish adds, changes or removes one rule: several reach any list.    *)
ReplaceRules ==
  /\ \/ \E rule \in RuleSpace :
          \/ Len(rules) < MaxRules /\ rules' = Append(rules, rule)
          \/ \E i \in DOMAIN rules : rules' = [rules EXCEPT ![i] = rule]
     \/ \E i \in DOMAIN rules : rules' = RemoveAt(rules, i)
  /\ UNCHANGED <<subject, status, config, targets, segments>>

ReplaceTargets ==
  /\ targets' \in {[u \in users |-> "blue"] : users \in SUBSET {Id}}
  /\ UNCHANGED <<subject, status, config, rules, segments>>

Archive ==
  /\ status' = "archived"
  /\ UNCHANGED <<subject, config, targets, rules, segments>>

Next == UpdateConfig \/ ReplaceRules \/ ReplaceTargets \/ Archive

Spec == Init /\ [][Next]_vars

--------------------------------------------------------------------------------
(* Properties *)

(* Raising the percentage of a rollout that is under way takes the flag away *)
(* from nobody, and a rule list that grows at its end does not rebucket.     *)
RolloutIsSticky ==
  [][(/\ config'.rolloutPercentage >= config.rolloutPercentage
      /\ config.rolloutPercentage > 0
      /\ [config' EXCEPT !.rolloutPercentage = config.rolloutPercentage] = config
      /\ Evaluate.rule = 0 /\ Evaluate'.rule = 0
      /\ UNCHANGED <<status, targets>>)
     => (Evaluate.enabled => Evaluate'.enabled)]_vars

(* A publish that changes or adds rules behind the one that decides leaves   *)
(* the decision alone.                                                       *)
EarlierRulesDecide ==
  [][(/\ Evaluate.rule > 0
      /\ \A i \in 1..Evaluate.rule : i \in DOMAIN rules' /\ rules'[i] = rules[i]
      /\ UNCHANGED <<status, config, targets>>)
     => Evaluate' = Evaluate]_vars

(* "consecutive thresholds partition the population" (docs/flags.md): of     *)
(* rules that match everybody and bucket alike, with thresholds that rise,   *)
(* each decides for the buckets between the threshold before it and its own. *)
Splits ==
  /\ status = "active" /\ config.enabled /\ Id \notin DOMAIN targets
  /\ \A i \in DOMAIN rules :
       /\ rules[i].conditions = {} /\ rules[i].segmentKeys = {}
       /\ rules[i].gate # Null /\ rules[i].bucketBy = rules[1].bucketBy
       /\ i > 1 => rules[i - 1].gate < rules[i].gate
ThresholdsPartition ==
  Splits => \A i \in DOMAIN rules :
    LET b == bucket[IF rules[1].bucketBy = Null THEN config.bucketBy ELSE rules[1].bucketBy]
    IN  Evaluate.rule = i <=> b < rules[i].gate /\ (i > 1 => rules[i - 1].gate <= b)

(* "a split does not reshuffle when a threshold is raised" (docs/flags.md):  *)
(* raising one rule's gate only moves subjects to that rule.                 *)
RaisedGateOnlyGains ==
  [][\A i \in DOMAIN rules :
       /\ DOMAIN rules' = DOMAIN rules
       /\ rules[i].gate # Null /\ rules'[i].gate # Null /\ rules[i].gate < rules'[i].gate
       /\ rules' = [rules EXCEPT ![i].gate = rules'[i].gate]
       /\ UNCHANGED <<status, config, targets>>
       => Evaluate'.rule \in {Evaluate.rule, i}]_vars

================================================================================
