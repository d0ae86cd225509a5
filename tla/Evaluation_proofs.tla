---------------------------- MODULE Evaluation_proofs ----------------------------
(***************************************************************************)
(* How a publish may change a decision, proved for every list of rules, every *)
(* threshold and percentage, and every way the hash spreads the subjects.    *)
(***************************************************************************)
EXTENDS Evaluation, SequenceTheorems, WellFoundedInduction, TLAPS

(* Percentages and thresholds are numbers where they are compared, and every   *)
(* subject has a bucket.                                                     *)
TypeOK ==
  /\ bucket \in [{"userId", "plan"} -> 0..99]
  /\ config \in [enabled : BOOLEAN, offVariation : {"off"}, defaultVariation : {"on"},
                 rolloutPercentage : 0..100, bucketBy : {"userId", "plan"}]
  /\ rules \in Seq(RuleSpace)

--------------------------------------------------------------------------------
(* Lemmas about sets of indices and the first rule that applies *)

(* A nonempty set of naturals has a least element.                            *)
LEMMA LeastOf ==
  ASSUME NEW S \in SUBSET Nat, S # {}
  PROVE  Min(S) \in S /\ \A n \in S : Min(S) <= n
  <1>1. PICK m \in S : \A n \in S : ~(<<n, m>> \in OpToRel(<, Nat))
    BY NatLessThanWellFounded, WFMin
  <1>2. \A n \in S : ~(n < m)
    BY <1>1 DEF OpToRel
  <1>3. \A n \in S : m <= n
    BY <1>2
  <1> QED
    BY <1>3 DEF Min

(* Of thresholds that rise from one to the next, those before the i-th are at   *)
(* most what the one right before it is.                                     *)
LEMMA RisingThresholds ==
  ASSUME NEW n \in Nat, NEW gate \in [1..n -> Nat], \A j \in 2..n : gate[j - 1] < gate[j],
         NEW i \in 1..n, i > 1, NEW b \in Nat, gate[i - 1] <= b, NEW k \in 1..(i - 1)
  PROVE  gate[k] <= b
  <1> SUFFICES ASSUME ~(gate[k] <= b)  PROVE FALSE
    OBVIOUS
  <1> DEFINE S == {j \in 1..(i - 1) : b < gate[i - j]}
  <1>1. \A j \in 1..(i - 1) : i - j \in 1..n /\ gate[i - j] \in Nat
    OBVIOUS
  <1>2. i - k \in 1..(i - 1) /\ i - (i - k) = k
    OBVIOUS
  <1>3. gate[k] \in Nat /\ b < gate[k]
    <2>1. k \in 1..n
      OBVIOUS
    <2>2. gate[k] \in Nat
      BY <2>1
    <2> QED
      BY <2>2
  <1>4. S \in SUBSET Nat /\ i - k \in S
    BY <1>2, <1>3
  <1>5. PICK m \in S : \A j \in S : m <= j
    BY <1>4, LeastOf
  <1>6. m \in 1..(i - 1) /\ b < gate[i - m]
    OBVIOUS
  <1>7. CASE m = 1
    <2>1. i - 1 \in 1..n
      OBVIOUS
    <2>2. gate[i - 1] \in Nat /\ b < gate[i - 1]
      BY <1>6, <1>7, <2>1
    <2> QED
      BY <2>2
  <1>8. CASE m > 1
    <2>1. m - 1 \in 1..(i - 1) /\ i - (m - 1) \in 2..n /\ (i - (m - 1)) - 1 = i - m
      BY <1>6, <1>8
    <2>2. gate[i - m] < gate[i - (m - 1)]
      BY <2>1
    <2>3. gate[i - m] \in Nat /\ gate[i - (m - 1)] \in Nat
      BY <1>1, <1>6, <2>1
    <2>4. b < gate[i - (m - 1)]
      BY <1>6, <2>2, <2>3
    <2>5. m - 1 \in S
      BY <2>1, <2>4
    <2> HIDE DEF S
    <2> QED
      BY <1>5, <1>6, <2>5
  <1> QED
    BY <1>6, <1>7, <1>8

(* The rules that apply, by their place in the list.                          *)
Applying == {i \in 1..Len(rules) : Applies(rules[i])}

(* The first place of a set of places, 0 when it has none.                    *)
First(I) == IF I # {} THEN Min(I) ELSE 0

(* The first place of a set is one of its places and before the others.     *)
LEMMA FirstIs ==
  ASSUME NEW n \in Nat, NEW I \in SUBSET (1..n)
  PROVE  \/ I = {} /\ First(I) = 0
         \/ First(I) \in I /\ \A i \in I : First(I) <= i
  <1>1. CASE I = {}
    BY <1>1 DEF First
  <1>2. CASE I # {}
    <2>1. I \in SUBSET Nat
      OBVIOUS
    <2> QED
      BY <1>2, <2>1, LeastOf DEF First
  <1> QED
    BY <1>1, <1>2

(* The rule that decides is the first of those that apply.                  *)
LEMMA FirstRuleIs == FirstRule = First(Applying)
  BY DEF FirstRule, First, Applying, SelectInSeq

(* The rule a decision names is the first that applies, when rules are asked.  *)
Asked == status # "archived" /\ config.enabled /\ Id \notin DOMAIN targets

(* A decision names that rule unless something before the rules decides.    *)
LEMMA DecidingRule ==
  ASSUME TypeOK
  PROVE  Evaluate.rule = IF Asked /\ FirstRule > 0 THEN FirstRule ELSE 0
  BY DEF Evaluate, Serve, Rollout, Asked

--------------------------------------------------------------------------------
(* Types *)

(* The initial states are typed.                                            *)
LEMMA InitTyped == Init => TypeOK
  <1> SUFFICES ASSUME Init  PROVE TypeOK
    OBVIOUS
  <1>1. bucket \in [{"userId", "plan"} -> 0..99]
    BY BucketsInRange DEF Init
  <1>2. config \in [enabled : BOOLEAN, offVariation : {"off"}, defaultVariation : {"on"},
                   rolloutPercentage : 0..100, bucketBy : {"userId", "plan"}]
    BY DEF Init
  <1>3. rules \in Seq(RuleSpace)
    BY DEF Init
  <1> QED
    BY <1>1, <1>2, <1>3 DEF TypeOK

(* A rule list stays one when a rule is added, changed or removed.             *)
LEMMA NextTyped == TypeOK /\ [Next]_vars => TypeOK'
  <1> SUFFICES ASSUME TypeOK, [Next]_vars  PROVE TypeOK'
    OBVIOUS
  <1>1. CASE UpdateConfig
    <2>1. PICK enabled \in BOOLEAN, percentage \in Percentages, by \in {"userId", "plan"} :
            config' = [config EXCEPT !.enabled = enabled, !.rolloutPercentage = percentage,
                                     !.bucketBy = by]
      BY <1>1 DEF UpdateConfig
    <2>2. percentage \in 0..100
      BY PercentagesInRange
    <2>3. UNCHANGED <<bucket, rules>>
      BY <1>1 DEF UpdateConfig, subject
    <2> QED
      BY <2>1, <2>2, <2>3 DEF TypeOK
  <1>2. CASE ReplaceRules
    <2>1. rules \in Seq(RuleSpace)
      BY DEF TypeOK
    <2>2. \A i \in DOMAIN rules : RemoveAt(rules, i) \in Seq(RuleSpace)
      <3> TAKE i \in DOMAIN rules
      <3>1. i \in 1..Len(rules) /\ Len(rules) \in Nat
        BY <2>1
      <3>2. SubSeq(rules, 1, i - 1) \in Seq(RuleSpace) /\ SubSeq(rules, i + 1, Len(rules)) \in Seq(RuleSpace)
        BY <2>1, <3>1
      <3> QED
        BY <3>2, ConcatProperties DEF RemoveAt
    <2>3. rules' \in Seq(RuleSpace)
      <3>1. \A rule \in RuleSpace : Append(rules, rule) \in Seq(RuleSpace)
        BY <2>1, AppendProperties
      <3>2. \A rule \in RuleSpace : \A i \in DOMAIN rules :
              [rules EXCEPT ![i] = rule] \in Seq(RuleSpace)
        BY <2>1
      <3> QED
        BY <1>2, <2>2, <3>1, <3>2 DEF ReplaceRules
    <2> QED
      BY <1>2, <2>3 DEF ReplaceRules, TypeOK, subject
  <1>3. CASE ReplaceTargets \/ Archive \/ UNCHANGED vars
    BY <1>3 DEF ReplaceTargets, Archive, vars, subject, TypeOK
  <1> QED
    BY <1>1, <1>2, <1>3 DEF Next

(* Every reachable state is typed.                                          *)
LEMMA Typed == Spec => []TypeOK
  BY InitTyped, NextTyped, PTL DEF Spec

--------------------------------------------------------------------------------
(* Which rules apply after a publish *)

(* A publish leaves the subject and the segments alone: while the              *)
(* configuration stands, a rule applies after it just as before.             *)
LEMMA AppliesAsBefore ==
  ASSUME TypeOK, Next, UNCHANGED config
  PROVE  Applying' = {i \in 1..Len(rules') : Applies(rules'[i])}
  <1>1. plan' = plan /\ bucket' = bucket /\ segments' = segments
    BY DEF Next, UpdateConfig, ReplaceRules, ReplaceTargets, Archive, subject
  <1> QED
    BY <1>1 DEF Applying, Applies, AllConditionsMatch, SegmentMatches, Gate, BucketFor, BucketBy

(* A rule list is what its places hold.                                     *)
LEMMA PlacesOfRules ==
  ASSUME TypeOK
  PROVE  /\ Len(rules) \in Nat /\ DOMAIN rules = 1..Len(rules)
         /\ \A i \in 1..Len(rules) : rules[i] \in RuleSpace
  BY DEF TypeOK

--------------------------------------------------------------------------------
(* The theorems *)

(* "consecutive thresholds partition the population" (docs/flags.md), however  *)
(* many rules share it: a rule decides for exactly the buckets from the      *)
(* threshold before it up to its own.                                        *)
THEOREM Partition == Spec => []ThresholdsPartition
  <1>1. ASSUME TypeOK, Splits, NEW i \in DOMAIN rules
        PROVE  LET b == bucket[IF rules[1].bucketBy = Null THEN config.bucketBy
                               ELSE rules[1].bucketBy]
               IN  Evaluate.rule = i <=> b < rules[i].gate /\ (i > 1 => rules[i - 1].gate <= b)
    <2> DEFINE b == bucket[IF rules[1].bucketBy = Null THEN config.bucketBy
                           ELSE rules[1].bucketBy]
               n == Len(rules)
    <2>1. n \in Nat /\ DOMAIN rules = 1..n /\ i \in 1..n /\ \A j \in 1..n : rules[j] \in RuleSpace
      BY <1>1, PlacesOfRules
    <2>2. b \in Nat
      <3>1. rules[1].bucketBy \in {"userId", "plan", Null}
        <4>1. 1 \in 1..n
          BY <2>1
        <4>2. rules[1] \in RuleSpace
          BY <2>1, <4>1
        <4> QED
          BY <4>2, AttributesExist DEF RuleSpace
      <3>2. b \in 0..99
        BY <1>1, <3>1 DEF TypeOK
      <3> QED
        BY <3>2
    <2>3. \A j \in 1..n : rules[j].gate \in Nat
      <3>1. \A j \in 1..n : rules[j].gate \in 0..100
        BY <1>1, <2>1, PercentagesInRange DEF Splits, RuleSpace
      <3>2. 0..100 \subseteq Nat
        OBVIOUS
      <3> QED
        BY <3>1, <3>2
    <2>4. \A j \in 1..n : Applies(rules[j]) <=> b < rules[j].gate
      BY <1>1, <2>1 DEF Splits, Applies, AllConditionsMatch, Gate, BucketFor, BucketBy
    <2>5. \A j \in 2..n : rules[j - 1].gate < rules[j].gate
      BY <1>1, <2>1 DEF Splits
    <2> HIDE DEF b
    <2>6. ASSUME i > 1, rules[i - 1].gate <= b, NEW k \in 1..(i - 1)
          PROVE  ~(b < rules[k].gate)
      <3> DEFINE gate == [j \in 1..n |-> rules[j].gate]
      <3>1. gate \in [1..n -> Nat] /\ \A j \in 1..n : gate[j] = rules[j].gate
        BY <2>3
      <3>2. \A j \in 2..n : j \in 1..n /\ j - 1 \in 1..n
        BY <2>1
      <3>3. \A j \in 2..n : gate[j - 1] < gate[j]
        BY <2>5, <3>1, <3>2
      <3>4. i - 1 \in 1..n /\ k \in 1..n
        BY <2>1, <2>6
      <3> HIDE DEF gate, n
      <3>5. gate[k] <= b
        BY <2>1, <2>2, <2>6, <3>1, <3>3, <3>4, RisingThresholds
      <3>6. gate[k] \in Nat /\ gate[k] = rules[k].gate
        BY <3>1, <3>4
      <3> QED
        BY <2>2, <3>5, <3>6
    <2>7. FirstRule = First(Applying) /\ Applying = {j \in 1..n : b < rules[j].gate}
      BY <2>4, FirstRuleIs DEF Applying
    <2>8. \/ Applying = {} /\ FirstRule = 0
          \/ FirstRule \in Applying /\ \A j \in Applying : FirstRule <= j
      BY <2>1, <2>7, FirstIs
    <2>9. Evaluate.rule = IF FirstRule > 0 THEN FirstRule ELSE 0
      BY <1>1, DecidingRule DEF Asked, Splits
    <2>10. FirstRule = i <=> b < rules[i].gate /\ \A j \in 1..(i - 1) : ~(b < rules[j].gate)
      BY <2>1, <2>7, <2>8
    <2>11. (\A j \in 1..(i - 1) : ~(b < rules[j].gate)) <=> (i > 1 => rules[i - 1].gate <= b)
      <3>1. CASE i = 1
        BY <3>1
      <3>2. CASE i > 1
        <4>1. i - 1 \in 1..(i - 1) /\ i - 1 \in 1..n
          BY <2>1, <3>2
        <4>2. rules[i - 1].gate \in Nat
          BY <2>3, <4>1
        <4> QED
          BY <2>2, <2>6, <3>2, <4>1, <4>2
      <3> QED
        BY <2>1, <3>1, <3>2
    <2>12. Evaluate.rule = i <=> FirstRule = i
      BY <2>1, <2>9
    <2>13. Evaluate.rule = i <=> b < rules[i].gate /\ (i > 1 => rules[i - 1].gate <= b)
      BY <2>10, <2>11, <2>12
    <2> QED
      BY <2>13 DEF b
  <1>2. TypeOK => ThresholdsPartition
    BY <1>1 DEF ThresholdsPartition
  <1> QED
    BY <1>2, Typed, PTL

(* The rule that decides, before and after a publish, as a place in the list.  *)
LEMMA FirstRules ==
  ASSUME TypeOK, TypeOK'
  PROVE  /\ FirstRule = First(Applying) /\ FirstRule' = First(Applying')
         /\ FirstRule \in Nat /\ FirstRule' \in Nat
         /\ \/ Applying = {} /\ FirstRule = 0
            \/ FirstRule \in Applying /\ \A i \in Applying : FirstRule <= i
         /\ \/ Applying' = {} /\ FirstRule' = 0
            \/ FirstRule' \in Applying' /\ \A i \in Applying' : FirstRule' <= i
         /\ Evaluate.rule = IF Asked /\ FirstRule > 0 THEN FirstRule ELSE 0
         /\ Evaluate'.rule = IF Asked' /\ FirstRule' > 0 THEN FirstRule' ELSE 0
  <1>1. FirstRule = First(Applying) /\ FirstRule' = First(Applying')
    BY DEF FirstRule, First, Applying, SelectInSeq
  <1>2. /\ Len(rules) \in Nat /\ Applying \in SUBSET (1..Len(rules))
        /\ Len(rules') \in Nat /\ Applying' \in SUBSET (1..Len(rules'))
    BY DEF TypeOK, Applying
  <1>3. /\ \/ Applying = {} /\ First(Applying) = 0
           \/ First(Applying) \in Applying /\ \A i \in Applying : First(Applying) <= i
        /\ \/ Applying' = {} /\ First(Applying') = 0
           \/ First(Applying') \in Applying' /\ \A i \in Applying' : First(Applying') <= i
    BY <1>2, FirstIs
  <1>4. /\ Evaluate.rule = IF Asked /\ FirstRule > 0 THEN FirstRule ELSE 0
        /\ Evaluate'.rule = IF Asked' /\ FirstRule' > 0 THEN FirstRule' ELSE 0
    BY DEF Evaluate, Serve, Rollout, Asked
  <1>5. /\ \A i \in Applying : i \in Nat
        /\ \A i \in Applying' : i \in Nat
    BY <1>2
  <1>6. First(Applying) \in Nat
    BY <1>3, <1>5
  <1>7. First(Applying') \in Nat
    BY <1>3, <1>5
  <1> QED
    BY <1>1, <1>3, <1>4, <1>6, <1>7

(* Rules behind the one that decides, added, changed or removed, leave the     *)
(* whole decision as it was, in a rule list of any length.                   *)
THEOREM EarlierRulesWin == Spec => EarlierRulesDecide
  <1> DEFINE Same == (/\ Evaluate.rule > 0
                      /\ \A i \in 1..Evaluate.rule : i \in DOMAIN rules' /\ rules'[i] = rules[i]
                      /\ UNCHANGED <<status, config, targets>>)
                     => Evaluate' = Evaluate
  <1>1. ASSUME TypeOK, TypeOK', Next, Evaluate.rule > 0, UNCHANGED <<status, config, targets>>,
               \A i \in 1..Evaluate.rule : i \in DOMAIN rules' /\ rules'[i] = rules[i]
        PROVE  Evaluate' = Evaluate
    <2> USE <1>1
    <2> DEFINE r == FirstRule
    <2>1. Asked /\ r > 0 /\ Evaluate.rule = r /\ r \in Nat /\ Asked'
      <3>1. Asked /\ r > 0 /\ Evaluate.rule = r /\ r \in Nat
        BY FirstRules
      <3> QED
        BY <3>1 DEF Asked
    <2>2. r \in Applying /\ \A i \in Applying : r <= i
      BY <2>1, FirstRules
    <2> HIDE DEF r
    <2>3. /\ Applying = {i \in 1..Len(rules) : Applies(rules[i])}
          /\ Applying' = {i \in 1..Len(rules') : Applies(rules'[i])}
      BY AppliesAsBefore DEF Applying
    <2>4. /\ \A i \in 1..r : i \in 1..Len(rules') /\ rules'[i] = rules[i]
          /\ Len(rules) \in Nat /\ Len(rules') \in Nat
      BY <2>1 DEF TypeOK
    <2>5. r \in 1..Len(rules) /\ Applies(rules[r]) /\ \A i \in 1..(r - 1) : ~Applies(rules[i])
      BY <2>1, <2>2, <2>3
    <2>6. r \in Applying' /\ \A i \in Applying' : r <= i
      BY <2>1, <2>3, <2>4, <2>5
    <2>7. FirstRule' = r
      BY <2>1, <2>6, FirstRules
    <2>8. rules'[r] = rules[r]
      BY <2>1, <2>4
    <2>9. Evaluate = Serve(rules[r].variation, RuleReason(rules[r]), r)
      BY <2>1 DEF Evaluate, Asked, r
    <2>10. Evaluate' = Serve(rules[r].variation, RuleReason(rules[r]), r)
      BY <2>1, <2>7, <2>8 DEF Evaluate, Asked, Serve, RuleReason
    <2> QED
      BY <2>9, <2>10
  <1>2. TypeOK /\ TypeOK' /\ [Next]_vars => [Same]_vars
    BY <1>1
  <1> QED
    BY <1>2, Typed, PTL DEF Spec, EarlierRulesDecide

(* Raising one threshold, anywhere in a rule list of any length, only moves    *)
(* subjects to the rule whose threshold it is.                               *)
THEOREM RaisingGains == Spec => RaisedGateOnlyGains
  <1> DEFINE Gains == \A i \in DOMAIN rules :
               /\ DOMAIN rules' = DOMAIN rules
               /\ rules[i].gate # Null /\ rules'[i].gate # Null /\ rules[i].gate < rules'[i].gate
               /\ rules' = [rules EXCEPT ![i].gate = rules'[i].gate]
               /\ UNCHANGED <<status, config, targets>>
               => Evaluate'.rule \in {Evaluate.rule, i}
  <1>1. ASSUME TypeOK, TypeOK', Next, NEW i \in DOMAIN rules, DOMAIN rules' = DOMAIN rules,
               rules[i].gate # Null, rules'[i].gate # Null, rules[i].gate < rules'[i].gate,
               rules' = [rules EXCEPT ![i].gate = rules'[i].gate],
               UNCHANGED <<status, config, targets>>
        PROVE  Evaluate'.rule \in {Evaluate.rule, i}
    <2>1. /\ Len(rules) \in Nat /\ DOMAIN rules = 1..Len(rules) /\ i \in 1..Len(rules)
          /\ Len(rules') \in Nat /\ DOMAIN rules' = 1..Len(rules')
          /\ rules[i] \in RuleSpace /\ rules'[i] \in RuleSpace
      BY <1>1 DEF TypeOK
    <2>2. /\ Applying = {j \in DOMAIN rules : Applies(rules[j])}
          /\ Applying' = {j \in DOMAIN rules : Applies(rules'[j])}
      <3>1. Applying' = {j \in 1..Len(rules') : Applies(rules'[j])}
        BY <1>1, AppliesAsBefore
      <3> QED
        BY <1>1, <2>1, <3>1 DEF Applying
    <2>3. \A j \in DOMAIN rules : j # i => rules'[j] = rules[j]
      BY <1>1
    <2>4. rules'[i] = [rules[i] EXCEPT !.gate = rules'[i].gate]
      BY <1>1
    <2>5. Applies(rules[i]) => Applies(rules'[i])
      <3>1. /\ rules'[i].conditions = rules[i].conditions
            /\ rules'[i].segmentKeys = rules[i].segmentKeys
            /\ rules'[i].bucketBy = rules[i].bucketBy
        BY <2>1, <2>4 DEF RuleSpace
      <3>2. rules[i].gate \in Nat /\ rules'[i].gate \in Nat
        <4>1. rules[i].gate \in 0..100 /\ rules'[i].gate \in 0..100
          BY <1>1, <2>1, PercentagesInRange DEF RuleSpace
        <4> QED
          BY <4>1
      <3>3. BucketBy(rules[i]) \in {"userId", "plan"} /\ BucketBy(rules'[i]) = BucketBy(rules[i])
        BY <1>1, <2>1, <3>1, AttributesExist DEF BucketBy, RuleSpace, TypeOK
      <3>4. bucket[BucketBy(rules[i])] \in Nat
        <4>1. bucket[BucketBy(rules[i])] \in 0..99
          BY <1>1, <3>3 DEF TypeOK
        <4> QED
          BY <4>1
      <3>5. Gate(rules[i]) => Gate(rules'[i])
        BY <1>1, <3>2, <3>3, <3>4 DEF Gate, BucketFor
      <3> QED
        BY <3>1, <3>5 DEF Applies
    <2>6. Applying' = Applying \/ Applying' = Applying \cup {i}
      BY <2>2, <2>3, <2>5
    <2>7. FirstRule' \in {FirstRule, i}
      <3>1. /\ \/ Applying = {} /\ FirstRule = 0
               \/ FirstRule \in Applying /\ \A j \in Applying : FirstRule <= j
            /\ \/ Applying' = {} /\ FirstRule' = 0
               \/ FirstRule' \in Applying' /\ \A j \in Applying' : FirstRule' <= j
            /\ FirstRule \in Nat /\ FirstRule' \in Nat
        BY <1>1, FirstRules
      <3> QED
        BY <2>6, <3>1
    <2>8. Asked' = Asked
      BY <1>1 DEF Asked
    <2>9. i > 0
      BY <2>1
    <2> QED
      <3>1. /\ Evaluate.rule = IF Asked /\ FirstRule > 0 THEN FirstRule ELSE 0
            /\ Evaluate'.rule = IF Asked' /\ FirstRule' > 0 THEN FirstRule' ELSE 0
            /\ FirstRule \in Nat /\ FirstRule' \in Nat
            /\ FirstRule' = 0 => FirstRule = 0
        <4>1. FirstRule' = 0 => FirstRule = 0
          BY <1>1, <2>1, <2>2, <2>6, FirstRules
        <4> QED
          BY <1>1, <4>1, FirstRules
      <3> QED
        BY <2>7, <2>8, <2>9, <3>1
  <1>2. TypeOK /\ TypeOK' /\ [Next]_vars => [Gains]_vars
    BY <1>1
  <1> QED
    BY <1>2, Typed, PTL DEF Spec, RaisedGateOnlyGains

(* Raising a rollout that is under way, from any percentage to any other,      *)
(* takes the flag from nobody whom no rule decides for.                      *)
THEOREM RolloutSticks == Spec => RolloutIsSticky
  <1> DEFINE Sticky == (/\ config'.rolloutPercentage >= config.rolloutPercentage
                        /\ config.rolloutPercentage > 0
                        /\ [config' EXCEPT !.rolloutPercentage = config.rolloutPercentage] = config
                        /\ Evaluate.rule = 0 /\ Evaluate'.rule = 0
                        /\ UNCHANGED <<status, targets>>)
                       => (Evaluate.enabled => Evaluate'.enabled)
  <1>1. ASSUME TypeOK, TypeOK', Next,
               config'.rolloutPercentage >= config.rolloutPercentage,
               config.rolloutPercentage > 0,
               [config' EXCEPT !.rolloutPercentage = config.rolloutPercentage] = config,
               Evaluate.rule = 0, Evaluate'.rule = 0, UNCHANGED <<status, targets>>,
               Evaluate.enabled
        PROVE  Evaluate'.enabled
    <2>1. /\ config'.enabled = config.enabled /\ config'.bucketBy = config.bucketBy
          /\ config.offVariation = "off" /\ config'.offVariation = "off"
          /\ config.defaultVariation = "on" /\ config'.defaultVariation = "on"
      BY <1>1 DEF TypeOK
    <2>2. bucket' = bucket /\ Asked' = Asked
      BY <1>1, <2>1 DEF Next, UpdateConfig, ReplaceRules, ReplaceTargets, Archive, subject, Asked
    <2>3. CASE ~Asked
      BY <1>1, <2>1, <2>2, <2>3 DEF Evaluate, Asked, Serve
    <2>4. CASE Asked
      <3>1. FirstRule = 0 /\ FirstRule' = 0
        BY <1>1, <2>2, <2>4, FirstRules
      <3>2. /\ Evaluate = IF config.rolloutPercentage \in 1..99 THEN Rollout
                          ELSE Serve(config.defaultVariation, "default_variation", 0)
            /\ Evaluate' = IF config'.rolloutPercentage \in 1..99 THEN Rollout'
                           ELSE Serve(config.defaultVariation, "default_variation", 0)'
        BY <2>2, <2>4, <3>1 DEF Evaluate, Asked
      <3>3. /\ Rollout.enabled <=> bucket[config.bucketBy] < config.rolloutPercentage
            /\ Rollout'.enabled <=> bucket'[config'.bucketBy] < config'.rolloutPercentage
            /\ Serve(config.defaultVariation, "default_variation", 0)'.enabled
        BY <2>1 DEF Rollout, Serve, BucketFor
      <3>4. bucket[config.bucketBy] \in 0..99 /\ config.rolloutPercentage \in 0..100
            /\ config'.rolloutPercentage \in 0..100
        BY <1>1 DEF TypeOK
      <3>5. CASE config'.rolloutPercentage \notin 1..99
        BY <3>2, <3>3, <3>5
      <3>6. CASE config'.rolloutPercentage \in 1..99
        <4>1. config.rolloutPercentage \in 1..99
          BY <1>1, <3>4, <3>6
        <4>2. bucket[config.bucketBy] < config.rolloutPercentage
          BY <1>1, <3>2, <3>3, <4>1
        <4>3. /\ bucket[config.bucketBy] \in Nat /\ config.rolloutPercentage \in Nat
              /\ config'.rolloutPercentage \in Nat
          BY <3>4
        <4>4. config'.rolloutPercentage >= config.rolloutPercentage
          BY <1>1
        <4>5. bucket[config.bucketBy] < config'.rolloutPercentage
          BY <4>2, <4>3, <4>4
        <4> QED
          BY <2>1, <2>2, <3>2, <3>3, <3>6, <4>5
      <3> QED
        BY <3>5, <3>6
    <2> QED
      BY <2>3, <2>4
  <1>2. TypeOK /\ TypeOK' /\ [Next]_vars => [Sticky]_vars
    BY <1>1
  <1> QED
    BY <1>2, Typed, PTL DEF Spec, RolloutIsSticky
================================================================================
