--------------------------- MODULE Reads_proofs ------------------------------
(***************************************************************************)
(* What a reader of a flag's configuration may pair, proved for every set    *)
(* of readers, every set of payloads and every number of transactions; and    *)
(* what a list read page by page has, for lists and pages of any size.        *)
(*                                                                          *)
(* The inductive invariant of the former says that tables only move forward,  *)
(* that rows found gone have been replaced since, and that every plan reads a *)
(* table once, before the tables that narrow it and after those it narrows;   *)
(* that of the latter that what was there all along is collected or after the *)
(* cursor.                                                                   *)
(***************************************************************************)
EXTENDS SnapshotRead, Paging, SequenceTheorems, FiniteSetTheorems, TLAPS

(* After every commit each table holds what that commit or an earlier one     *)
(* left in it.                                                               *)
HistoryForward ==
  /\ history \in Seq([Tables -> Nat]) /\ history # <<>>
  /\ \A n \in 1..Len(history) : \A t \in Tables : history[n][t] \in 1..n
  /\ \A m, n \in 1..Len(history) : m <= n =>
       \A t \in Tables : history[m][t] <= history[n][t]

(* A reader has found in a table nothing newer than what it holds now.        *)
SeenCommitted ==
  /\ seen \in [Readers -> [Tables -> Nat \cup {Unread, Gone}]]
  /\ \A r \in Readers, t \in Tables : seen[r][t] \in Nat =>
       seen[r][t] \in 1..Len(history) /\ seen[r][t] <= history[Len(history)][t]

(* Only conditions are found gone, of rules that have been replaced since.     *)
GoneWithRules ==
  \A r \in Readers, t \in Tables : seen[r][t] = Gone =>
    /\ t = "conditions" /\ seen[r]["rules"] \in Nat
    /\ seen[r]["rules"] < history[Len(history)]["rules"]

(* A table that is still to be read stands in one stage, and neither it nor   *)
(* what is to be read after it has been read or stands in an earlier stage;  *)
(* what is to be read before it has been read or does.                       *)
OrderedPlan(s, found) ==
  \A i \in 1..Len(s) : \A t \in s[i] :
    /\ found[t] = Unread
    /\ \A j \in 1..Len(s) : t \in s[j] => j = i
    /\ \A p \in Narrows : p[1] = t =>
         found[p[2]] = Unread /\ \A j \in 1..i : p[2] \notin s[j]
    /\ \A p \in Narrows : p[2] = t =>
         found[p[1]] # Unread \/ \E j \in 1..Len(s) : j < i /\ p[1] \in s[j]

PlansOrdered ==
  \A r \in Readers : plan[r] \in Seq(SUBSET Tables) /\ OrderedPlan(plan[r], seen[r])

(* What was found of a table that narrows another is as new as the other.      *)
SeenInOrder ==
  \A r \in Readers : \A p \in Narrows :
    seen[r][p[1]] \in Nat /\ seen[r][p[2]] \in Nat =>
      history[seen[r][p[1]]][p[2]] <= seen[r][p[2]]

IInv ==
  /\ plan \in [Readers -> Seq(SUBSET Tables)]
  /\ HistoryForward /\ SeenCommitted /\ GoneWithRules /\ PlansOrdered /\ SeenInOrder

--------------------------------------------------------------------------------
(* Lemmas about plans and histories *)

(* The plan that is left once a table of its first stage has been read.       *)
Rest(s, t) == IF Head(s) = {t} THEN Tail(s) ELSE <<Head(s) \ {t}>> \o Tail(s)

(* Reading a table removes it from the first stage, and the stage when it     *)
(* was the last of it; the other stages stay.                                *)
LEMMA RestOfPlan ==
  ASSUME NEW s \in Seq(SUBSET Tables), s # <<>>, NEW t \in Head(s)
  PROVE  /\ Rest(s, t) \in Seq(SUBSET Tables)
         /\ \/ /\ Len(Rest(s, t)) = Len(s) - 1
               /\ \A i \in 1..Len(Rest(s, t)) : Rest(s, t)[i] \subseteq s[i + 1]
               /\ \A i \in 1..Len(s) : \A u \in s[i] : u # t =>
                    i - 1 \in 1..Len(Rest(s, t)) /\ u \in Rest(s, t)[i - 1]
            \/ /\ Len(Rest(s, t)) = Len(s) /\ t \notin Rest(s, t)[1]
               /\ \A i \in 1..Len(Rest(s, t)) : Rest(s, t)[i] \subseteq s[i]
               /\ \A i \in 1..Len(s) : \A u \in s[i] : u # t => u \in Rest(s, t)[i]
  <1>1. /\ Head(s) = s[1] /\ Head(s) \in SUBSET Tables /\ Len(s) \in Nat \ {0}
        /\ Tail(s) \in Seq(SUBSET Tables) /\ Len(Tail(s)) = Len(s) - 1
        /\ \A i \in 1..Len(Tail(s)) : Tail(s)[i] = s[i + 1]
    BY EmptySeq, HeadTailProperties
  <1>2. CASE Head(s) = {t}
    <2>1. Rest(s, t) = Tail(s)
      BY <1>2 DEF Rest
    <2>2. ASSUME NEW i \in 1..Len(s), NEW u \in s[i], u # t
          PROVE  i - 1 \in 1..Len(Tail(s)) /\ u \in Tail(s)[i - 1]
      <3>1. i # 1
        BY <1>1, <1>2, <2>2
      <3>2. i - 1 \in 1..Len(Tail(s)) /\ (i - 1) + 1 = i
        BY <1>1, <3>1
      <3> QED
        BY <1>1, <2>2, <3>2
    <2> QED
      BY <1>1, <2>1, <2>2
  <1>3. CASE Head(s) # {t}
    <2> DEFINE rest == Rest(s, t)
               first == <<Head(s) \ {t}>>
               tail == Tail(s)
    <2>1. /\ first \in Seq(SUBSET Tables) /\ Len(first) = 1 /\ first[1] = Head(s) \ {t}
          /\ tail \in Seq(SUBSET Tables)
      BY <1>1
    <2>2. rest = first \o tail
      BY <1>3 DEF Rest
    <2>3. Len(tail) = Len(s) - 1 /\ \A i \in 1..Len(tail) : tail[i] = s[i + 1]
      BY <1>1
    <2> HIDE DEF first, rest, tail
    <2>4. /\ rest \in Seq(SUBSET Tables) /\ Len(rest) = Len(first) + Len(tail)
          /\ \A i \in 1..Len(first) + Len(tail) :
               rest[i] = IF i <= Len(first) THEN first[i] ELSE tail[i - Len(first)]
      BY ONLY <2>1, <2>2, ConcatProperties
    <2>5. Len(rest) = Len(s)
      BY <1>1, <2>1, <2>3, <2>4
    <2>6. rest[1] = first[1] /\ \A i \in 2..Len(s) : rest[i] = s[i]
      <3>1. rest[1] = first[1]
        BY <1>1, <2>1, <2>3, <2>4
      <3>2. ASSUME NEW i \in 2..Len(s)  PROVE rest[i] = s[i]
        <4>1. rest[i] = tail[i - 1] /\ i - 1 \in 1..Len(tail)
          BY <1>1, <2>1, <2>3, <2>4
        <4>2. tail[i - 1] = s[(i - 1) + 1] /\ (i - 1) + 1 = i
          BY <4>1, <2>3
        <4> QED
          BY <4>1, <4>2
      <3> QED
        BY <3>1, <3>2
    <2>7. t \notin rest[1] /\ \A i \in 1..Len(rest) : rest[i] \subseteq s[i]
      BY <1>1, <2>1, <2>5, <2>6
    <2>8. \A i \in 1..Len(s) : \A u \in s[i] : u # t => u \in rest[i]
      BY <1>1, <2>1, <2>6
    <2> QED
      BY <2>4, <2>5, <2>7, <2>8 DEF rest
  <1> QED
    BY <1>2, <1>3
(* Every plan a reader may start with reads in order.                         *)
LEMMA StagesOrdered ==
  ASSUME NEW k \in Kinds, NEW s \in Stages(k), NEW found,
         \A t \in Tables : found[t] = Unread
  PROVE  s \in Seq(SUBSET Tables) /\ OrderedPlan(s, found)
  <1> DEFINE P(x) == x \in Seq(SUBSET Tables) /\ OrderedPlan(x, found)
  <1>1. P(<<{"config"}, {"rules", "targets"}, {"conditions", "segmentConditions"}>>)
    BY DEF OrderedPlan, Narrows, Tables
  <1>2. P(<<{"config"}, {"rules", "targets"}, {"conditions"}>>)
    BY DEF OrderedPlan, Narrows, Tables
  <1>3. P(<<{"config"}, {"rules"}, {"conditions", "targets"}>>)
    BY DEF OrderedPlan, Narrows, Tables
  <1>4. P(<<{"config"}, {"rules"}, {"conditions"}, {"targets"}, {"segmentConditions"}>>)
    BY DEF OrderedPlan, Narrows, Tables
  <1>5. P(<<{"config"}, {"rules"}, {"conditions"}, {"targets"}>>)
    BY DEF OrderedPlan, Narrows, Tables
  <1> QED
    BY <1>1, <1>2, <1>3, <1>4, <1>5
    DEF Kinds, Stages, SnapshotStages, DetailStages, DecisionStages, CopyStages

(* What is left of an ordered plan is ordered once one of its first tables    *)
(* has been read, whatever was found there.                                  *)
LEMMA RestOrdered ==
  ASSUME NEW s \in Seq(SUBSET Tables), s # <<>>, NEW t \in Head(s), t \in Tables,
         NEW found \in [Tables -> Nat \cup {Unread, Gone}], OrderedPlan(s, found),
         NEW w, w # Unread
  PROVE  OrderedPlan(Rest(s, t), [found EXCEPT ![t] = w])
  <1> DEFINE rest == Rest(s, t)
             after == [found EXCEPT ![t] = w]
  <1>1. Len(s) \in Nat \ {0} /\ t \in s[1] /\ rest \in Seq(SUBSET Tables) /\ Len(rest) \in Nat
    BY EmptySeq, RestOfPlan
  <1>2. PICK k \in {0, 1} :
          /\ Len(rest) = Len(s) - k /\ (k = 0 => t \notin rest[1])
          /\ \A i \in 1..Len(rest) : rest[i] \subseteq s[i + k]
          /\ \A i \in 1..Len(s) : \A u \in s[i] : u # t =>
               i - k \in 1..Len(rest) /\ u \in rest[i - k]
    BY <1>1, RestOfPlan
  <1> HIDE DEF rest
  <1>3. \A i \in 1..Len(rest) : i + k \in 1..Len(s) /\ t \notin rest[i]
    <2> SUFFICES ASSUME NEW i \in 1..Len(rest), t \in rest[i]  PROVE FALSE
      BY <1>1, <1>2
    <2>1. i + k \in 1..Len(s) /\ t \in s[i + k]
      BY <1>1, <1>2
    <2>2. i + k = 1
      BY <1>1, <2>1 DEF OrderedPlan
    <2> QED
      BY <1>2, <2>2
  <1>4. \A p \in Narrows : p[1] # p[2] /\ p[1] \in Tables /\ p[2] \in Tables
    BY DEF Narrows, Tables
  <1>5. ASSUME NEW i \in 1..Len(rest), NEW u \in rest[i]
        PROVE  /\ after[u] = Unread
               /\ \A j \in 1..Len(rest) : u \in rest[j] => j = i
               /\ \A p \in Narrows : p[1] = u =>
                    after[p[2]] = Unread /\ \A j \in 1..i : p[2] \notin rest[j]
               /\ \A p \in Narrows : p[2] = u =>
                    after[p[1]] # Unread \/ \E j \in 1..Len(rest) : j < i /\ p[1] \in rest[j]
    <2>1. u # t /\ u \in Tables /\ i + k \in 1..Len(s) /\ u \in s[i + k]
      BY <1>1, <1>2, <1>3, <1>5
    <2>2. after[u] = Unread
      BY <2>1 DEF OrderedPlan
    <2>3. ASSUME NEW j \in 1..Len(rest), u \in rest[j]  PROVE j = i
      <3>1. j + k \in 1..Len(s) /\ u \in s[j + k]
        BY <1>2, <1>3, <2>3
      <3>2. j + k = i + k
        BY <2>1, <3>1 DEF OrderedPlan
      <3> QED
        BY <1>1, <3>2
    <2>4. ASSUME NEW p \in Narrows, p[1] = u
          PROVE  after[p[2]] = Unread /\ \A j \in 1..i : p[2] \notin rest[j]
      <3>1. found[p[2]] = Unread /\ \A j \in 1..(i + k) : p[2] \notin s[j]
        BY <2>1, <2>4 DEF OrderedPlan
      <3>2. p[2] # t
        BY <1>1, <2>1, <3>1
      <3>3. \A j \in 1..i : j + k \in 1..(i + k) /\ j \in 1..Len(rest)
        BY <1>1, <2>1
      <3>4. \A j \in 1..i : p[2] \notin rest[j]
        BY <1>2, <3>1, <3>3
      <3> QED
        BY <1>4, <3>1, <3>2, <3>4
    <2>5. ASSUME NEW p \in Narrows, p[2] = u
          PROVE  after[p[1]] # Unread \/ \E j \in 1..Len(rest) : j < i /\ p[1] \in rest[j]
      <3>1. CASE p[1] = t
        BY <1>4, <3>1
      <3>2. CASE p[1] # t /\ found[p[1]] # Unread
        BY <1>4, <3>2
      <3>3. CASE p[1] # t /\ \E j \in 1..Len(s) : j < i + k /\ p[1] \in s[j]
        <4>1. PICK j \in 1..Len(s) : j < i + k /\ p[1] \in s[j]
          BY <3>3
        <4>2. j - k \in 1..Len(rest) /\ p[1] \in rest[j - k]
          BY <1>2, <3>3, <4>1
        <4>3. j - k < i
          BY <1>1, <4>1
        <4> QED
          BY <4>2, <4>3
      <3> QED
        BY <2>1, <2>5, <3>1, <3>2, <3>3 DEF OrderedPlan
    <2> QED
      BY <2>2, <2>3, <2>4, <2>5
  <1> QED
    BY <1>5 DEF OrderedPlan, rest

--------------------------------------------------------------------------------
(* The steps *)

(* The initial states satisfy the invariant.                                *)
LEMMA InitHolds == ReadersInit => IInv
  <1> SUFFICES ASSUME ReadersInit  PROVE IInv
    OBVIOUS
  <1>1. HistoryForward
    BY DEF ReadersInit, HistoryForward, Tables
  <1>2. \A r \in Readers : plan[r] \in Seq(SUBSET Tables) /\ OrderedPlan(plan[r], seen[r])
    <2> TAKE r \in Readers
    <2>1. kind[r] \in Kinds /\ plan[r] \in Stages(kind[r])
          /\ \A t \in Tables : seen[r][t] = Unread
      BY DEF ReadersInit
    <2> QED
      BY <2>1, StagesOrdered
  <1>3. plan \in [Readers -> Seq(SUBSET Tables)]
    BY <1>2 DEF ReadersInit
  <1>4. \A r \in Readers, t \in Tables : seen[r][t] = Unread
    BY DEF ReadersInit
  <1>5. SeenCommitted
    BY <1>4, NoWriters DEF ReadersInit, SeenCommitted
  <1>6. GoneWithRules /\ SeenInOrder
    BY <1>4, NoWriters DEF GoneWithRules, SeenInOrder, Narrows, Tables
  <1> QED
    BY <1>1, <1>2, <1>3, <1>5, <1>6 DEF IInv, PlansOrdered

(* A commit appends a state in which every table is as new as before or has   *)
(* just been written.                                                        *)
LEMMA CommitKeeps ==
  ASSUME IInv, NEW tables \in SUBSET Tables, Commit(tables)
  PROVE  IInv'
  <1> DEFINE n == Len(history)
             new == [t \in Tables |-> IF t \in tables THEN n + 1 ELSE history[n][t]]
  <1>1. /\ history \in Seq([Tables -> Nat]) /\ n \in Nat \ {0} /\ n \in 1..n
        /\ history' = Append(history, new) /\ kind' = kind /\ plan' = plan /\ seen' = seen
    BY EmptySeq DEF IInv, HistoryForward, Commit, Last
  <1>2. \A t \in Tables : history[n][t] \in 1..n
    BY <1>1 DEF IInv, HistoryForward
  <1>3. new \in [Tables -> Nat] /\ \A t \in Tables : new[t] \in 1..(n + 1) /\ history[n][t] <= new[t]
    BY <1>1, <1>2
  <1> HIDE DEF new
  <1>5. /\ history' \in Seq([Tables -> Nat]) /\ history' # <<>> /\ Len(history') = n + 1
        /\ history'[n + 1] = new /\ \A m \in 1..n : history'[m] = history[m]
    BY <1>1, <1>3
  <1> HIDE DEF n
  <1>6. HistoryForward'
    <2>1. \A m \in 1..(n + 1) : \A t \in Tables : history'[m][t] \in 1..m
      BY <1>1, <1>3, <1>5 DEF IInv, HistoryForward, n
    <2>2. ASSUME NEW l \in 1..(n + 1), NEW m \in 1..(n + 1), l <= m, NEW t \in Tables
          PROVE  history'[l][t] <= history'[m][t]
      <3>1. CASE m \in 1..n
        BY <1>1, <1>5, <2>2, <3>1 DEF IInv, HistoryForward, n
      <3>2. CASE m = n + 1 /\ l = n + 1
        BY <1>3, <1>5, <3>2
      <3>3. CASE m = n + 1 /\ l \in 1..n
        <4>0. n \in 1..n /\ l <= n
          BY <1>1, <3>3
        <4>1. history[l][t] <= history[n][t] /\ history[n][t] <= new[t]
          BY <1>3, <3>3, <4>0 DEF IInv, HistoryForward, n
        <4>2. history[l][t] \in Nat /\ history[n][t] \in Nat /\ new[t] \in Nat
          BY <1>1, <1>3, <3>3 DEF IInv, HistoryForward, n
        <4> QED
          BY <1>5, <3>3, <4>1, <4>2
      <3>4. n \in Nat /\ l <= m /\ l \in 1..(n + 1) /\ m \in 1..(n + 1)
        BY <1>1, <2>2
      <3>5. m \in 1..n \/ (m = n + 1 /\ l = n + 1) \/ (m = n + 1 /\ l \in 1..n)
        BY <3>4
      <3> QED
        BY <3>1, <3>2, <3>3, <3>5
    <2> QED
      BY <1>5, <2>1, <2>2 DEF HistoryForward
  <1>7. SeenCommitted'
    <2> SUFFICES ASSUME NEW r \in Readers, NEW t \in Tables, seen[r][t] \in Nat
                 PROVE  seen[r][t] \in 1..(n + 1) /\ seen[r][t] <= new[t]
      BY <1>1, <1>5 DEF IInv, SeenCommitted
    <2>1. seen[r][t] \in 1..n /\ seen[r][t] <= history[n][t]
      BY DEF IInv, SeenCommitted, n
    <2> QED
      BY <1>1, <1>2, <1>3, <2>1
  <1>8. SeenInOrder'
    <2> SUFFICES ASSUME NEW r \in Readers, NEW p \in Narrows,
                        seen[r][p[1]] \in Nat, seen[r][p[2]] \in Nat
                 PROVE  history'[seen[r][p[1]]][p[2]] <= seen[r][p[2]]
      BY <1>1 DEF SeenInOrder
    <2>1. history[seen[r][p[1]]][p[2]] <= seen[r][p[2]]
      BY DEF IInv, SeenInOrder
    <2>2. seen[r][p[1]] \in 1..n
      BY DEF IInv, SeenCommitted, Narrows, Tables, n
    <2> QED
      BY <1>5, <2>1, <2>2
  <1>9. GoneWithRules'
    <2> SUFFICES ASSUME NEW r \in Readers, NEW t \in Tables, seen[r][t] = Gone
                 PROVE  /\ t = "conditions" /\ seen[r]["rules"] \in Nat
                        /\ seen[r]["rules"] < new["rules"]
      BY <1>1, <1>5 DEF GoneWithRules
    <2>1. /\ t = "conditions" /\ seen[r]["rules"] \in Nat
          /\ seen[r]["rules"] < history[n]["rules"]
      BY DEF IInv, GoneWithRules, n
    <2>2. /\ history[n]["rules"] <= new["rules"]
          /\ history[n]["rules"] \in Nat /\ new["rules"] \in Nat
      BY <1>1, <1>2, <1>3 DEF Tables
    <2> QED
      BY <2>1, <2>2
  <1> QED
    BY <1>1, <1>6, <1>7, <1>8, <1>9 DEF IInv, PlansOrdered

(* A statement finds what stands, in a table whose predecessors have been     *)
(* read and whose successors have not.                                       *)
LEMMA ReadKeeps ==
  ASSUME IInv, NEW r \in Readers, NEW t \in Tables, Read(r, t)
  PROVE  IInv'
  <1> DEFINE n == Len(history)
             w == Found(r, t)
  <1>1. /\ n \in Nat \ {0} /\ plan[r] \in Seq(SUBSET Tables) /\ plan[r] # <<>>
        /\ t \in Head(plan[r]) /\ OrderedPlan(plan[r], seen[r])
        /\ seen \in [Readers -> [Tables -> Nat \cup {Unread, Gone}]]
        /\ plan' = [plan EXCEPT ![r] = Rest(plan[r], t)]
        /\ seen' = [seen EXCEPT ![r] = [seen[r] EXCEPT ![t] = w]] /\ history' = history
    BY EmptySeq DEF IInv, HistoryForward, PlansOrdered, SeenCommitted, Read, Rest
  <1>2. \/ w = Gone /\ t = "conditions" /\ history[n]["rules"] # seen[r]["rules"]
        \/ w = history[n][t]
    BY DEF Found, Last
  <1>3. /\ history[n][t] \in 1..n /\ w # Unread /\ w \in Nat \cup {Unread, Gone}
        /\ w \in Nat => w = history[n][t]
        /\ w = Gone => t = "conditions" /\ history[n]["rules"] # seen[r]["rules"]
    BY <1>1, <1>2, NoWriters DEF IInv, HistoryForward
  <1> HIDE DEF w
  <1>4. \A p \in Narrows : p[1] \in Tables /\ p[2] \in Tables /\ p[1] # p[2]
    BY DEF Narrows, Tables
  <1>5. \A p \in Narrows :
          /\ p[1] = t => seen[r][p[2]] = Unread
          /\ p[2] = t => seen[r][p[1]] # Unread
    <2>1. 1 \in 1..Len(plan[r]) /\ t \in plan[r][1]
      BY <1>1, EmptySeq
    <2> QED
      BY <1>1, <2>1 DEF OrderedPlan
  <1>6. /\ plan' \in [Readers -> Seq(SUBSET Tables)] /\ PlansOrdered'
    <2>1. Rest(plan[r], t) \in Seq(SUBSET Tables)
      BY <1>1, RestOfPlan
    <2>2. OrderedPlan(Rest(plan[r], t), [seen[r] EXCEPT ![t] = w])
      BY <1>1, <1>3, RestOrdered
    <2> QED
      BY <1>1, <2>1, <2>2 DEF IInv, PlansOrdered
  <1>7. SeenCommitted'
    BY <1>1, <1>3 DEF IInv, SeenCommitted
  <1>8. \A q \in Readers, u \in Tables : seen'[q][u] =
          IF q = r /\ u = t THEN w ELSE seen[q][u]
    BY <1>1
  <1>9. SeenInOrder'
    <2> SUFFICES ASSUME NEW q \in Readers, NEW p \in Narrows,
                        seen'[q][p[1]] \in Nat, seen'[q][p[2]] \in Nat
                 PROVE  history[seen'[q][p[1]]][p[2]] <= seen'[q][p[2]]
      BY <1>1 DEF SeenInOrder
    <2>1. p[1] \in Tables /\ p[2] \in Tables /\ p[1] # p[2]
      BY <1>4
    <2>2. CASE q = r /\ p[1] = t
      <3>1. seen'[q][p[2]] = seen[q][p[2]]
        BY <1>8, <2>1, <2>2
      <3>2. seen[r][p[2]] = Unread
        BY <1>5, <2>2
      <3> QED
        BY <2>2, <3>1, <3>2, NoWriters
    <2>3. CASE q = r /\ p[2] = t
      <3>1. seen'[q][p[1]] = seen[r][p[1]] /\ seen'[q][p[2]] = history[n][t]
        BY <1>3, <1>8, <2>1, <2>3
      <3>2. seen[r][p[1]] \in 1..n
        BY <2>1, <3>1 DEF IInv, SeenCommitted
      <3>3. history[seen[r][p[1]]][t] <= history[n][t]
        <4>1. n \in 1..n /\ seen[r][p[1]] <= n
          BY <1>1, <3>2
        <4> QED
          BY <3>2, <4>1 DEF IInv, HistoryForward
      <3> QED
        BY <2>3, <3>1, <3>3
    <2>4. CASE q # r \/ (p[1] # t /\ p[2] # t)
      BY <1>8, <2>1, <2>4 DEF IInv, SeenInOrder
    <2> QED
      BY <2>2, <2>3, <2>4
  <1>10. GoneWithRules'
    <2> SUFFICES ASSUME NEW q \in Readers, NEW u \in Tables, seen'[q][u] = Gone
                 PROVE  /\ u = "conditions" /\ seen'[q]["rules"] \in Nat
                        /\ seen'[q]["rules"] < history[n]["rules"]
      BY <1>1 DEF GoneWithRules
    <2>1. /\ "conditions" \in Tables /\ "rules" \in Tables
          /\ <<"rules", "conditions">> \in Narrows
      BY DEF Tables, Narrows
    <2>2. CASE q = r /\ u = t
      <3>1. t = "conditions" /\ history[n]["rules"] # seen[r]["rules"]
        BY <1>3, <1>8, <2>2
      <3>2. seen[r]["rules"] # Unread /\ seen[r]["rules"] # Gone
        BY <1>5, <2>1, <3>1 DEF IInv, GoneWithRules
      <3>3. seen[r]["rules"] \in 1..n /\ seen[r]["rules"] <= history[n]["rules"]
        BY <1>1, <2>1, <3>2 DEF IInv, SeenCommitted
      <3>4. history[n]["rules"] \in 1..n
        <4>1. n \in 1..n
          BY <1>1
        <4> QED
          BY <2>1, <4>1 DEF IInv, HistoryForward
      <3> QED
        BY <1>8, <2>1, <2>2, <3>1, <3>3, <3>4
    <2>3. CASE ~(q = r /\ u = t)
      <3>1. /\ u = "conditions" /\ seen[q]["rules"] \in Nat
            /\ seen[q]["rules"] < history[n]["rules"]
        BY <1>8, <2>3 DEF IInv, GoneWithRules
      <3>2. q = r => t # "rules"
        <4>1. seen[q][u] = Gone
          BY <1>8, <2>3
        <4>2. t = "rules" => seen[r]["conditions"] = Unread
          <5> DEFINE p == <<"rules", "conditions">>
          <5>1. p[1] = "rules" /\ p[2] = "conditions" /\ p \in Narrows
            BY <2>1
          <5> HIDE DEF p
          <5>2. p[1] = t => seen[r][p[2]] = Unread
            BY <1>5, <5>1
          <5> QED
            BY <5>1, <5>2
        <4> QED
          BY <3>1, <4>1, <4>2, NoWriters
      <3> QED
        BY <1>8, <2>1, <3>1, <3>2
    <2> QED
      BY <2>2, <2>3
  <1>11. HistoryForward'
    BY <1>1 DEF IInv, HistoryForward
  <1> QED
    BY <1>6, <1>7, <1>9, <1>10, <1>11 DEF IInv

(* Every step preserves the invariant.                                      *)
LEMMA NextKeeps == IInv /\ [ReadersNext]_readerVars => IInv'
  <1> SUFFICES ASSUME IInv, [ReadersNext]_readerVars  PROVE IInv'
    OBVIOUS
  <1>1. CASE PublishParts
    <2>1. PICK parts \in Payloads :
            Commit(IF "rules" \in parts THEN parts \cup {"conditions"} ELSE parts)
      BY <1>1 DEF PublishParts
    <2>2. parts \subseteq {"config", "rules", "targets"}
      BY PayloadsPublish
    <2> QED
      BY <2>1, <2>2, CommitKeeps DEF Tables
  <1>2. CASE UpdateSegment
    BY <1>2, CommitKeeps DEF UpdateSegment, Tables
  <1>3. CASE \E r \in Readers, t \in Tables : Read(r, t)
    BY <1>3, ReadKeeps
  <1>4. CASE UNCHANGED readerVars
    BY <1>4 DEF readerVars, IInv, HistoryForward, SeenCommitted, GoneWithRules, PlansOrdered,
                SeenInOrder
  <1> QED
    BY <1>1, <1>2, <1>3, <1>4 DEF ReadersNext

(* The invariant holds in every state.                                      *)
LEMMA Inductive == ReadersSpec => []IInv
  BY InitHolds, NextKeeps, PTL DEF ReadersSpec

--------------------------------------------------------------------------------
(* The theorems *)

(* However many publishes and segment edits commit between its statements, a  *)
(* read pairs a table with what narrows it as it stood when the table was    *)
(* written or later; only rules that have been replaced since they were read *)
(* are ever read without their conditions.                                   *)
THEOREM WiderOnlyByReplacement == ReadersSpec => []WiderOnlyByReplacedRules
  <1>1. ASSUME IInv  PROVE WiderOnlyByReplacedRules
    <2> SUFFICES ASSUME NEW r \in Readers, NEW p \in Narrows, Has(r, p[1]), Has(r, p[2]), ~AsNew(r, p)
                 PROVE  /\ p = <<"rules", "conditions">> /\ seen[r]["conditions"] = Gone
                        /\ seen[r]["rules"] < Last(history)["rules"]
      BY DEF WiderOnlyByReplacedRules
    <2>1. p[1] \in Tables /\ p[2] \in Tables /\ (p[2] = "conditions" => p = <<"rules", "conditions">>)
          /\ p[1] # "conditions"
      BY DEF Narrows, Tables
    <2>2. seen[r][p[1]] \in Nat
      BY <1>1, <2>1 DEF IInv, SeenCommitted, GoneWithRules, Has
    <2>3. seen[r][p[2]] = Gone
      BY <1>1, <2>1, <2>2 DEF IInv, SeenCommitted, SeenInOrder, Has, AsNew
    <2> QED
      BY <1>1, <2>1, <2>3 DEF IInv, GoneWithRules, Last
  <1> QED
    BY <1>1, Inductive, PTL

--------------------------------------------------------------------------------
(* Lists read page by page *)

Rows == [at : Nat, id : Nat]

(* Where a cursor is as fine as the order: a key, a version number, or a time    *)
(* that is kept in milliseconds.                                             *)
ExactCursors == Tick = 1 \/ \A l \in Lists : l.by # "stamp"

(* What the loader has is in the list's order, up to the cursor; and of what    *)
(* was there all along, it has what is not after the cursor.                 *)
PagingInv ==
  /\ list \in Lists
  /\ rows \cup gone \subseteq Rows /\ IsFiniteSet(rows) /\ Distinct(rows \cup gone)
  /\ kept \subseteq rows
  /\ collected \in Seq(rows \cup gone)
  /\ \A m, n \in 1..Len(collected) : m < n => Precedes(collected[m], collected[n])
  /\ loader = "reading" =>
       /\ IF collected = <<>> THEN cursor = Start ELSE cursor = collected[Len(collected)]
       /\ \A row \in kept : After(row) \/ row \in ToSet(collected)
  /\ loader = "done" => kept \subseteq ToSet(collected)

LEMMA PrecedesIs ==
  ASSUME NEW a \in Rows, NEW b \in Rows, NEW c \in Rows
  PROVE  /\ ~Precedes(a, a)
         /\ Precedes(a, b) /\ Precedes(b, c) => Precedes(a, c)
  BY DEF Precedes, Newer, Rows

LEMMA DistinctIsTotal ==
  ASSUME NEW S \in SUBSET Rows, Distinct(S), NEW a \in S, NEW b \in S, a # b
  PROVE  Precedes(a, b) \/ Precedes(b, a)
  BY DEF Distinct, Precedes, Newer, Rows

(* Every place of a finite list is taken, by one row.                         *)
LEMMA PlacesAre ==
  ASSUME NEW S \in SUBSET Rows, IsFiniteSet(S), Distinct(S)
  PROVE  /\ Cardinality(S) \in Nat
         /\ \A row \in S : Place(row, S) \in 0..(Cardinality(S) - 1)
         /\ \A a, b \in S : Precedes(a, b) => Place(a, S) < Place(b, S)
         /\ \A a, b \in S : Place(a, S) = Place(b, S) => a = b
         /\ \A n \in 0..(Cardinality(S) - 1) : \E row \in S : Place(row, S) = n
  <1> DEFINE Before(row) == {other \in S : Precedes(other, row)}
  <1>1. Cardinality(S) \in Nat
    BY FS_CardinalityType
  <1>2. ASSUME NEW row \in S
        PROVE  IsFiniteSet(Before(row)) /\ Place(row, S) \in 0..(Cardinality(S) - 1)
    <2>1. IsFiniteSet(S \ {row}) /\ Cardinality(S \ {row}) = Cardinality(S) - 1
      BY FS_RemoveElement
    <2>2. Before(row) \subseteq S \ {row}
      BY PrecedesIs
    <2>3. /\ IsFiniteSet(Before(row)) /\ Cardinality(Before(row)) \in Nat
          /\ Cardinality(Before(row)) <= Cardinality(S \ {row})
      BY <2>1, <2>2, FS_Subset, FS_CardinalityType
    <2> QED
      BY <1>1, <2>1, <2>3 DEF Place
  <1>3. ASSUME NEW a \in S, NEW b \in S, Precedes(a, b)
        PROVE  Place(a, S) < Place(b, S)
    <2>0. Place(a, S) = Cardinality(Before(a)) /\ Place(b, S) = Cardinality(Before(b))
      BY DEF Place
    <2>1. a \notin Before(a)
      BY PrecedesIs
    <2>2. Before(a) \cup {a} \subseteq Before(b)
      BY <1>3, PrecedesIs
    <2>3. Cardinality(Before(a) \cup {a}) = Cardinality(Before(a)) + 1
      BY <1>2, <2>1, FS_AddElement
    <2>4. Cardinality(Before(a) \cup {a}) <= Cardinality(Before(b))
      BY <1>2, <2>2, FS_Subset
    <2> HIDE DEF Before
    <2> QED
      BY <1>1, <1>2, <2>0, <2>3, <2>4
  <1>4. ASSUME NEW a \in S, NEW b \in S, Place(a, S) = Place(b, S)
        PROVE  a = b
    <2>1. ~(Place(a, S) < Place(b, S)) /\ ~(Place(b, S) < Place(a, S))
      <3>1. Place(a, S) \in 0..(Cardinality(S) - 1)
        BY <1>2
      <3> QED
        BY <1>1, <1>4, <3>1
    <2>2. ~Precedes(a, b) /\ ~Precedes(b, a)
      BY <1>3, <2>1
    <2> QED
      BY <2>2, DistinctIsTotal
  <1>5. ASSUME NEW n \in 0..(Cardinality(S) - 1)
        PROVE  \E row \in S : Place(row, S) = n
    <2> SUFFICES ASSUME \A row \in S : Place(row, S) # n PROVE FALSE
      OBVIOUS
    <2> DEFINE T == 0..(Cardinality(S) - 1)
               f == [row \in S |-> Place(row, S)]
    <2>1. IsFiniteSet(T) /\ Cardinality(T) = Cardinality(S)
      BY <1>1, FS_Interval
    <2>2. IsFiniteSet(T \ {n}) /\ Cardinality(T \ {n}) = Cardinality(S) - 1
      BY <2>1, FS_RemoveElement
    <2>3. f \in [S -> T \ {n}]
      BY <1>2
    <2> HIDE DEF f
    <2>4. \E a, b \in S : a # b /\ f[a] = f[b]
      BY <1>1, <2>2, <2>3, FS_PigeonHole
    <2> QED
      BY <1>4, <2>4 DEF f
  <1> QED
    BY <1>1, <1>2, <1>3, <1>4, <1>5

(* What a statement fetches is in order, without a gap from the cursor on.     *)
LEMMA FetchedIs ==
  ASSUME NEW S \in SUBSET Rows, IsFiniteSet(S), Distinct(S), S = {row \in rows : After(row)}
  PROVE  /\ Fetched \in Seq(S)
         /\ Len(Fetched) = IF Cardinality(S) <= Limit THEN Cardinality(S) ELSE Limit + 1
         /\ \A n \in 1..Len(Fetched) : Place(Fetched[n], S) = n - 1
  <1> DEFINE size == IF Cardinality(S) <= Limit THEN Cardinality(S) ELSE Limit + 1
             row_(n) == CHOOSE row \in S : Place(row, S) = n - 1
  <1>1. size \in Nat /\ size <= Cardinality(S) /\ Cardinality(S) \in Nat
    BY PlacesAre, PagesHoldRows
  <1>2. \A n \in 1..size : row_(n) \in S /\ Place(row_(n), S) = n - 1
    <2>1. ASSUME NEW n \in 1..size
          PROVE  \E row \in S : Place(row, S) = n - 1
      <3>1. n - 1 \in 0..(Cardinality(S) - 1)
        BY <1>1
      <3> QED
        BY <3>1, PlacesAre
    <2> QED
      BY <2>1
  <1>3. Fetched = [n \in 1..size |-> row_(n)]
    BY DEF Fetched
  <1> HIDE DEF size, row_
  <1>4. Fetched \in Seq(S) /\ Len(Fetched) = size
    BY <1>1, <1>2, <1>3
  <1> QED
    BY <1>2, <1>3, <1>4 DEF size

(* A page is in order, and ends with the cursor it hands on, or with the list. *)
LEMMA PageIs ==
  ASSUME ExactCursors, list \in Lists,
         NEW S \in SUBSET Rows, IsFiniteSet(S), Distinct(S), S = {row \in rows : After(row)},
         NEW page, page = toPage(Fetched)
  PROVE  /\ page.data \in Seq(S)
         /\ \A m, n \in 1..Len(page.data) : m < n => Precedes(page.data[m], page.data[n])
         /\ page.nextCursor = Start => S \subseteq ToSet(page.data)
         /\ page.nextCursor # Start =>
              /\ page.data # <<>> /\ page.nextCursor = page.data[Len(page.data)]
              /\ \A row \in S : Precedes(page.nextCursor, row) \/ row \in ToSet(page.data)
  <1> DEFINE size == IF Cardinality(S) <= Limit THEN Cardinality(S) ELSE Limit
  <1>1. Cardinality(S) \in Nat /\ Limit \in Nat /\ Limit > 0
    BY PlacesAre, PagesHoldRows
  <1>2. page.data \in Seq(S) /\ Len(page.data) = size
        /\ \A n \in 1..size : page.data[n] \in S /\ Place(page.data[n], S) = n - 1
    <2>1. CASE Cardinality(S) <= Limit
      <3>1. /\ Len(Fetched) = Cardinality(S) /\ Fetched \in Seq(S)
            /\ \A n \in 1..Cardinality(S) : Place(Fetched[n], S) = n - 1
        BY <1>1, <2>1, FetchedIs
      <3>2. page.data = Fetched
        BY <1>1, <2>1, <3>1 DEF toPage
      <3>3. size = Cardinality(S)
        BY <2>1
      <3>4. \A n \in 1..Cardinality(S) : page.data[n] = Fetched[n] /\ Fetched[n] \in S
        BY <1>1, <3>1, <3>2
      <3> HIDE DEF size
      <3> QED
        BY <1>1, <3>1, <3>2, <3>3, <3>4
    <2>2. CASE Cardinality(S) > Limit
      <3>1. Len(Fetched) = Limit + 1 /\ Fetched \in Seq(S)
        BY <1>1, <2>2, FetchedIs
      <3>2. page.data = SubSeq(Fetched, 1, Limit)
        BY <1>1, <3>1 DEF toPage
      <3>3. page.data \in Seq(S) /\ Len(page.data) = Limit
            /\ \A n \in 1..Limit : page.data[n] = Fetched[n]
        BY <1>1, <3>1, <3>2
      <3>4. \A n \in 1..(Limit + 1) : Place(Fetched[n], S) = n - 1
        BY <1>1, <2>2, FetchedIs
      <3>5. size = Limit /\ 1..Limit \subseteq 1..(Limit + 1)
        BY <1>1, <2>2
      <3>6. \A n \in 1..Limit : page.data[n] \in S
        BY <1>1, <3>3
      <3> HIDE DEF size
      <3> QED
        BY <3>3, <3>4, <3>5, <3>6
    <2> QED
      BY <1>1, <2>1, <2>2
  <1>3. ASSUME NEW m \in 1..size, NEW n \in 1..size, m < n
        PROVE  Precedes(page.data[m], page.data[n])
    <2>1. /\ page.data[m] \in S /\ page.data[n] \in S
          /\ Place(page.data[m], S) < Place(page.data[n], S)
      BY <1>1, <1>2, <1>3
    <2>2. page.data[m] # page.data[n]
          /\ ~Precedes(page.data[n], page.data[m])
      BY <2>1, PlacesAre
    <2> QED
      BY <2>1, <2>2, DistinctIsTotal
  <1>4. ASSUME NEW row \in S, Place(row, S) < size
        PROVE  row \in ToSet(page.data)
    <2>1. Place(row, S) + 1 \in 1..size /\ page.data[Place(row, S) + 1] = row
      BY <1>1, <1>2, <1>4, PlacesAre
    <2> QED
      BY <1>2, <2>1 DEF ToSet
  <1>5. CASE Cardinality(S) <= Limit
    <2>1. page.nextCursor = Start
      BY <1>1, <1>5, FetchedIs DEF toPage
    <2>2. S \subseteq ToSet(page.data)
      BY <1>1, <1>4, <1>5, PlacesAre
    <2> QED
      BY <1>2, <1>3, <2>1, <2>2
  <1>6. CASE Cardinality(S) > Limit
    <2> DEFINE last == page.data[Limit]
    <2>1. last \in S /\ Place(last, S) = Limit - 1
      BY <1>1, <1>2, <1>6
    <2>2. page.nextCursor = last
      <3>1. Len(Fetched) = Limit + 1 /\ page.nextCursor = CursorOf(Last(page.data))
        BY <1>1, <1>6, FetchedIs DEF toPage
      <3>2. Last(page.data) = last
        BY <1>1, <1>2, <1>6 DEF Last
      <3>3. CursorOf(last) = last
        BY <2>1, PagesHoldRows DEF CursorOf, ExactCursors, Rows
      <3> QED
        BY <3>1, <3>2, <3>3
    <2>3. last # Start
      BY <2>1, StartIsNoRow DEF Rows
    <2>4. ASSUME NEW row \in S, ~Precedes(last, row)
          PROVE  row \in ToSet(page.data)
      <3>1. row = last \/ Place(row, S) < Place(last, S)
        BY <2>1, <2>4, DistinctIsTotal, PlacesAre
      <3> QED
        BY <1>1, <1>4, <1>6, <2>1, <3>1, PlacesAre
    <2>5. size = Limit /\ Len(page.data) = Limit /\ page.data # <<>>
      BY <1>1, <1>2, <1>6
    <2> HIDE DEF size
    <2> QED
      BY <1>2, <1>3, <2>2, <2>3, <2>4, <2>5
  <1> QED
    BY <1>1, <1>5, <1>6

LEMMA PagingStart == PagingInit => PagingInv
  <1> SUFFICES ASSUME PagingInit PROVE PagingInv
    OBVIOUS
  <1>1. rows \in SUBSET Rows /\ IsFiniteSet(rows) /\ Distinct(rows) /\ rows \cup gone = rows
    BY PlacesAndIds DEF PagingInit, Rows
  <1>2. \A row \in kept : After(row)
    BY DEF PagingInit, After
  <1> QED
    BY <1>1, <1>2 DEF PagingInit, PagingInv

(* A row comes, leaves or returns.                                           *)
LEMMA RowsStep ==
  ASSUME PagingInv, Insert \/ Archive \/ Unarchive
  PROVE  PagingInv'
  <1>1. UNCHANGED <<list, cursor, collected, loader>> /\ kept' \subseteq kept
    BY DEF Insert, Archive, Unarchive, reader
  <1>2. /\ (rows \cup gone) \subseteq (rows' \cup gone') /\ (rows' \cup gone') \subseteq Rows
        /\ IsFiniteSet(rows') /\ Distinct(rows' \cup gone') /\ kept' \subseteq rows'
    <2>1. CASE Insert
      <3>1. PICK row \in [at : Places, id : Ids] :
              Distinct(rows \cup gone \cup {row}) /\ rows' = rows \cup {row} /\ gone' = gone
              /\ kept' = kept
        BY <2>1 DEF Insert
      <3>2. row \in Rows /\ rows' \cup gone' = rows \cup gone \cup {row} /\ IsFiniteSet(rows')
        BY <3>1, PlacesAndIds, FS_AddElement DEF PagingInv, Rows
      <3>3. Distinct(rows' \cup gone')
        BY <3>1, <3>2
      <3> QED
        BY <3>1, <3>2, <3>3 DEF PagingInv
    <2>2. CASE Archive
      <3>1. PICK row \in rows : rows' = rows \ {row} /\ gone' = gone \cup {row}
                                /\ kept' = kept \ {row}
        BY <2>2 DEF Archive
      <3>2. rows' \cup gone' = rows \cup gone /\ IsFiniteSet(rows')
        BY <3>1, FS_RemoveElement DEF PagingInv
      <3> QED
        BY <3>1, <3>2 DEF PagingInv
    <2>3. CASE Unarchive
      <3>1. PICK row \in gone : rows' = rows \cup {row} /\ gone' = gone \ {row} /\ kept' = kept
        BY <2>3 DEF Unarchive
      <3>2. rows' \cup gone' = rows \cup gone /\ IsFiniteSet(rows')
        BY <3>1, FS_AddElement DEF PagingInv
      <3> QED
        BY <3>1, <3>2 DEF PagingInv
    <2> QED
      BY <2>1, <2>2, <2>3
  <1> QED
    BY <1>1, <1>2 DEF PagingInv, Precedes, After, Distinct, Newer

LEMMA ReadPageStep ==
  ASSUME ExactCursors, PagingInv, ReadPage
  PROVE  PagingInv'
  <1>1. PICK page : page = toPage(Fetched)
    OBVIOUS
  <1>2. PICK S : S = {row \in rows : After(row)}
    OBVIOUS
  <1>3. S \in SUBSET Rows /\ IsFiniteSet(S) /\ Distinct(S) /\ S \subseteq rows
    BY <1>2, FS_Subset DEF PagingInv, Distinct
  <1>4. /\ page.data \in Seq(S)
        /\ \A m, n \in 1..Len(page.data) : m < n => Precedes(page.data[m], page.data[n])
        /\ page.nextCursor = Start => S \subseteq ToSet(page.data)
        /\ page.nextCursor # Start =>
             /\ page.data # <<>> /\ page.nextCursor = page.data[Len(page.data)]
             /\ \A row \in S : Precedes(page.nextCursor, row) \/ row \in ToSet(page.data)
    BY <1>1, <1>2, <1>3, PageIs DEF PagingInv
  <1>5. /\ collected' = collected \o page.data /\ cursor' = page.nextCursor
        /\ loader' = (IF page.nextCursor = Start THEN "done" ELSE "reading")
        /\ loader = "reading" /\ UNCHANGED <<list, rows, gone, kept>>
    BY <1>1 DEF ReadPage
  <1>6. PICK c \in Seq(Rows) : c = collected
    BY DEF PagingInv
  <1>7. PICK d \in Seq(Rows) : d = page.data
    BY <1>3, <1>4
  <1>8. /\ collected' \in Seq(rows \cup gone) /\ Len(c \o d) = Len(c) + Len(d)
        /\ \A n \in 1..Len(c) : (c \o d)[n] = c[n]
        /\ \A n \in (Len(c) + 1)..(Len(c) + Len(d)) : (c \o d)[n] = d[n - Len(c)]
    <2>1. page.data \in Seq(rows \cup gone) /\ collected \in Seq(rows \cup gone)
      BY <1>3, <1>4 DEF PagingInv
    <2> QED
      BY <1>5, <1>6, <1>7, <2>1
  <1>9. ASSUME NEW m \in 1..Len(c \o d), NEW n \in 1..Len(c \o d), m < n
        PROVE  Precedes((c \o d)[m], (c \o d)[n])
    <2>1. CASE n <= Len(c)
      BY <1>6, <1>8, <1>9, <2>1 DEF PagingInv
    <2>2. CASE m > Len(c)
      <3>1. /\ m - Len(c) \in 1..Len(d) /\ n - Len(c) \in 1..Len(d) /\ m - Len(c) < n - Len(c)
            /\ (c \o d)[m] = d[m - Len(c)] /\ (c \o d)[n] = d[n - Len(c)]
        BY <1>8, <1>9, <2>2
      <3> QED
        BY <1>4, <1>7, <3>1
    <2>3. CASE m <= Len(c) /\ n > Len(c)
      <3>1. /\ n - Len(c) \in 1..Len(d) /\ m \in 1..Len(c)
            /\ (c \o d)[m] = c[m] /\ (c \o d)[n] = d[n - Len(c)]
        BY <1>8, <1>9, <2>3
      <3>2. d[n - Len(c)] \in S
        BY <1>4, <1>7, <3>1
      <3>3. cursor = c[Len(c)] /\ cursor \in Rows /\ cursor # Start
        <4>1. c # <<>> /\ Len(c) \in 1..Len(c)
          BY <3>1
        <4>2. cursor = c[Len(c)]
          BY <1>5, <1>6, <4>1 DEF PagingInv
        <4>3. c[Len(c)] \in Rows
          BY <4>1
        <4> QED
          BY <4>2, <4>3, StartIsNoRow DEF Rows
      <3>4. Precedes(c[Len(c)], d[n - Len(c)])
        BY <1>2, <3>2, <3>3 DEF After
      <3>5. m = Len(c) \/ Precedes(c[m], c[Len(c)])
        BY <1>6, <3>1 DEF PagingInv
      <3>6. c[m] \in Rows /\ c[Len(c)] \in Rows /\ d[n - Len(c)] \in Rows
        BY <1>3, <3>1, <3>2
      <3> QED
        BY <3>1, <3>4, <3>5, <3>6, PrecedesIs
    <2> QED
      BY <1>8, <2>1, <2>2, <2>3
  <1>10. /\ ToSet(collected) \subseteq ToSet(collected') /\ ToSet(page.data) \subseteq ToSet(collected')
    <2>1. ASSUME NEW n \in 1..Len(d)
          PROVE  d[n] \in ToSet(c \o d)
      <3>1. Len(c) + n \in 1..Len(c \o d) /\ (c \o d)[Len(c) + n] = d[n]
        BY <1>8
      <3> QED
        BY <3>1 DEF ToSet
    <2>2. ASSUME NEW n \in 1..Len(c)
          PROVE  c[n] \in ToSet(c \o d)
      <3>1. n \in 1..Len(c \o d) /\ (c \o d)[n] = c[n]
        BY <1>8
      <3> QED
        BY <3>1 DEF ToSet
    <2>3. /\ \A row \in ToSet(c) : \E n \in 1..Len(c) : row = c[n]
          /\ \A row \in ToSet(d) : \E n \in 1..Len(d) : row = d[n]
      BY DEF ToSet
    <2>4. ToSet(c) \subseteq ToSet(c \o d) /\ ToSet(d) \subseteq ToSet(c \o d)
      BY <2>1, <2>2, <2>3
    <2> QED
      BY <1>5, <1>6, <1>7, <2>4
  <1>11. /\ list' \in Lists /\ rows' \cup gone' \subseteq Rows /\ IsFiniteSet(rows')
         /\ kept' \subseteq rows' /\ collected' \in Seq(rows' \cup gone')
    BY <1>5, <1>8 DEF PagingInv
  <1>12. Distinct(rows \cup gone)'
    BY <1>5 DEF PagingInv, Distinct
  <1>13. \A m, n \in 1..Len(collected') : m < n => Precedes(collected[m], collected[n])'
    <2>1. collected' = c \o d /\ list' = list
      BY <1>5, <1>6, <1>7
    <2> SUFFICES ASSUME NEW m \in 1..Len(collected'), NEW n \in 1..Len(collected'), m < n
                 PROVE  Precedes(collected[m], collected[n])'
      OBVIOUS
    <2>2. Precedes((c \o d)[m], (c \o d)[n])
      BY <1>9, <2>1
    <2> QED
      BY <2>1, <2>2 DEF Precedes, Newer
  <1>14. \A row \in kept : row \in S \/ row \in ToSet(collected)
    BY <1>2, <1>5 DEF PagingInv
  <1>15. CASE page.nextCursor = Start
    <2>1. kept' \subseteq ToSet(collected')
      BY <1>4, <1>5, <1>10, <1>14, <1>15
    <2> QED
      BY <1>5, <1>15, <1>11, <1>12, <1>13, <2>1 DEF PagingInv
  <1>16. CASE page.nextCursor # Start
    <2>1. \A row \in kept' : After(row)' \/ row \in ToSet(collected')
      BY <1>4, <1>5, <1>10, <1>14, <1>16 DEF After, Precedes, Newer
    <2>2. collected' # <<>> /\ cursor' = collected'[Len(collected')]
      <3>1. Len(d) >= 1 /\ page.nextCursor = d[Len(d)]
        BY <1>4, <1>7, <1>16
      <3>2. Len(c \o d) = Len(c) + Len(d) /\ (c \o d)[Len(c) + Len(d)] = d[Len(d)]
        BY <1>8, <3>1
      <3> QED
        BY <1>5, <1>6, <1>7, <3>1, <3>2
    <2> QED
      BY <1>5, <1>16, <1>11, <1>12, <1>13, <2>1, <2>2 DEF PagingInv
  <1> QED
    BY <1>15, <1>16

(* A list read to its end has every row that was there all along, and none     *)
(* twice, whatever is created, archived and brought back between the pages:    *)
(* for lists of any size, by key, by version number, or by times as fine as    *)
(* their cursors. For times of microseconds it is refuted.                   *)
THEOREM EveryRowOnce ==
  ASSUME ExactCursors PROVE PagingSpec => []NoRowSkippedOrRepeated
  <1>1. ASSUME PagingInv, [PagingNext]_pagingVars
        PROVE  PagingInv'
    <2>1. CASE FailPage
      BY <1>1, <2>1 DEF FailPage, PagingInv, After, Precedes, Distinct, Newer
    <2>2. CASE UNCHANGED pagingVars
      BY <1>1, <2>2 DEF pagingVars, PagingInv, After, Precedes, Distinct, Newer
    <2> QED
      BY <1>1, <2>1, <2>2, RowsStep, ReadPageStep DEF PagingNext
  <1>2. PagingInv => NoRowSkippedOrRepeated
    <2> SUFFICES ASSUME PagingInv PROVE NoRowSkippedOrRepeated
      OBVIOUS
    <2>1. ASSUME NEW m \in DOMAIN collected, NEW n \in DOMAIN collected,
                 collected[m] = collected[n], m < n
          PROVE  FALSE
      <3>1. Precedes(collected[m], collected[n]) /\ collected[m] \in Rows
        BY <2>1 DEF PagingInv
      <3> QED
        BY <2>1, <3>1, PrecedesIs
    <2>2. DOMAIN collected \subseteq Nat
      BY DEF PagingInv
    <2> QED
      BY <2>1, <2>2 DEF PagingInv, NoRowSkippedOrRepeated, IsInjective
  <1> QED
    BY <1>1, <1>2, PagingStart, PTL DEF PagingSpec
================================================================================
