--------------------------- MODULE FlagConfigs_proofs ---------------------------
(***************************************************************************)
(* Configurations, variations and their references, proved for every set of  *)
(* calls, flags and environments. The inductive invariant says what a call   *)
(* that creates, copies or removes still knows when it writes.               *)
(***************************************************************************)
EXTENDS FlagConfigs, TLAPS

Labels == {"idle", "list", "copy", "check", "write", "done", "failed"}
Fills == {"createEnvironment", "unarchive"}
References ==
  [flag : Flags, environment : Environments, kind : {"off", "default", "rule", "target"},
   key : Variations, by : Calls \cup {Seed}]
Requests ==
  {<<"none">>} \cup {"createFlag"} \X Flags
  \cup Fills \X Environments \X (Environments \cup {None})
  \cup {"addVariation", "removeVariation"} \X Flags \X Variations
  \cup {"publish"} \X Flags \X Environments \X (1..3)
Reads == [environments : SUBSET Environments, flags : SUBSET Flags, rows : SUBSET References]

(* Every variable keeps its type, a label belongs to the operations that reach *)
(* it, a call that has read no table starts with the first one, and the rows *)
(* it is to write are its own.                                               *)
TypeOK ==
  /\ pc \in [Calls -> Labels] /\ table \in [Calls -> 1..3]
  /\ op \in [Calls -> Requests] /\ read \in [Calls -> Reads]
  /\ flags \subseteq Flags /\ environments \subseteq Environments
  /\ variations \in [Flags -> SUBSET Variations] /\ references \subseteq References
  /\ \A c \in Calls :
       /\ pc[c] = "idle" <=> op[c] = <<"none">>
       /\ pc[c] \in {"list", "copy"} => op[c][1] \in Fills
       /\ pc[c] = "check" => op[c][1] = "removeVariation"
       /\ pc[c] \in {"idle", "list"} => table[c] = 1
       /\ \A r \in read[c].rows : r.by = c

(* Flags and environments stay, and are created by calls.                     *)
CreatedByCalls ==
  /\ FirstFlags \subseteq flags /\ FirstEnvironments \subseteq environments
  /\ \A f \in flags \ FirstFlags : \E c \in Calls : pc[c] = "done" /\ op[c] = <<"createFlag", f>>
  /\ \A e \in environments \ FirstEnvironments :
       \E d \in Calls : pc[d] = "done" /\ op[d][1] = "createEnvironment" /\ op[d][2] = e

(* A call that creates a flag knows the first environments, and has left a     *)
(* configuration in all it knows.                                            *)
FlagsCovered ==
  \A c \in Calls : op[c][1] = "createFlag" =>
    /\ FirstEnvironments \subseteq read[c].environments
    /\ pc[c] = "done" => \A e \in read[c].environments : HasConfig(op[c][2], e)

(* A call that fills an environment has a configuration for every flag it      *)
(* knows once it has read the first table, and knows the flags of the start, *)
(* or they are configured there.                                             *)
Planned(d, f) ==
  \E r \in read[d].rows : r.flag = f /\ r.environment = op[d][2] /\ r.kind = "off"
EnvironmentsCovered ==
  \A d \in Calls : op[d][1] \in Fills =>
    /\ pc[d] \in {"copy", "write", "done"} =>
         \A f \in FirstFlags : f \in read[d].flags \/ HasConfig(f, op[d][2])
    /\ (pc[d] = "copy" /\ table[d] > 1) \/ pc[d] = "write" =>
         \A f \in read[d].flags : Planned(d, f) \/ HasConfig(f, op[d][2])
    /\ pc[d] = "done" => \A f \in read[d].flags : HasConfig(f, op[d][2])

(* What was configured at the start is configured, and a publish that replaces *)
(* a configuration writes one.                                               *)
ConfigsStay ==
  /\ \A f \in FirstFlags, e \in FirstEnvironments : HasConfig(f, e)
  /\ \A c \in Calls : op[c][1] = "publish" /\ "off" \in Tables[op[c][4]] =>
       \E r \in read[c].rows : r.flag = op[c][2] /\ r.environment = op[c][3] /\ r.kind = "off"

(* A call that removes a variation has not found it in the tables it has read: *)
(* no row that was there all along names it there.                           *)
OldReferencesSeen ==
  /\ \A r \in references : r.by = Seed => r.flag \in flags
  /\ \A c \in Calls : op[c][1] = "removeVariation" /\ pc[c] \in {"check", "write"} =>
       \A r \in references : r.by = Seed /\ r.flag = op[c][2] /\ r.key = op[c][3] =>
         pc[c] = "check" /\ \A t \in 1..(table[c] - 1) : r.kind \notin Tables[t]

IInv ==
  /\ TypeOK /\ CreatedByCalls /\ FlagsCovered /\ EnvironmentsCovered /\ ConfigsStay
  /\ OldReferencesSeen /\ OldReferencesResolve
--------------------------------------------------------------------------------
(* Lemmas about tables and rows *)

(* The tables of references, in the order in which they are searched.       *)
LEMMA TablesAre ==
  /\ Len(Tables) = 3 /\ DOMAIN Tables = 1..3
  /\ Tables[1] = {"off", "default"} /\ Tables[2] = {"rule"} /\ Tables[3] = {"target"}
  BY DEF Tables

(* A flag is configured in an environment by a row that names what is served  *)
(* when the flag is off.                                                     *)
LEMMA HasConfigIs ==
  ASSUME NEW f, NEW e
  PROVE  HasConfig(f, e) <=>
           \E r \in references : r.flag = f /\ r.environment = e /\ r.kind = "off"
  BY DEF HasConfig, RowsOf

(* A configuration has such a row, and all its rows are those of its flag and *)
(* environment.                                                              *)
LEMMA ConfigRows ==
  ASSUME NEW f, NEW e, NEW off, NEW default, NEW by
  PROVE  /\ \E r \in Config(f, e, off, default, by) :
              r.flag = f /\ r.environment = e /\ r.kind = "off"
         /\ \A r \in Config(f, e, off, default, by) :
              r.flag = f /\ r.environment = e /\ r.by = by
         /\ f \in Flags /\ e \in Environments /\ off \in Variations /\ default \in Variations
            /\ by \in Calls \cup {Seed} => Config(f, e, off, default, by) \subseteq References
  BY DEF Config, Row, References

(* The keys of first variations are keys of variations.                     *)
LEMMA KeysAre ==
  ASSUME NEW f
  PROVE  OnKey(f) \in Variations /\ OffKey(f) \in Variations /\ "on" \in Variations
         /\ "off" \in Variations /\ "extra" \in Variations
  BY DEF OnKey, OffKey, Variations

(* What a request names has the type its operation expects.                   *)
LEMMA RequestType ==
  ASSUME TypeOK, NEW c \in Calls
  PROVE  /\ pc[c] = "idle" <=> op[c][1] = "none"
         /\ op[c][1] \in {"createFlag", "addVariation", "removeVariation", "publish"} =>
              op[c][2] \in Flags
         /\ op[c][1] = "createFlag" => op[c] = <<"createFlag", op[c][2]>>
         /\ op[c][1] \in Fills => op[c][2] \in Environments /\ op[c][3] \in Environments \cup {None}
         /\ op[c][1] \in {"addVariation", "removeVariation"} => op[c][3] \in Variations
         /\ op[c][1] = "publish" => op[c][3] \in Environments /\ op[c][4] \in 1..3
  <1>1. op[c] \in Requests /\ (pc[c] = "idle" <=> op[c] = <<"none">>)
    BY DEF TypeOK
  <1> QED
    BY <1>1 DEF Requests, Fills

--------------------------------------------------------------------------------
(* The initial states *)

(* The initial states satisfy the invariant.                                *)
LEMMA InitHolds == Init => IInv
  <1> SUFFICES ASSUME Init  PROVE IInv
    OBVIOUS
  <1>1. PICK kinds \in {{"rule"}, {"target"}, {}} :
          /\ variations = FirstVariations(kinds)
          /\ references = UNION {UNION {FirstRows(f, e, kinds) : e \in FirstEnvironments} :
                                 f \in FirstFlags}
    BY Zenon DEF Init
  <1>2. \A f, e : Config(f, e, OffKey(f), OffKey(f), Seed) \subseteq FirstRows(f, e, kinds)
                 /\ \A r \in FirstRows(f, e, kinds) : r \in Config(f, e, OffKey(f), OffKey(f), Seed)
                     \/ \E kind \in kinds : r = Row(f, e, kind, "extra", Seed)
    BY DEF FirstRows
  <1>3. \A r : r \in references <=> \E f \in FirstFlags, e \in FirstEnvironments : r \in FirstRows(f, e, kinds)
    BY <1>1
  <1>4. \A r \in references : \E f \in FirstFlags, e \in FirstEnvironments :
          r \in Config(f, e, OffKey(f), OffKey(f), Seed)
          \/ \E kind \in kinds : r = Row(f, e, kind, "extra", Seed)
    BY <1>2, <1>3
  <1>5. variations \in [Flags -> SUBSET Variations]
        /\ \A f \in FirstFlags : OffKey(f) \in variations[f] /\ (kinds # {} => "extra" \in variations[f])
    BY <1>1, KeysAre, FirstExist DEF FirstVariations
  <1>6. ASSUME NEW r \in references
        PROVE  r \in References /\ r.flag \in FirstFlags /\ r.key \in variations[r.flag]
    <2>1. PICK f \in FirstFlags, e \in FirstEnvironments :
            r \in Config(f, e, OffKey(f), OffKey(f), Seed)
            \/ \E kind \in kinds : r = Row(f, e, kind, "extra", Seed)
      BY <1>4
    <2>2. f \in Flags /\ e \in Environments
      BY FirstExist
    <2>3. CASE r \in Config(f, e, OffKey(f), OffKey(f), Seed)
      <3>1. r \in References
        BY <2>2, <2>3, ConfigRows, KeysAre
      <3>2. r.flag = f /\ r.key = OffKey(f)
        BY <2>3 DEF Config, Row
      <3> QED
        BY <1>5, <3>1, <3>2
    <2>4. CASE \E kind \in kinds : r = Row(f, e, kind, "extra", Seed)
      BY <1>5, <2>2, <2>4, KeysAre DEF Row, References
    <2> QED
      BY <2>1, <2>3, <2>4
  <1>7. \A f \in FirstFlags, e \in FirstEnvironments : HasConfig(f, e)
    <2> TAKE f \in FirstFlags, e \in FirstEnvironments
    <2>1. Config(f, e, OffKey(f), OffKey(f), Seed) \subseteq references
      BY <1>2, <1>3
    <2> QED
      BY <2>1, ConfigRows, HasConfigIs
  <1>8. TypeOK
    <2>1. Nothing \in Reads /\ Nothing.rows = {} /\ <<"none">> \in Requests
      BY DEF Nothing, Reads, Requests
    <2> HIDE DEF Nothing
    <2>2. pc \in [Calls -> Labels] /\ table \in [Calls -> 1..3] /\ op \in [Calls -> Requests]
          /\ read \in [Calls -> Reads]
      BY <2>1 DEF Init, Labels
    <2>3. flags \subseteq Flags /\ environments \subseteq Environments /\ references \subseteq References
      BY <1>6, FirstExist DEF Init
    <2> QED
      BY <1>5, <2>1, <2>2, <2>3 DEF Init, TypeOK
  <1>9. OldReferencesSeen /\ OldReferencesResolve
    BY <1>6 DEF Init, OldReferencesSeen, OldReferencesResolve
  <1> QED
    BY <1>7, <1>8, <1>9 DEF Init, IInv, CreatedByCalls, FlagsCovered, EnvironmentsCovered, ConfigsStay,
      Fills

--------------------------------------------------------------------------------
(* The start of a call *)

(* What a publish may carry is typed and its own, and a configuration carries *)
(* a row that says what is served when the flag is off.                      *)
LEMMA ChoiceRows ==
  ASSUME TypeOK, NEW f \in Flags, NEW e \in Environments, NEW t \in 1..3, NEW c \in Calls,
         NEW new \in Choices(f, e, Tables[t], c)
  PROVE  /\ new \subseteq References /\ \A r \in new : r.by = c
         /\ "off" \in Tables[t] =>
              \E r \in new : r.flag = f /\ r.environment = e /\ r.kind = "off"
  <1>1. variations[f] \subseteq Variations
    BY DEF TypeOK
  <1>2. CASE "off" \in Tables[t]
    <2>1. PICK off \in variations[f], default \in variations[f] :
            new = Config(f, e, off, default, c)
      BY <1>2 DEF Choices
    <2> QED
      BY <1>1, <2>1, ConfigRows
  <1>3. CASE "off" \notin Tables[t]
    <2>1. Tables[t] \subseteq {"off", "default", "rule", "target"}
      BY TablesAre
    <2>2. new = {} \/ \E key \in variations[f] : new = {Row(f, e, kind, key, c) : kind \in Tables[t]}
      BY <1>3 DEF Choices
    <2>3. \A key \in variations[f], kind \in Tables[t] :
            Row(f, e, kind, key, c) \in References /\ Row(f, e, kind, key, c).by = c
      BY <1>1, <2>1 DEF Row, References
    <2> QED
      BY <1>3, <2>2, <2>3
  <1> QED
    BY <1>2, <1>3

(* What a call that starts has read, and the label it goes on to.             *)
Started(c, request, what, label) ==
  /\ pc[c] = "idle"
  /\ pc' = [pc EXCEPT ![c] = label]
  /\ op' = [op EXCEPT ![c] = request]
  /\ read' = [read EXCEPT ![c] = what]
  /\ UNCHANGED <<table, flags, environments, variations, references>>

(* A call begins with a request, what it reads and the step it goes on with.*)
LEMMA BeginEffect ==
  ASSUME IInv, NEW c \in Calls, Begin(c)
  PROVE  \E request \in Requests, what \in Reads, label \in {"write", "list", "check"} :
           /\ Started(c, request, what, label) /\ request[1] # "none"
           /\ \A r \in what.rows : r.by = c
           /\ label = "list" <=> request[1] \in Fills
           /\ label = "check" <=> request[1] = "removeVariation"
           /\ request[1] = "createFlag" => FirstEnvironments \subseteq what.environments
           /\ request[1] = "publish" /\ "off" \in Tables[request[4]] =>
                \E r \in what.rows : /\ r.flag = request[2] /\ r.environment = request[3]
                                     /\ r.kind = "off"
  <1> DEFINE Effect(request, what, label) ==
               /\ request \in Requests /\ what \in Reads /\ label \in {"write", "list", "check"}
               /\ Started(c, request, what, label) /\ request[1] # "none"
               /\ \A r \in what.rows : r.by = c
               /\ label = "list" <=> request[1] \in Fills
               /\ label = "check" <=> request[1] = "removeVariation"
               /\ request[1] = "createFlag" => FirstEnvironments \subseteq what.environments
               /\ request[1] = "publish" /\ "off" \in Tables[request[4]] =>
                    \E r \in what.rows : /\ r.flag = request[2] /\ r.environment = request[3]
                                         /\ r.kind = "off"
  <1> SUFFICES \E request, what, label : Effect(request, what, label)
    BY Zenon
  <1> USE DEF Fills
  <1>1. Nothing \in Reads /\ Nothing.rows = {}
    BY DEF Nothing, Reads
  <1>2. /\ flags \subseteq Flags /\ environments \subseteq Environments
        /\ variations \in [Flags -> SUBSET Variations] /\ FirstEnvironments \subseteq environments
    BY DEF IInv, TypeOK, CreatedByCalls
  <1> DEFINE Listing == [Nothing EXCEPT !.environments = environments]
             Writing(new) == [Nothing EXCEPT !.rows = new]
  <1>3. Listing \in Reads /\ Listing.rows = {} /\ Listing.environments = environments
    BY <1>1, <1>2 DEF Reads
  <1>4. \A new \in SUBSET References : Writing(new) \in Reads /\ Writing(new).rows = new
    BY <1>1 DEF Reads
  <1> USE DEF Start, rows, Started
  <1>5. CASE CreateFlag(c)
    <2>1. PICK f \in Flags : Start(c, <<"createFlag", f>>, Listing, "write")
      BY <1>5 DEF CreateFlag
    <2> HIDE DEF Listing
    <2>2. Effect(<<"createFlag", f>>, Listing, "write")
      BY <1>2, <1>3, <1>5, <2>1 DEF CreateFlag, Requests
    <2> QED
      BY <2>2
  <1>6. CASE CreateEnvironment(c)
    <2>1. PICK e \in Environments, source \in Environments \cup {None} :
            Start(c, <<"createEnvironment", e, source>>, Nothing, "list")
      BY <1>2, <1>6 DEF CreateEnvironment
    <2>2. Effect(<<"createEnvironment", e, source>>, Nothing, "list")
      BY <1>1, <1>6, <2>1 DEF CreateEnvironment, Requests
    <2> QED
      BY <2>2
  <1>7. CASE Unarchive(c)
    <2>1. PICK e \in Environments : Start(c, <<"unarchive", e, None>>, Nothing, "list")
      BY <1>2, <1>7 DEF Unarchive
    <2>2. Effect(<<"unarchive", e, None>>, Nothing, "list")
      BY <1>1, <1>7, <2>1 DEF Unarchive, Requests
    <2> QED
      BY <2>2
  <1>8. CASE AddVariation(c)
    <2>1. PICK f \in Flags, key \in Variations : Start(c, <<"addVariation", f, key>>, Nothing, "write")
      BY <1>2, <1>8 DEF AddVariation
    <2>2. Effect(<<"addVariation", f, key>>, Nothing, "write")
      BY <1>1, <1>8, <2>1 DEF AddVariation, Requests
    <2> QED
      BY <2>2
  <1>9. CASE RemoveVariation(c)
    <2>1. PICK f \in Flags, key \in Variations :
            Start(c, <<"removeVariation", f, key>>, Nothing, "check")
      BY <1>2, <1>9 DEF RemoveVariation
    <2>2. Effect(<<"removeVariation", f, key>>, Nothing, "check")
      BY <1>1, <1>9, <2>1 DEF RemoveVariation, Requests
    <2> QED
      BY <2>2
  <1>10. CASE Publish(c)
    <2>1. PICK f \in Flags, e \in Environments, t \in 1..3 :
            \E new \in Choices(f, e, Tables[t], c) :
              Start(c, <<"publish", f, e, t>>, Writing(new), "write")
      BY <1>2, <1>10, TablesAre DEF Publish
    <2>2. PICK new \in Choices(f, e, Tables[t], c) :
            Start(c, <<"publish", f, e, t>>, Writing(new), "write")
      BY <2>1
    <2>3. /\ new \in SUBSET References /\ \A r \in new : r.by = c
          /\ "off" \in Tables[t] =>
               \E r \in new : r.flag = f /\ r.environment = e /\ r.kind = "off"
      BY ChoiceRows DEF IInv
    <2> HIDE DEF Writing
    <2>4. Effect(<<"publish", f, e, t>>, Writing(new), "write")
      BY <1>4, <1>10, <2>2, <2>3 DEF Publish, Requests
    <2> QED
      BY <2>4
  <1> QED
    BY <1>5, <1>6, <1>7, <1>8, <1>9, <1>10 DEF Begin

(* Starting a call writes nothing.                                           *)
LEMMA BeginKeeps ==
  ASSUME IInv, NEW c \in Calls, Begin(c)
  PROVE  IInv'
  <1>1. PICK request \in Requests, what \in Reads, label \in {"write", "list", "check"} :
           /\ Started(c, request, what, label) /\ request[1] # "none"
           /\ \A r \in what.rows : r.by = c
           /\ label = "list" <=> request[1] \in Fills
           /\ label = "check" <=> request[1] = "removeVariation"
           /\ request[1] = "createFlag" => FirstEnvironments \subseteq what.environments
           /\ request[1] = "publish" /\ "off" \in Tables[request[4]] =>
                \E r \in what.rows : /\ r.flag = request[2] /\ r.environment = request[3]
                                     /\ r.kind = "off"
    BY BeginEffect
  <1>2. pc[c] = "idle" /\ UNCHANGED <<table, flags, environments, variations, references>>
    BY <1>1 DEF Started
  <1>3. \A d \in Calls : /\ d # c => pc'[d] = pc[d] /\ op'[d] = op[d] /\ read'[d] = read[d]
                         /\ d = c => pc'[d] = label /\ op'[d] = request /\ read'[d] = what
    BY <1>1 DEF Started, IInv, TypeOK
  <1>4. \A f, e : HasConfig(f, e)' = HasConfig(f, e)
    BY <1>2 DEF HasConfig, RowsOf
  <1>5. TypeOK'
    <2>1. /\ pc' \in [Calls -> Labels] /\ op' \in [Calls -> Requests] /\ read' \in [Calls -> Reads]
      BY <1>1 DEF IInv, TypeOK, Started, Labels
    <2>2. request # <<"none">> /\ label \in Labels \ {"idle", "copy"} /\ table[c] = 1
      BY <1>1, <1>2 DEF IInv, TypeOK, Labels
    <2> QED
      BY <1>1, <1>2, <1>3, <2>1, <2>2 DEF IInv, TypeOK
  <1>6. CreatedByCalls'
    BY <1>2, <1>3 DEF IInv, CreatedByCalls
  <1>7. FlagsCovered'
    BY <1>1, <1>3, <1>4 DEF IInv, FlagsCovered
  <1>8. EnvironmentsCovered'
    <2>1. \A d \in Calls : op'[d][1] \in Fills /\ pc'[d] \in {"copy", "write", "done"} => d # c
      BY <1>1, <1>3
    <2>2. \A d \in Calls \ {c} : \A f : Planned(d, f)' = Planned(d, f)
      BY <1>3 DEF Planned
    <2> QED
      BY <1>2, <1>3, <1>4, <2>1, <2>2 DEF IInv, EnvironmentsCovered
  <1>9. ConfigsStay'
    BY <1>1, <1>3, <1>4 DEF IInv, ConfigsStay
  <1>10. OldReferencesSeen' /\ OldReferencesResolve'
    <2>1. ASSUME NEW d \in Calls, op'[d][1] = "removeVariation", pc'[d] \in {"check", "write"},
                 NEW r \in references, r.by = Seed, r.flag = op'[d][2], r.key = op'[d][3]
          PROVE  pc'[d] = "check" /\ \A t \in 1..(table[d] - 1) : r.kind \notin Tables[t]
      <3>1. CASE d = c
        BY <1>1, <1>2, <1>3, <2>1, <3>1 DEF IInv, TypeOK
      <3>2. CASE d # c
        BY <1>3, <2>1, <3>2 DEF IInv, OldReferencesSeen
      <3> QED
        BY <3>1, <3>2
    <2> QED
      BY <1>2, <2>1 DEF IInv, OldReferencesSeen, OldReferencesResolve
  <1> QED
    BY <1>5, <1>6, <1>7, <1>8, <1>9, <1>10 DEF IInv

--------------------------------------------------------------------------------
(* The later steps of a call, one lemma for each part of the invariant *)

Later(c) == Continue(c) \/ Rollback(c)

(* On to the next table, or to the write.                                     *)
LEMMA AdvanceEffect ==
  ASSUME TypeOK, NEW c \in Calls, Advance(c), pc[c] \in {"copy", "check"}
  PROVE  \/ /\ pc' = pc /\ table[c] \in 1..2
            /\ table' = [table EXCEPT ![c] = table[c] + 1] /\ table'[c] = table[c] + 1
         \/ /\ table' = table /\ table[c] = 3
            /\ pc' = [pc EXCEPT ![c] = "write"] /\ pc'[c] = "write"
  <1>1. table \in [Calls -> 1..3] /\ pc \in [Calls -> Labels]
    BY DEF TypeOK
  <1> QED
    BY <1>1, TablesAre DEF Advance

(* A later step leaves what the call asks for alone, touches no other call,    *)
(* and removes neither a flag nor an environment; only ListFlags and CopyTable *)
(* read rows to write.                                                       *)
LEMMA LaterFrame ==
  ASSUME TypeOK, NEW c \in Calls, Later(c)
  PROVE  /\ op' = op /\ pc[c] \in {"list", "copy", "check", "write"}
         /\ pc' \in [Calls -> Labels] /\ table' \in [Calls -> 1..3]
         /\ pc'[c] \in {"copy", "check", "write", "done", "failed"}
         /\ \A d \in Calls \ {c} : pc'[d] = pc[d] /\ table'[d] = table[d] /\ read'[d] = read[d]
         /\ ~ListFlags(c) /\ ~CopyTable(c) => read' = read
         /\ flags \subseteq flags' /\ environments \subseteq environments'
  <1> USE DEF rows
  <1>1. table \in [Calls -> 1..3] /\ pc \in [Calls -> Labels] /\ read \in [Calls -> Reads]
    BY DEF TypeOK
  <1>2. CASE CheckReferences(c)
    <2>1. Refuse(c) \/ Advance(c)
      BY <1>2 DEF CheckReferences
    <2>2. /\ pc' \in [Calls -> Labels] /\ table' \in [Calls -> 1..3]
          /\ pc'[c] \in {"check", "write", "failed"}
          /\ \A d \in Calls \ {c} : pc'[d] = pc[d] /\ table'[d] = table[d]
      BY <1>1, <1>2, <2>1, AdvanceEffect DEF CheckReferences, Refuse, Labels
    <2> QED
      BY <1>2, <2>2 DEF CheckReferences
  <1>3. CASE CopyTable(c)
    <2>1. Refuse(c) \/ Advance(c)
      BY <1>3 DEF CopyTable
    <2>2. /\ pc' \in [Calls -> Labels] /\ table' \in [Calls -> 1..3]
          /\ pc'[c] \in {"copy", "write", "failed"}
          /\ \A d \in Calls \ {c} : pc'[d] = pc[d] /\ table'[d] = table[d]
      BY <1>1, <1>3, <2>1, AdvanceEffect DEF CopyTable, Refuse, Labels
    <2> QED
      BY <1>1, <1>3, <2>2 DEF CopyTable
  <1>4. CASE ListFlags(c)
    BY <1>1, <1>4 DEF ListFlags, Labels
  <1>5. CASE Rollback(c)
    BY <1>1, <1>5 DEF Rollback, Refuse, Labels
  <1>6. CASE ~(CheckReferences(c) \/ CopyTable(c) \/ ListFlags(c) \/ Rollback(c))
    BY <1>1, <1>6 DEF Later, Continue, Labels, Write, WriteFlag, WriteEnvironment, WriteUnarchive,
                      WriteAddVariation, WriteRemoveVariation, WritePublish
  <1> QED
    BY <1>2, <1>3, <1>4, <1>5, <1>6

(* What a call that fills an environment reads is typed and its own.           *)
LEMMA ReadKeeps ==
  ASSUME IInv, NEW c \in Calls, Later(c)
  PROVE  read' \in [Calls -> Reads] /\ \A d \in Calls : \A r \in read'[d].rows : r.by = d
  <1> USE DEF IInv
  <1>1. /\ read \in [Calls -> Reads] /\ flags \subseteq Flags /\ references \subseteq References
        /\ \A d \in Calls : \A r \in read[d].rows : r.by = d
    BY DEF TypeOK
  <1>3. CASE ListFlags(c)
    <2> DEFINE e == op[c][2]
               new == UNION {Config(f, e, "off", "on", c) : f \in Unconfigured(e)}
    <2>1. e \in Environments /\ Unconfigured(e) \subseteq Flags
      BY <1>1, <1>3, RequestType DEF ListFlags, TypeOK, Unconfigured
    <2>2. \A f \in Unconfigured(e) : /\ Config(f, e, "off", "on", c) \subseteq References
                                     /\ \A r \in Config(f, e, "off", "on", c) : r.by = c
      BY <2>1, ConfigRows, KeysAre
    <2>3. new \in SUBSET References /\ \A r \in new : r.by = c
      BY <2>2
    <2>4. \/ read' = [read EXCEPT ![c] = [read[c] EXCEPT !.flags = flags, !.rows = new]]
          \/ read' = [read EXCEPT ![c] = [read[c] EXCEPT !.flags = Unconfigured(e)]]
      BY <1>3 DEF ListFlags
    <2> HIDE DEF new
    <2> DEFINE fresh == [read[c] EXCEPT !.flags = flags, !.rows = new]
               copied == [read[c] EXCEPT !.flags = Unconfigured(e)]
    <2>5. read[c] \in Reads
      BY <1>1
    <2>6. fresh \in Reads /\ fresh.rows = new /\ copied \in Reads /\ copied.rows = read[c].rows
      BY <1>1, <2>1, <2>3, <2>5 DEF Reads
    <2> HIDE DEF fresh, copied
    <2>7. read' = [read EXCEPT ![c] = fresh] \/ read' = [read EXCEPT ![c] = copied]
      BY <2>4 DEF fresh, copied
    <2> QED
      BY <1>1, <2>3, <2>6, <2>7
  <1>4. CASE CopyTable(c)
    <2> DEFINE from == {r \in references : /\ r.flag \in read[c].flags
                                           /\ r.environment = op[c][3]
                                           /\ r.kind \in Tables[table[c]]}
               copies == {Row(r.flag, op[c][2], r.kind, r.key, c) : r \in from}
    <2>1. op[c][2] \in Environments
      BY <1>4, RequestType DEF CopyTable, TypeOK
    <2>2. \A r \in References : /\ Row(r.flag, op[c][2], r.kind, r.key, c) \in References
                                /\ Row(r.flag, op[c][2], r.kind, r.key, c).by = c
      BY <2>1 DEF Row, References
    <2>3. copies \in SUBSET References /\ \A r \in copies : r.by = c
      BY <1>1, <2>2
    <2>4. read' = [read EXCEPT ![c] = [read[c] EXCEPT !.rows = read[c].rows \cup copies]]
      BY <1>4 DEF CopyTable
    <2> HIDE DEF copies
    <2>5. read[c] \in Reads /\ read[c].rows \cup copies \in SUBSET References
      BY <1>1, <2>3 DEF Reads
    <2>6. \A r \in read[c].rows \cup copies : r.by = c
      BY <1>1, <2>3
    <2> DEFINE more == [read[c] EXCEPT !.rows = read[c].rows \cup copies]
    <2>7. more \in Reads /\ more.rows = read[c].rows \cup copies
      BY <2>5 DEF Reads
    <2>8. read' = [read EXCEPT ![c] = more]
      BY <2>4
    <2> HIDE DEF more
    <2> QED
      BY <1>1, <2>6, <2>7, <2>8
  <1>5. CASE ~(ListFlags(c) \/ CopyTable(c))
    BY <1>1, <1>5, LaterFrame
  <1> QED
    BY <1>3, <1>4, <1>5

(* What a call under way writes is typed.                                   *)
LEMMA TypeKeeps ==
  ASSUME IInv, NEW c \in Calls, Later(c)
  PROVE  TypeOK'
  <1> USE DEF IInv, rows, Write
  <1>1. /\ op' = op /\ pc[c] \in {"list", "copy", "check", "write"}
        /\ pc' \in [Calls -> Labels] /\ table' \in [Calls -> 1..3]
        /\ \A d \in Calls \ {c} : pc'[d] = pc[d] /\ table'[d] = table[d]
        /\ read' \in [Calls -> Reads] /\ \A d \in Calls : \A r \in read'[d].rows : r.by = d
        /\ pc'[c] \in {"copy", "check", "write", "done", "failed"}
    BY LaterFrame, ReadKeeps
  <1>2. /\ pc'[c] = "copy" => op[c][1] \in Fills
        /\ pc'[c] = "check" => op[c][1] = "removeVariation"
    <2>1. CASE ListFlags(c)
      BY <2>1 DEF ListFlags, TypeOK
    <2>2. CASE CopyTable(c)
      BY <2>2, AdvanceEffect DEF CopyTable, TypeOK, Refuse
    <2>3. CASE CheckReferences(c)
      BY <2>3, AdvanceEffect DEF CheckReferences, TypeOK, Refuse
    <2>4. CASE ~(ListFlags(c) \/ CopyTable(c) \/ CheckReferences(c))
      BY <2>4 DEF Later, Continue, Rollback, Refuse, TypeOK, WriteFlag, WriteEnvironment,
                  WriteUnarchive, WriteAddVariation, WriteRemoveVariation, WritePublish
    <2> QED
      BY <2>1, <2>2, <2>3, <2>4
  <1>3. \A d \in Calls : /\ pc'[d] = "idle" <=> op[d] = <<"none">>
                         /\ pc'[d] \in {"list", "copy"} => op[d][1] \in Fills
                         /\ pc'[d] = "check" => op[d][1] = "removeVariation"
                         /\ pc'[d] \in {"idle", "list"} => table'[d] = 1
    BY <1>1, <1>2 DEF TypeOK
  <1>4. flags' \subseteq Flags /\ environments' \subseteq Environments
    BY RequestType DEF Later, Continue, Rollback, TypeOK, WriteFlag, ListFlags, CopyTable, Fills,
      WriteEnvironment, WriteUnarchive, WriteAddVariation, CheckReferences,
      WriteRemoveVariation, WritePublish
  <1>5. variations' \in [Flags -> SUBSET Variations]
    BY RequestType, KeysAre DEF Later, Continue, Rollback, TypeOK, WriteFlag, ListFlags, CopyTable,
      WriteEnvironment, WriteUnarchive, WriteAddVariation, CheckReferences,
      WriteRemoveVariation, WritePublish
  <1>6. references' \subseteq References
    <2>1. references \subseteq References /\ read[c].rows \subseteq References
          /\ read[c].environments \subseteq Environments
      BY DEF TypeOK, Reads
    <2>2. CASE WriteFlag(c)
      <3>1. op[c][2] \in Flags
        BY <2>2, RequestType DEF WriteFlag, TypeOK
      <3>2. \A e \in read[c].environments :
              Config(op[c][2], e, OffKey(op[c][2]), OnKey(op[c][2]), c) \subseteq References
        BY <2>1, <3>1, ConfigRows, KeysAre
      <3> QED
        BY <2>1, <2>2, <3>2 DEF WriteFlag
    <2>3. CASE WriteEnvironment(c) \/ WriteUnarchive(c)
      BY <2>1, <2>3 DEF WriteEnvironment, WriteUnarchive
    <2>4. CASE WritePublish(c)
      BY <2>1, <2>4 DEF WritePublish
    <2>5. CASE ~(WriteFlag(c) \/ WriteEnvironment(c) \/ WriteUnarchive(c) \/ WritePublish(c))
      BY <2>1, <2>5 DEF Later, Continue, Rollback, ListFlags, CopyTable, WriteAddVariation,
        CheckReferences, WriteRemoveVariation
    <2> QED
      BY <2>2, <2>3, <2>4, <2>5
  <1> QED
    BY <1>1, <1>3, <1>4, <1>5, <1>6 DEF TypeOK

(* A configuration, once there, stays: a publish that removes its row writes   *)
(* it anew.                                                                  *)
LEMMA ConfigKeeps ==
  ASSUME IInv, NEW c \in Calls, Later(c), NEW f, NEW e, HasConfig(f, e)
  PROVE  HasConfig(f, e)'
  <1> USE DEF IInv, rows, Write
  <1>1. PICK r \in references : r.flag = f /\ r.environment = e /\ r.kind = "off"
    BY HasConfigIs
  <1>2. \E x \in references' : x.flag = f /\ x.environment = e /\ x.kind = "off"
    <2>1. CASE WritePublish(c)
      <3> DEFINE old == {x \in RowsOf(op[c][2], op[c][3]) : x.kind \in Tables[op[c][4]]}
      <3>1. references' = (references \ old) \cup read[c].rows
        BY <2>1 DEF WritePublish
      <3>2. CASE r \in old
        <4>1. f = op[c][2] /\ e = op[c][3] /\ "off" \in Tables[op[c][4]]
          BY <1>1, <3>2 DEF RowsOf
        <4>2. \E x \in read[c].rows : x.flag = f /\ x.environment = e /\ x.kind = "off"
          BY <2>1, <4>1 DEF ConfigsStay, WritePublish
        <4> QED
          BY <3>1, <4>2
      <3>3. CASE r \notin old
        BY <1>1, <3>1, <3>3
      <3> QED
        BY <3>2, <3>3
    <2>2. CASE ~WritePublish(c)
      <3>1. references \subseteq references'
        BY <2>2 DEF Later, Continue, Rollback, WriteFlag, ListFlags, CopyTable, WriteEnvironment,
          WriteUnarchive, WriteAddVariation, CheckReferences, WriteRemoveVariation
      <3> QED
        BY <1>1, <3>1
    <2> QED
      BY <2>1, <2>2
  <1> QED
    BY <1>2 DEF HasConfig, RowsOf

(* The same of the rows, which a call may name by what it asks for.            *)
LEMMA RowsKeep ==
  ASSUME IInv, NEW c \in Calls, Later(c)
  PROVE  \A f, e : (\E r \in references : r.flag = f /\ r.environment = e /\ r.kind = "off") =>
                   \E r \in references' : r.flag = f /\ r.environment = e /\ r.kind = "off"
  <1>1. ASSUME NEW f, NEW e, \E r \in references : r.flag = f /\ r.environment = e /\ r.kind = "off"
        PROVE  \E r \in references' : r.flag = f /\ r.environment = e /\ r.kind = "off"
    <2>1. HasConfig(f, e)'
      BY <1>1, ConfigKeeps, HasConfigIs
    <2> QED
      BY <2>1 DEF HasConfig, RowsOf
  <1> QED
    BY <1>1

(* What is there was there at first or was created by a call that is done.  *)
LEMMA CreatedKeeps ==
  ASSUME IInv, NEW c \in Calls, Later(c)
  PROVE  CreatedByCalls'
  <1> USE DEF IInv, rows, Write
  <1>1. /\ op' = op /\ pc[c] \in {"list", "copy", "check", "write"}
        /\ \A d \in Calls \ {c} : pc'[d] = pc[d]
        /\ flags \subseteq flags' /\ environments \subseteq environments'
    BY LaterFrame
  <1>2. ASSUME NEW f \in flags' \ flags
        PROVE  pc'[c] = "done" /\ op[c] = <<"createFlag", f>>
    <2>1. WriteFlag(c)
      BY <1>2 DEF Later, Continue, Rollback, ListFlags, CopyTable, WriteEnvironment,
        WriteUnarchive, WriteAddVariation, CheckReferences, WriteRemoveVariation, WritePublish
    <2> QED
      BY <1>2, <2>1, RequestType DEF WriteFlag, TypeOK
  <1>3. ASSUME NEW e \in environments' \ environments
        PROVE  pc'[c] = "done" /\ op[c][1] = "createEnvironment" /\ op[c][2] = e
    <2>1. WriteEnvironment(c)
      BY <1>3 DEF Later, Continue, Rollback, ListFlags, CopyTable, WriteFlag,
        WriteUnarchive, WriteAddVariation, CheckReferences, WriteRemoveVariation, WritePublish
    <2> QED
      BY <1>3, <2>1 DEF WriteEnvironment, TypeOK
  <1> QED
    BY <1>1, <1>2, <1>3 DEF CreatedByCalls

(* A call is done by its write, and its write is that of its operation.        *)
LEMMA DoneByWrite ==
  ASSUME TypeOK, NEW c \in Calls, Later(c), pc'[c] = "done"
  PROVE  /\ pc[c] = "write" /\ read' = read
         /\ op[c][1] = "createFlag" => WriteFlag(c)
         /\ op[c][1] = "createEnvironment" => WriteEnvironment(c)
         /\ op[c][1] = "unarchive" => WriteUnarchive(c)
  <1>1. pc \in [Calls -> Labels]
    BY DEF TypeOK
  <1>2. ~ListFlags(c) /\ ~Rollback(c)
    BY <1>1 DEF ListFlags, Rollback, Refuse
  <1>3. ~CopyTable(c)
    BY <1>1, AdvanceEffect DEF CopyTable, Refuse
  <1>4. ~CheckReferences(c)
    BY <1>1, AdvanceEffect DEF CheckReferences, Refuse
  <1> QED
    BY <1>2, <1>3, <1>4 DEF Later, Continue, Write, WriteFlag, WriteEnvironment, WriteUnarchive,
      WriteAddVariation, WriteRemoveVariation, WritePublish

(* The write of a new flag configures it in every environment it listed.       *)
LEMMA FlagsKeep ==
  ASSUME IInv, NEW c \in Calls, Later(c)
  PROVE  FlagsCovered'
  <1> USE DEF IInv
  <1>1. /\ op' = op /\ pc[c] \in {"list", "copy", "check", "write"}
        /\ \A d \in Calls \ {c} : pc'[d] = pc[d] /\ read'[d] = read[d]
        /\ ~ListFlags(c) /\ ~CopyTable(c) => read' = read
    BY LaterFrame
  <1>2. ASSUME NEW d \in Calls, op[d][1] = "createFlag"
        PROVE  read'[d] = read[d]
    BY <1>1, <1>2 DEF ListFlags, CopyTable, TypeOK, Fills
  <1>3. ASSUME NEW d \in Calls, op[d][1] = "createFlag", pc'[d] = "done",
               NEW e \in read[d].environments
        PROVE  HasConfig(op[d][2], e)'
    <2>1. CASE pc[d] = "done"
      BY <1>1, <1>3, <2>1, RowsKeep DEF FlagsCovered, HasConfig, RowsOf
    <2>2. CASE pc[d] # "done"
      <3>1. d = c /\ WriteFlag(c)
        BY <1>1, <1>3, <2>2, DoneByWrite DEF IInv
      <3>2. Config(op[c][2], e, OffKey(op[c][2]), OnKey(op[c][2]), c) \subseteq references'
        BY <1>3, <3>1 DEF WriteFlag
      <3>3. \E r \in references' : r.flag = op[c][2] /\ r.environment = e /\ r.kind = "off"
        BY <3>2, ConfigRows
      <3> QED
        BY <1>1, <3>1, <3>3 DEF HasConfig, RowsOf
    <2> QED
      BY <2>1, <2>2
  <1> QED
    BY <1>1, <1>2, <1>3 DEF FlagsCovered

(* The list of a new environment's flags plans a configuration for each that   *)
(* lacks one, unless the rows are to be copied from a source.                *)
LEMMA ListEffect ==
  ASSUME IInv, NEW c \in Calls, ListFlags(c)
  PROVE  \/ /\ pc'[c] = "write" /\ read'[c].flags = flags
            /\ \A f \in Unconfigured(op[c][2]) :
                 \E r \in read'[c].rows : r.flag = f /\ r.environment = op[c][2] /\ r.kind = "off"
         \/ pc'[c] = "copy" /\ read'[c].flags = Unconfigured(op[c][2])
  <1>1. pc \in [Calls -> Labels] /\ read \in [Calls -> Reads]
    BY DEF IInv, TypeOK
  <1> DEFINE e == op[c][2]
             new == UNION {Config(f, e, "off", "on", c) : f \in Unconfigured(e)}
             fresh == [read[c] EXCEPT !.flags = flags, !.rows = new]
             copied == [read[c] EXCEPT !.flags = Unconfigured(e)]
  <1>2. \/ pc' = [pc EXCEPT ![c] = "write"] /\ read' = [read EXCEPT ![c] = fresh]
        \/ pc' = [pc EXCEPT ![c] = "copy"] /\ read' = [read EXCEPT ![c] = copied]
    BY DEF ListFlags
  <1>3. \A f \in Unconfigured(e) :
          \E r \in new : r.flag = f /\ r.environment = e /\ r.kind = "off"
    <2> TAKE f \in Unconfigured(e)
    <2>1. Config(f, e, "off", "on", c) \subseteq new
      OBVIOUS
    <2> HIDE DEF new
    <2> QED
      BY <2>1, ConfigRows
  <1> HIDE DEF new
  <1>4. read[c] \in Reads
    BY <1>1
  <1>5. fresh.flags = flags /\ fresh.rows = new /\ copied.flags = Unconfigured(e)
    BY <1>4 DEF Reads
  <1> HIDE DEF fresh, copied
  <1> QED
    BY <1>1, <1>2, <1>3, <1>5

(* A copy of the first table plans a configuration for every flag to be        *)
(* configured, or the call is refused; nothing planned is dropped.           *)
LEMMA CopyEffect ==
  ASSUME IInv, NEW c \in Calls, CopyTable(c), pc'[c] # "failed"
  PROVE  /\ read'[c].flags = read[c].flags /\ read[c].rows \subseteq read'[c].rows
         /\ table[c] = 1 => \A f \in read[c].flags :
              \E r \in read'[c].rows : r.flag = f /\ r.environment = op[c][2] /\ r.kind = "off"
         /\ references' = references
  <1>1. pc \in [Calls -> Labels] /\ read \in [Calls -> Reads]
    BY DEF IInv, TypeOK
  <1> DEFINE from == {r \in references : /\ r.flag \in read[c].flags
                                         /\ r.environment = op[c][3]
                                         /\ r.kind \in Tables[table[c]]}
             copies == {Row(r.flag, op[c][2], r.kind, r.key, c) : r \in from}
             more == [read[c] EXCEPT !.rows = read[c].rows \cup copies]
  <1>2. read' = [read EXCEPT ![c] = more] /\ references' = references
    BY DEF CopyTable, rows
  <1>3. \A f \in read[c].flags : HasConfig(f, op[c][3])
    BY <1>1 DEF CopyTable, Refuse
  <1>4. ASSUME table[c] = 1, NEW f \in read[c].flags
        PROVE  \E r \in copies : r.flag = f /\ r.environment = op[c][2] /\ r.kind = "off"
    <2>1. PICK r \in references : r.flag = f /\ r.environment = op[c][3] /\ r.kind = "off"
      BY <1>3, HasConfigIs
    <2>2. r \in from
      BY <1>4, <2>1, TablesAre
    <2>3. Row(r.flag, op[c][2], r.kind, r.key, c) \in copies
      BY <2>2
    <2> QED
      BY <2>1, <2>3 DEF Row
  <1> HIDE DEF copies
  <1>5. read[c] \in Reads
    BY <1>1
  <1>6. more.flags = read[c].flags /\ more.rows = read[c].rows \cup copies
    BY <1>5 DEF Reads
  <1> HIDE DEF more
  <1> QED
    BY <1>1, <1>2, <1>4, <1>6

(* The list and the copies plan what is missing, and the write of the new      *)
(* environment puts what was planned in place.                               *)
LEMMA EnvironmentsKeep ==
  ASSUME IInv, NEW c \in Calls, Later(c)
  PROVE  EnvironmentsCovered'
  <1> USE DEF IInv
  <1>1. /\ op' = op /\ pc[c] \in {"list", "copy", "check", "write"}
        /\ pc'[c] \in {"copy", "check", "write", "done", "failed"}
        /\ \A d \in Calls \ {c} : pc'[d] = pc[d] /\ table'[d] = table[d] /\ read'[d] = read[d]
        /\ ~ListFlags(c) /\ ~CopyTable(c) => read' = read
    BY LaterFrame
  <1> DEFINE Has(f, e) == \E r \in references : r.flag = f /\ r.environment = e /\ r.kind = "off"
             Now(f, e) == \E r \in references' : r.flag = f /\ r.environment = e /\ r.kind = "off"
             Plan(d, f) == \E r \in read'[d].rows :
                             r.flag = f /\ r.environment = op[d][2] /\ r.kind = "off"
  <1>2. \A f, e : Has(f, e) => Now(f, e)
    BY RowsKeep
  <1>3. \A d \in Calls : op[d][1] \in Fills =>
          /\ pc[d] \in {"copy", "write", "done"} =>
               \A f \in FirstFlags : f \in read[d].flags \/ Has(f, op[d][2])
          /\ (pc[d] = "copy" /\ table[d] > 1) \/ pc[d] = "write" =>
               \A f \in read[d].flags : Planned(d, f) \/ Has(f, op[d][2])
          /\ pc[d] = "done" => \A f \in read[d].flags : Has(f, op[d][2])
    BY DEF EnvironmentsCovered, HasConfig, RowsOf
  <1>4. ASSUME NEW d \in Calls, op[d][1] \in Fills
        PROVE  /\ pc'[d] \in {"copy", "write", "done"} =>
                    \A f \in FirstFlags : f \in read'[d].flags \/ Now(f, op[d][2])
               /\ (pc'[d] = "copy" /\ table'[d] > 1) \/ pc'[d] = "write" =>
                    \A f \in read'[d].flags : Plan(d, f) \/ Now(f, op[d][2])
               /\ pc'[d] = "done" => \A f \in read'[d].flags : Now(f, op[d][2])
    <2>1. CASE d # c
      <3>1. \A f : Planned(d, f) => Plan(d, f)
        BY <1>1, <2>1 DEF Planned
      <3> QED
        BY <1>1, <1>2, <1>3, <1>4, <2>1, <3>1
    <2>2. CASE d = c /\ ListFlags(c)
      <3>1. \A f \in flags : f \in Unconfigured(op[c][2]) \/ Has(f, op[c][2])
        BY DEF Unconfigured, HasConfig, RowsOf
      <3>2. FirstFlags \subseteq flags /\ table'[c] = 1
        BY <2>2 DEF CreatedByCalls, TypeOK, ListFlags
      <3> QED
        BY <1>2, <2>2, <3>1, <3>2, ListEffect
    <2>3. CASE d = c /\ CopyTable(c)
      <3>1. CASE pc'[c] = "failed"
        BY <2>3, <3>1
      <3>2. CASE pc'[c] # "failed"
        <4>1. pc[c] = "copy" /\ pc'[c] \in {"copy", "write"} /\ table[c] \in 1..3
          BY <2>3, <3>2, AdvanceEffect DEF CopyTable, Refuse, TypeOK
        <4>2. \A f : Planned(c, f) => Plan(c, f)
          BY <2>3, <3>2, CopyEffect DEF Planned
        <4>3. \A f \in read[c].flags : Plan(c, f) \/ Has(f, op[c][2])
          <5>1. CASE table[c] = 1
            BY <2>3, <3>2, <5>1, CopyEffect
          <5>2. CASE table[c] > 1
            BY <1>3, <1>4, <2>3, <4>1, <4>2, <5>2
          <5> QED
            BY <4>1, <5>1, <5>2
        <4> QED
          BY <1>2, <1>3, <1>4, <2>3, <3>2, <4>1, <4>3, CopyEffect
      <3> QED
        BY <3>1, <3>2
    <2>4. CASE d = c /\ pc'[c] = "done"
      <3>1. pc[c] = "write" /\ read' = read /\ (WriteEnvironment(c) \/ WriteUnarchive(c))
        BY <1>4, <2>4, DoneByWrite DEF Fills
      <3>2. read[c].rows \subseteq references'
        BY <3>1 DEF WriteEnvironment, WriteUnarchive
      <3>3. \A f : Planned(c, f) => Now(f, op[c][2])
        BY <3>2 DEF Planned
      <3> QED
        BY <1>2, <1>3, <1>4, <2>4, <3>1, <3>3
    <2>5. CASE d = c /\ ~ListFlags(c) /\ ~CopyTable(c) /\ pc'[c] # "done"
      <3>1. pc'[c] = "failed"
        BY <1>4, <2>5 DEF Later, Continue, Rollback, Refuse, TypeOK, Fills, Write, WriteFlag,
          WriteEnvironment, WriteUnarchive, WriteAddVariation, CheckReferences,
          WriteRemoveVariation, WritePublish
      <3> QED
        BY <2>5, <3>1
    <2> QED
      BY <2>1, <2>2, <2>3, <2>4, <2>5
  <1> QED
    BY <1>1, <1>4 DEF EnvironmentsCovered, Planned, HasConfig, RowsOf

(* What a publish is to write does not change before it writes.                *)
LEMMA ConfigsStayKeep ==
  ASSUME IInv, NEW c \in Calls, Later(c)
  PROVE  ConfigsStay'
  <1> USE DEF IInv
  <1>1. /\ op' = op
        /\ \A d \in Calls \ {c} : read'[d] = read[d]
        /\ ~ListFlags(c) /\ ~CopyTable(c) => read' = read
    BY LaterFrame
  <1>2. \A d \in Calls : op[d][1] = "publish" => read'[d] = read[d]
    BY <1>1 DEF ListFlags, CopyTable, TypeOK, Fills
  <1>3. \A f \in FirstFlags, e \in FirstEnvironments : HasConfig(f, e)'
    BY RowsKeep DEF ConfigsStay, HasConfig, RowsOf
  <1> QED
    BY <1>1, <1>2, <1>3 DEF ConfigsStay

(* No call writes a reference in the name of whoever wrote the first ones.     *)
LEMMA OldRowsOnly ==
  ASSUME IInv, NEW c \in Calls, Later(c)
  PROVE  \A r \in references' : r.by = Seed => r \in references
  <1> USE DEF IInv, Write
  <1>1. \A r \in read[c].rows : r.by # Seed
    BY NamesDiffer DEF TypeOK
  <1>2. CASE WriteFlag(c)
    <2>1. \A e : \A r \in Config(op[c][2], e, OffKey(op[c][2]), OnKey(op[c][2]), c) : r.by # Seed
      BY NamesDiffer, ConfigRows
    <2> QED
      BY <1>2, <2>1 DEF WriteFlag
  <1>3. CASE ~WriteFlag(c)
    BY <1>1, <1>3 DEF Later, Continue, Rollback, ListFlags, CopyTable, WriteEnvironment,
      WriteUnarchive, WriteAddVariation, CheckReferences, WriteRemoveVariation, WritePublish, rows
  <1> QED
    BY <1>2, <1>3

(* A removal goes on past a table only if no row of it names the variation,    *)
(* and to its write only past the last one.                                  *)
LEMMA SeenKeeps ==
  ASSUME IInv, NEW c \in Calls, Later(c)
  PROVE  OldReferencesSeen'
  <1> USE DEF IInv
  <1>1. /\ op' = op /\ flags \subseteq flags'
        /\ pc'[c] \in {"copy", "check", "write", "done", "failed"}
        /\ \A d \in Calls \ {c} : pc'[d] = pc[d] /\ table'[d] = table[d]
    BY LaterFrame
  <1>2. ASSUME NEW d \in Calls, op[d][1] = "removeVariation", pc'[d] \in {"check", "write"},
               NEW r \in references, r.by = Seed, r.flag = op[d][2], r.key = op[d][3]
        PROVE  pc'[d] = "check" /\ \A t \in 1..(table'[d] - 1) : r.kind \notin Tables[t]
    <2>1. CASE d # c
      BY <1>1, <1>2, <2>1 DEF OldReferencesSeen
    <2>2. CASE d = c
      <3>1. CheckReferences(c) /\ pc[c] = "check"
        BY <1>1, <1>2, <2>2 DEF Later, Continue, Rollback, Refuse, TypeOK, Fills, Write, WriteFlag,
          ListFlags, CopyTable, WriteEnvironment, WriteUnarchive, WriteAddVariation,
          CheckReferences, WriteRemoveVariation, WritePublish
      <3>2. Advance(c) /\ r.kind \notin Tables[table[c]]
        BY <1>2, <2>2, <3>1 DEF CheckReferences, Refuse, TypeOK
      <3>3. \A t \in 1..(table[c] - 1) : r.kind \notin Tables[t]
        BY <1>2, <2>2, <3>1 DEF OldReferencesSeen
      <3>4. table[c] \in 1..3 /\ \A t \in 1..table[c] : r.kind \notin Tables[t]
        BY <3>2, <3>3 DEF TypeOK
      <3>5. CASE table'[c] = table[c] + 1 /\ pc' = pc
        BY <2>2, <3>1, <3>4, <3>5
      <3>6. CASE table[c] = 3
        <4>1. r.kind \in {"off", "default", "rule", "target"}
          BY DEF TypeOK, References
        <4> QED
          BY <3>4, <3>6, <4>1, TablesAre
      <3> QED
        BY <3>1, <3>2, <3>5, <3>6, AdvanceEffect
    <2> QED
      BY <2>1, <2>2
  <1> QED
    BY <1>1, <1>2, OldRowsOnly DEF OldReferencesSeen

(* Only a removal takes a variation away, and none that was named all along.   *)
LEMMA OldKeeps ==
  ASSUME IInv, NEW c \in Calls, Later(c)
  PROVE  OldReferencesResolve'
  <1> USE DEF IInv
  <1>1. ASSUME NEW r \in references, r.by = Seed
        PROVE  r.key \in variations'[r.flag]
    <2>1. /\ variations \in [Flags -> SUBSET Variations] /\ r.flag \in Flags
          /\ r.flag \in flags /\ r.key \in variations[r.flag]
      BY <1>1 DEF TypeOK, References, OldReferencesSeen, OldReferencesResolve
    <2>2. CASE WriteFlag(c) \/ WriteAddVariation(c)
      BY <2>1, <2>2 DEF WriteFlag, WriteAddVariation
    <2>3. CASE WriteRemoveVariation(c)
      <3>1. ~(r.flag = op[c][2] /\ r.key = op[c][3])
        BY <1>1, <2>3 DEF WriteRemoveVariation, Write, OldReferencesSeen
      <3> QED
        BY <2>1, <2>3, <3>1 DEF WriteRemoveVariation
    <2>4. CASE ~(WriteFlag(c) \/ WriteAddVariation(c) \/ WriteRemoveVariation(c))
      BY <2>1, <2>4 DEF Later, Continue, Rollback, ListFlags, CopyTable, WriteEnvironment,
        WriteUnarchive, CheckReferences, WritePublish, rows
    <2> QED
      BY <2>2, <2>3, <2>4
  <1> QED
    BY <1>1, OldRowsOnly DEF OldReferencesResolve

(* Every step preserves the invariant.                                      *)
LEMMA NextKeeps == IInv /\ [Next]_vars => IInv'
  <1> SUFFICES ASSUME IInv, [Next]_vars  PROVE IInv'
    OBVIOUS
  <1>1. CASE UNCHANGED vars
    <2> USE <1>1 DEF vars, IInv, HasConfig, RowsOf
    <2>1. CreatedByCalls' /\ FlagsCovered'
      BY DEF CreatedByCalls, FlagsCovered
    <2>2. EnvironmentsCovered' /\ ConfigsStay'
      BY DEF EnvironmentsCovered, Planned, ConfigsStay
    <2>3. OldReferencesSeen' /\ OldReferencesResolve'
      BY DEF OldReferencesSeen, OldReferencesResolve
    <2>4. TypeOK'
      BY DEF TypeOK
    <2> QED
      BY <2>1, <2>2, <2>3, <2>4
  <1>2. CASE \E c \in Calls : Begin(c)
    BY <1>2, BeginKeeps
  <1>3. CASE \E c \in Calls : Later(c)
    BY <1>3, TypeKeeps, CreatedKeeps, FlagsKeep, EnvironmentsKeep, ConfigsStayKeep, SeenKeeps,
      OldKeeps DEF IInv
  <1> QED
    BY <1>1, <1>2, <1>3 DEF Next, Later

(* The invariant holds in every state.                                      *)
LEMMA Inductive == Spec => []IInv
  BY InitHolds, NextKeeps, PTL DEF Spec

--------------------------------------------------------------------------------
(* The theorems *)

(* Calls, flags, environments, variations and references keep their types;     *)
(* nothing a call writes is of a kind the schema has no table for.           *)
THEOREM TypeCorrect == Spec => []TypeOK
  <1>1. IInv => TypeOK
    BY DEF IInv
  <1> QED
    BY <1>1, Inductive, PTL

(* However many calls create flags and environments, copy environments and     *)
(* unarchive them: a flag lacks its configuration in an environment only if  *)
(* one call created the flag and another the environment, and neither had    *)
(* seen what the other created.                                              *)
THEOREM OnlyACrossingLeavesAGap == Spec => []CoveredUnlessCrossed
  <1>1. ASSUME IInv  PROVE CoveredUnlessCrossed
    <2> USE DEF IInv
    <2>1. ASSUME NEW f \in flags, NEW e \in environments, ~HasConfig(f, e)
          PROVE  \E c, d \in Calls :
                   /\ pc[c] = "done" /\ pc[d] = "done"
                   /\ op[c] = <<"createFlag", f>> /\ e \notin read[c].environments
                   /\ op[d][1] = "createEnvironment" /\ op[d][2] = e /\ f \notin read[d].flags
      <3>1. f \notin FirstFlags => \E c \in Calls :
              /\ pc[c] = "done" /\ op[c] = <<"createFlag", f>>
              /\ e \notin read[c].environments /\ e \notin FirstEnvironments
        BY <1>1, <2>1 DEF CreatedByCalls, FlagsCovered
      <3>2. e \notin FirstEnvironments => \E d \in Calls :
              /\ pc[d] = "done" /\ op[d][1] = "createEnvironment" /\ op[d][2] = e
              /\ f \notin read[d].flags /\ f \notin FirstFlags
        BY <1>1, <2>1 DEF CreatedByCalls, EnvironmentsCovered, Fills
      <3>3. f \notin FirstFlags \/ e \notin FirstEnvironments
        BY <1>1, <2>1 DEF ConfigsStay
      <3> QED
        BY <3>1, <3>2, <3>3
    <2> QED
      BY <2>1 DEF CoveredUnlessCrossed
  <1> QED
    BY <1>1, Inductive, PTL

(* No sequence of calls, of any number of clients, removes a variation from    *)
(* under a configuration, rule or target that named it all along.            *)
THEOREM OldReferencesStay == Spec => []OldReferencesResolve
  <1>1. IInv => OldReferencesResolve
    BY DEF IInv
  <1> QED
    BY <1>1, Inductive, PTL
================================================================================
