----------------------- MODULE EnvironmentLifecycle_proofs -----------------------
(***************************************************************************)
(* What racing calls on a project's environments and API keys can and cannot *)
(* do, proved for every set of calls, environments and keys. The inductive   *)
(* invariant says what a call that has read and not yet written may still    *)
(* rely on: little, so most of it is about what never changes back.          *)
(***************************************************************************)
EXTENDS EnvironmentLifecycle, FiniteSetTheorems, SequenceTheorems, WellFoundedInduction, TLAPS

Scopes == Names \cup {Everywhere}
Secrets == Calls \cup {Seed}

Requests ==
  {<<"none">>} \cup {"create", "archive", "unarchive"} \X Names
  \cup {"createKey"} \X Keys \X Scopes \cup {"revoke", "rotate"} \X Keys
Reads == [active : SUBSET Names, keys : SUBSET Keys, badge : BOOLEAN, secret : Secrets]
KeyRows == [scope : Scopes, secret : Secrets, issued : BOOLEAN, revoked : BOOLEAN]

(* Every variable keeps its type, and a label belongs to the operations that  *)
(* reach it.                                                                 *)
TypeOK ==
  /\ pc \in [Calls -> {"idle", "list", "keys", "write", "done", "failed"}]
  /\ op \in [Calls -> Requests]
  /\ read \in [Calls -> Reads]
  /\ active \subseteq Names /\ archived \subseteq Names
  /\ keys \in [Keys -> KeyRows]
  /\ \A c \in Calls : /\ pc[c] = "idle" <=> op[c] = <<"none">>
                      /\ pc[c] \in {"list", "keys"} => op[c][1] = "archive"

(* No environment is forgotten: what a call listed is stored, the environment *)
(* an archive names too, and the badge is on a stored environment.           *)
StoredStays ==
  /\ \A c \in Calls : read[c].active \subseteq Stored
  /\ defaults # {} /\ defaults \subseteq Stored

(* An archive that goes on has counted on another environment, and what it    *)
(* listed is active unless an archive took it.                               *)
ListedStays ==
  /\ \A c \in Calls : op[c][1] = "archive" /\ pc[c] \in {"keys", "write", "done"} =>
       /\ CountedOn(c) # {}
       /\ \A e \in CountedOn(c) : e \in active \/ \E d \in Archives : Target(d) = e
  /\ active = {} => Archives # {}

(* A key that was there at the start stays where it is, so an archive finds    *)
(* the keys its environment had.                                             *)
OldKeysFound ==
  /\ \A k \in DOMAIN Issued : keys[k].issued /\ keys[k].scope = Issued[k]
  /\ \A c \in Calls : op[c][1] = "archive" /\ pc[c] = "write" =>
       \A k \in DOMAIN Issued : Issued[k] = Target(c) => k \in read[c].keys

(* A secret in force was drawn by a call that is done; so was the one a call  *)
(* rotates away, which is not its own.                                       *)
SecretsDrawn ==
  /\ \A k \in Keys : keys[k].secret = Seed \/ pc[keys[k].secret] = "done"
  /\ \A c \in Calls : op[c][1] = "rotate" =>
       /\ read[c].secret # c
       /\ read[c].secret = Seed \/ pc[read[c].secret] = "done"

(* A key that is being or has been rotated or revoked is issued; the rotated   *)
(* secret never comes back, and a revoked key stays revoked.                 *)
KeysStayDead ==
  \A c \in Calls : op[c][1] \in {"rotate", "revoke"} =>
    /\ keys[Target(c)].issued
    /\ pc[c] = "done" =>
         /\ op[c][1] = "rotate" => keys[Target(c)].secret # read[c].secret
         /\ op[c][1] = "revoke" => keys[Target(c)].revoked

IInv ==
  /\ TypeOK /\ StoredStays /\ ListedStays
  /\ OldKeysFound /\ ArchiveWithdrawsKeys
  /\ SecretsDrawn /\ KeysStayDead
--------------------------------------------------------------------------------
(* Lemmas about what a call names and lists *)

(* What a request names has the type its operation expects.                   *)
LEMMA TargetType ==
  ASSUME TypeOK, NEW c \in Calls
  PROVE  /\ op[c][1] \in {"create", "archive", "unarchive"} => Target(c) \in Names
         /\ op[c][1] \in {"createKey", "revoke", "rotate"} => Target(c) \in Keys
         /\ op[c][1] = "createKey" => op[c][3] \in Scopes
         /\ pc[c] # "idle" <=> op[c][1] # "none"
  <1>1. op[c] \in Requests /\ (pc[c] = "idle" <=> op[c] = <<"none">>)
    BY DEF TypeOK
  <1> QED
    BY <1>1 DEF Requests, Target

(* A set of more than one environment has one beside any given one.           *)
LEMMA AnotherOne ==
  ASSUME NEW E \in SUBSET Names, ~(Cardinality(E) <= 1), NEW e
  PROVE  E \ {e} # {}
  <1>1. IsFiniteSet(Names)
    <2> DEFINE n == Len(Environments)
    <2>1. n \in Nat /\ Environments \in [1..n -> Names] /\ DOMAIN Environments = 1..n
      BY EnvironmentsListed, LenProperties
    <2>2. IsFiniteSet(1..n)
      BY <2>1, FS_Interval
    <2>3. Environments \in Surjection(1..n, Names)
      BY <2>1 DEF Surjection, Names, Range
    <2> QED
      BY <2>2, <2>3, FS_Surjection
  <1>2. IsFiniteSet(E)
    BY <1>1, FS_Subset
  <1> SUFFICES ASSUME E \subseteq {e}  PROVE FALSE
    OBVIOUS
  <1>3. IsFiniteSet({e}) /\ Cardinality({e}) = 1
    BY FS_Singleton
  <1>4. Cardinality(E) <= 1
    BY <1>3, FS_Subset
  <1> QED
    BY <1>4

(* A nonempty set of naturals has a least element.                            *)
LEMMA LeastOf ==
  ASSUME NEW S \in SUBSET Nat, S # {}
  PROVE  Min(S) \in S
  <1>1. PICK m \in S : \A n \in S : ~(<<n, m>> \in OpToRel(<, Nat))
    BY NatLessThanWellFounded, WFMin
  <1>2. \A n \in S : ~(n < m)
    BY <1>1 DEF OpToRel
  <1>3. \A n \in S : m <= n
    BY <1>2
  <1> QED
    BY <1>3 DEF Min

(* The first of some environments in key order is one of them.                *)
LEMMA FirstOf ==
  ASSUME NEW E \in SUBSET Names, E # {}
  PROVE  Environments[First(E)] \in E
  <1> DEFINE I == {i \in 1..Len(Environments) : Environments[i] \in E}
  <1>1. Len(Environments) \in Nat /\ DOMAIN Environments = 1..Len(Environments)
    BY EnvironmentsListed, LenProperties
  <1>2. I # {} /\ I \subseteq Nat
    BY <1>1 DEF Names, Range
  <1>3. First(E) = Min(I)
    BY <1>2 DEF First, SelectInSeq
  <1>4. Min(I) \in I
    BY <1>2, LeastOf
  <1> QED
    BY <1>3, <1>4

--------------------------------------------------------------------------------
(* The initial states and the start of a call *)

(* The initial states satisfy the invariant.                                *)
LEMMA InitHolds == Init => IInv
  <1> SUFFICES ASSUME Init  PROVE IInv
    OBVIOUS
  <1>1. DOMAIN Issued \subseteq Keys /\ \A k \in DOMAIN Issued : Issued[k] \in Starters \cup {Everywhere}
    BY IssuedInScope DEF Range
  <1>2. keys \in [Keys -> KeyRows]
    BY <1>1, StartersExist DEF Init, Unissued, KeyRows, Scopes, Secrets
  <1>3. TypeOK
    BY <1>2, StartersExist DEF Init, TypeOK, Nothing, Requests, Reads, Secrets
  <1>4. StoredStays
    BY DEF Init, StoredStays, Nothing, Stored
  <1>5. ListedStays
    BY StartersExist DEF Init, ListedStays
  <1>6. OldKeysFound /\ ArchiveWithdrawsKeys
    BY <1>1 DEF Init, OldKeysFound, ArchiveWithdrawsKeys, Unissued
  <1>7. SecretsDrawn /\ KeysStayDead
    BY <1>1 DEF Init, SecretsDrawn, KeysStayDead, Unissued
  <1> QED
    BY <1>3, <1>4, <1>5, <1>6, <1>7 DEF IInv

(* What a call has read when it starts, and what it may rely on.              *)
LEMMA BeginEffect ==
  ASSUME IInv, NEW c \in Calls, Begin(c)
  PROVE  \E request \in Requests, what \in Reads, label \in {"write", "list"} :
           /\ pc[c] = "idle" /\ request # <<"none">>
           /\ pc' = [pc EXCEPT ![c] = label]
           /\ op' = [op EXCEPT ![c] = request]
           /\ read' = [read EXCEPT ![c] = what]
           /\ UNCHANGED <<environments, keys>>
           /\ label = "list" <=> request[1] = "archive"
           /\ what.active = {} /\ what.secret \in Secrets
           /\ request[1] \in {"rotate", "revoke"} => request[2] \in Keys /\ keys[request[2]].issued
           /\ request[1] = "rotate" => what.secret = keys[request[2]].secret
  <1> DEFINE Effect(request, what, label) ==
               /\ request \in Requests /\ what \in Reads /\ label \in {"write", "list"}
               /\ pc[c] = "idle" /\ request # <<"none">>
               /\ pc' = [pc EXCEPT ![c] = label]
               /\ op' = [op EXCEPT ![c] = request]
               /\ read' = [read EXCEPT ![c] = what]
               /\ UNCHANGED <<environments, keys>>
               /\ label = "list" <=> request[1] = "archive"
               /\ what.active = {} /\ what.secret \in Secrets
               /\ request[1] \in {"rotate", "revoke"} => request[2] \in Keys /\ keys[request[2]].issued
               /\ request[1] = "rotate" => what.secret = keys[request[2]].secret
  <1> SUFFICES \E request, what, label : Effect(request, what, label)
    BY Zenon
  <1> USE DEF Start, Goto
  <1> DEFINE Badge(b) == [Nothing EXCEPT !.badge = b]
             Secret(s) == [Nothing EXCEPT !.secret = s]
  <1>1. Nothing \in Reads /\ Nothing.active = {} /\ Nothing.secret \in Secrets
    BY DEF Nothing, Reads, Secrets
  <1>2. \A b \in BOOLEAN : Badge(b) \in Reads /\ Badge(b).active = {} /\ Badge(b).secret \in Secrets
    BY <1>1 DEF Reads
  <1>3. \A s \in Secrets : Secret(s) \in Reads /\ Secret(s).active = {} /\ Secret(s).secret = s
    BY <1>1 DEF Reads
  <1>4. CASE Create(c)
    <2>1. PICK e \in Names : Start(c, <<"create", e>>, Badge(Stored = {}))
      BY <1>4 DEF Create
    <2> HIDE DEF Badge
    <2>2. Effect(<<"create", e>>, Badge(Stored = {}), "write")
      BY <1>2, <1>4, <2>1 DEF Create, Requests
    <2> QED
      BY <2>2
  <1>5. CASE Archive(c)
    <2>1. PICK e \in active : Start(c, <<"archive", e>>, Badge(e \in defaults))
      BY <1>5 DEF Archive
    <2>2. <<"archive", e>> \in Requests /\ (e \in defaults) \in BOOLEAN
      BY DEF Requests, IInv, TypeOK
    <2> HIDE DEF Badge
    <2>3. Effect(<<"archive", e>>, Badge(e \in defaults), "list")
      BY <1>2, <1>5, <2>1, <2>2 DEF Archive
    <2> QED
      BY <2>3
  <1>6. CASE Unarchive(c)
    <2>1. PICK e \in archived : Start(c, <<"unarchive", e>>, Nothing)
      BY <1>6 DEF Unarchive
    <2>2. Effect(<<"unarchive", e>>, Nothing, "write")
      BY <1>1, <1>6, <2>1 DEF Unarchive, Requests, IInv, TypeOK
    <2> QED
      BY <2>2
  <1>7. CASE CreateKey(c)
    <2>1. PICK k \in Keys, scope \in Scopes : Start(c, <<"createKey", k, scope>>, Nothing)
      BY <1>7 DEF CreateKey, Scopes, Stored, IInv, TypeOK
    <2>2. Effect(<<"createKey", k, scope>>, Nothing, "write")
      BY <1>1, <1>7, <2>1 DEF CreateKey, Requests
    <2> QED
      BY <2>2
  <1>8. CASE Revoke(c)
    <2>1. PICK k \in Keys : keys[k].issued /\ Start(c, <<"revoke", k>>, Nothing)
      BY <1>8 DEF Revoke
    <2>2. Effect(<<"revoke", k>>, Nothing, "write")
      BY <1>1, <1>8, <2>1 DEF Revoke, Requests
    <2> QED
      BY <2>2
  <1>9. CASE Rotate(c)
    <2>1. PICK k \in Keys : keys[k].issued /\ Start(c, <<"rotate", k>>, Secret(keys[k].secret))
      BY <1>9 DEF Rotate
    <2>2. keys[k].secret \in Secrets
      BY DEF IInv, TypeOK, KeyRows
    <2> HIDE DEF Secret
    <2>3. Effect(<<"rotate", k>>, Secret(keys[k].secret), "write")
      BY <1>3, <1>9, <2>1, <2>2 DEF Rotate, Requests
    <2> QED
      BY <2>3
  <1> QED
    BY <1>4, <1>5, <1>6, <1>7, <1>8, <1>9 DEF Begin

(* Starting a call writes nothing and relies on committed rows only.          *)
LEMMA BeginKeeps ==
  ASSUME IInv, NEW c \in Calls, Begin(c)
  PROVE  IInv'
  <1>1. PICK request \in Requests, what \in Reads, label \in {"write", "list"} :
           /\ pc[c] = "idle" /\ request # <<"none">>
           /\ pc' = [pc EXCEPT ![c] = label]
           /\ op' = [op EXCEPT ![c] = request]
           /\ read' = [read EXCEPT ![c] = what]
           /\ UNCHANGED <<environments, keys>>
           /\ label = "list" <=> request[1] = "archive"
           /\ what.active = {} /\ what.secret \in Secrets
           /\ request[1] \in {"rotate", "revoke"} => request[2] \in Keys /\ keys[request[2]].issued
           /\ request[1] = "rotate" => what.secret = keys[request[2]].secret
    BY BeginEffect
  <1>2. UNCHANGED <<active, archived, defaults, keys>>
    BY <1>1 DEF environments
  <1>3. \A d \in Calls : /\ d # c => pc'[d] = pc[d] /\ op'[d] = op[d] /\ read'[d] = read[d]
                         /\ d = c => pc'[d] = label /\ op'[d] = request /\ read'[d] = what
    BY <1>1 DEF IInv, TypeOK
  <1>4. TypeOK'
    BY <1>1, <1>2, <1>3 DEF IInv, TypeOK
  <1>5. StoredStays'
    BY <1>1, <1>2, <1>3 DEF IInv, StoredStays, Stored
  <1>6. Archives' = Archives
    BY <1>1, <1>3 DEF Archives, IInv, TypeOK
  <1>7. ListedStays'
    <2>1. \A d \in Archives : Target(d)' = Target(d)
      BY <1>1, <1>3 DEF Archives, Target
    <2>2. \A d \in Calls : op'[d][1] = "archive" /\ pc'[d] \in {"keys", "write", "done"} =>
            op'[d] = op[d] /\ pc'[d] = pc[d] /\ CountedOn(d)' = CountedOn(d)
      BY <1>1, <1>3 DEF CountedOn, Target
    <2> QED
      BY <1>2, <1>6, <2>1, <2>2 DEF IInv, ListedStays
  <1>8. OldKeysFound' /\ ArchiveWithdrawsKeys'
    BY <1>1, <1>2, <1>3 DEF IInv, OldKeysFound, ArchiveWithdrawsKeys, Target
  <1>9. SecretsDrawn'
    <2>1. \A s \in Secrets : s = Seed \/ pc[s] = "done" => s # c /\ (s = Seed \/ pc'[s] = "done")
      BY <1>1, <1>3, SeedIsNoCall DEF Secrets
    <2>2. /\ \A k \in Keys : keys[k].secret \in Secrets
          /\ \A d \in Calls : read[d].secret \in Secrets
      BY DEF IInv, TypeOK, KeyRows, Reads
    <2>3. \A k \in Keys : keys'[k].secret = Seed \/ pc'[keys'[k].secret] = "done"
      BY <1>2, <2>1, <2>2 DEF IInv, SecretsDrawn
    <2>4. ASSUME NEW d \in Calls, op'[d][1] = "rotate"
          PROVE  read'[d].secret # d /\ (read'[d].secret = Seed \/ pc'[read'[d].secret] = "done")
      <3>1. CASE d = c
        BY <1>1, <1>3, <2>1, <2>2, <2>4, <3>1 DEF IInv, SecretsDrawn
      <3>2. CASE d # c
        BY <1>3, <2>1, <2>2, <2>4, <3>2 DEF IInv, SecretsDrawn
      <3> QED
        BY <3>1, <3>2
    <2> QED
      BY <2>3, <2>4 DEF SecretsDrawn
  <1>10. KeysStayDead'
    BY <1>1, <1>2, <1>3 DEF IInv, KeysStayDead, Target
  <1> QED
    BY <1>4, <1>5, <1>7, <1>8, <1>9, <1>10 DEF IInv

--------------------------------------------------------------------------------
(* The later steps of a call, one lemma for each part of the invariant *)

Later(c) == Continue(c) \/ Rollback(c)

(* A later step leaves what the call asks for alone, and is not taken by a    *)
(* call that is done; only ListActive and RevokeKeys read.                   *)
LEMMA LaterFrame ==
  ASSUME TypeOK, NEW c \in Calls, Later(c)
  PROVE  /\ op' = op /\ \A d \in Calls : Target(d)' = Target(d)
         /\ pc[c] \in {"list", "keys", "write"}
         /\ pc'[c] \in {"keys", "write", "done", "failed"}
         /\ \A d \in Calls \ {c} : pc'[d] = pc[d] /\ read'[d] = read[d]
         /\ read' \in [Calls -> Reads] /\ read'[c].secret = read[c].secret
  <1> USE DEF Write, Goto
  <1>1. /\ op' = op /\ pc[c] \in {"list", "keys", "write"}
        /\ pc' \in [Calls -> {"idle", "list", "keys", "write", "done", "failed"}]
        /\ pc'[c] \in {"keys", "write", "done", "failed"}
        /\ \A d \in Calls \ {c} : pc'[d] = pc[d]
    BY DEF Later, Continue, WriteCreate, ListActive, RevokeKeys, WriteArchive, WriteUnarchive,
           WriteCreateKey, WriteRevoke, WriteRotate, Rollback, TypeOK
  <1>2. /\ read' \in [Calls -> Reads] /\ read'[c].secret = read[c].secret
        /\ \A d \in Calls \ {c} : read'[d] = read[d]
    <2>1. CASE ListActive(c)
      BY <2>1 DEF ListActive, TypeOK, Reads
    <2>2. CASE RevokeKeys(c)
      BY <2>2 DEF RevokeKeys, TypeOK, Reads, KeysOf
    <2>3. CASE ~(ListActive(c) \/ RevokeKeys(c))
      BY <2>3 DEF Later, Continue, WriteCreate, WriteArchive, WriteUnarchive,
                  WriteCreateKey, WriteRevoke, WriteRotate, Rollback, TypeOK
    <2> QED
      BY <2>1, <2>2, <2>3
  <1> QED
    BY <1>1, <1>2 DEF Target

(* What a call under way writes is typed.                                   *)
LEMMA TypeKeeps ==
  ASSUME IInv, NEW c \in Calls, Later(c)
  PROVE  TypeOK'
  <1> USE DEF IInv, Write, Goto
  <1>1. /\ op' = op /\ read' \in [Calls -> Reads] /\ pc[c] \in {"list", "keys", "write"}
    BY LaterFrame
  <1>2. /\ pc' \in [Calls -> {"idle", "list", "keys", "write", "done", "failed"}]
        /\ \A d \in Calls : /\ pc'[d] = "idle" <=> op[d] = <<"none">>
                            /\ pc'[d] \in {"list", "keys"} => op[d][1] = "archive"
    BY <1>1 DEF Later, Continue, WriteCreate, ListActive, RevokeKeys, WriteArchive, WriteUnarchive,
           WriteCreateKey, WriteRevoke, WriteRotate, Rollback, TypeOK
  <1>3. active' \subseteq Names /\ archived' \subseteq Names
    BY TargetType DEF Later, Continue, WriteCreate, ListActive, RevokeKeys, WriteArchive,
      WriteUnarchive, WriteCreateKey, WriteRevoke, WriteRotate, Rollback, TypeOK, environments
  <1>4. keys' \in [Keys -> KeyRows]
    <2>1. CASE WriteCreateKey(c)
      <3>1. [Unissued EXCEPT !.scope = op[c][3], !.secret = c, !.issued = TRUE] \in KeyRows
        BY <2>1, TargetType DEF WriteCreateKey, Unissued, KeyRows, Secrets
      <3> QED
        BY <2>1, <3>1 DEF WriteCreateKey, TypeOK
    <2>2. CASE WriteRotate(c)
      <3>1. \A row \in KeyRows : [row EXCEPT !.secret = c] \in KeyRows
        BY DEF KeyRows, Secrets
      <3> QED
        BY <2>2, <3>1 DEF WriteRotate, SecretFor, TypeOK
    <2>3. CASE WriteRevoke(c)
      BY <2>3 DEF WriteRevoke, TypeOK, KeyRows
    <2>4. CASE WriteArchive(c)
      <3>1. \A row \in KeyRows : [row EXCEPT !.revoked = TRUE] \in KeyRows
        BY DEF KeyRows
      <3> QED
        BY <2>4, <3>1 DEF WriteArchive, TypeOK
    <2>5. CASE ~(WriteCreateKey(c) \/ WriteRotate(c) \/ WriteRevoke(c) \/ WriteArchive(c))
      BY <2>5 DEF Later, Continue, WriteCreate, ListActive, RevokeKeys, WriteUnarchive,
                  Rollback, TypeOK
    <2> QED
      BY <2>1, <2>2, <2>3, <2>4, <2>5
  <1> QED
    BY <1>1, <1>2, <1>3, <1>4 DEF TypeOK

(* Rows are never deleted, and the badge moves to a stored environment.       *)
LEMMA StoredKeeps ==
  ASSUME IInv, NEW c \in Calls, Later(c)
  PROVE  StoredStays'
  <1> USE DEF IInv, Write, Goto
  <1>1. Stored \subseteq Stored'
    BY DEF Later, Continue, WriteCreate, ListActive, RevokeKeys, WriteArchive, WriteUnarchive,
           WriteCreateKey, WriteRevoke, WriteRotate, Rollback, environments, Stored
  <1>2. \A d \in Calls : read'[d].active \subseteq Stored'
    <2>1. CASE ListActive(c)
      BY <1>1, <2>1, LaterFrame DEF ListActive, StoredStays, Stored, TypeOK, Reads
    <2>2. CASE RevokeKeys(c)
      BY <1>1, <2>2, LaterFrame DEF RevokeKeys, StoredStays, TypeOK, Reads
    <2>3. CASE ~(ListActive(c) \/ RevokeKeys(c))
      BY <1>1, <2>3 DEF Later, Continue, WriteCreate, WriteArchive, WriteUnarchive,
                        WriteCreateKey, WriteRevoke, WriteRotate, Rollback, StoredStays
    <2> QED
      BY <2>1, <2>2, <2>3
  <1>3. defaults' # {} /\ defaults' \subseteq Stored'
    <2>1. CASE WriteCreate(c)
      BY <1>1, <2>1 DEF WriteCreate, StoredStays, Stored
    <2>2. CASE WriteArchive(c)
      <3> DEFINE successors == read[c].active \ {Target(c)}
      <3>1. successors \subseteq Names /\ successors \subseteq Stored
        BY DEF TypeOK, Reads, StoredStays
      <3>2. successors # {} => Environments[First(successors)] \in Stored
        BY <3>1, FirstOf
      <3> HIDE DEF successors
      <3>3. defaults' = IF read[c].badge /\ successors # {}
              THEN (defaults \ {Target(c)}) \cup {Environments[First(successors)]}
              ELSE defaults
        BY <2>2 DEF WriteArchive, MoveBadge, successors
      <3> QED
        BY <1>1, <3>2, <3>3 DEF StoredStays
    <2>3. CASE ~(WriteCreate(c) \/ WriteArchive(c))
      BY <1>1, <2>3 DEF Later, Continue, ListActive, RevokeKeys, WriteUnarchive,
             WriteCreateKey, WriteRevoke, WriteRotate, Rollback, environments, StoredStays
    <2> QED
      BY <2>1, <2>2, <2>3
  <1> QED
    BY <1>2, <1>3 DEF StoredStays

(* An environment leaves the active ones by an archive carried out.           *)
LEMMA ListedKeeps ==
  ASSUME IInv, NEW c \in Calls, Later(c)
  PROVE  ListedStays'
  <1> USE DEF IInv, Write, Goto
  <1>1. /\ op' = op /\ pc[c] \in {"list", "keys", "write"}
        /\ \A d \in Calls : Target(d)' = Target(d)
        /\ \A d \in Calls \ {c} : pc'[d] = pc[d] /\ read'[d] = read[d]
    BY LaterFrame
  <1>2. Archives \subseteq Archives'
    BY <1>1 DEF Archives
  <1>3. \A e \in active : e \in active' \/ \E d \in Archives' : Target(d)' = e
    <2>1. CASE WriteArchive(c)
      <3>1. c \in Archives' /\ active' = active \ {Target(c)}
        BY <1>1, <2>1 DEF WriteArchive, Archives, TypeOK
      <3> QED
        BY <1>1, <3>1
    <2>2. CASE ~WriteArchive(c)
      BY <2>2 DEF Later, Continue, WriteCreate, ListActive, RevokeKeys, WriteUnarchive,
             WriteCreateKey, WriteRevoke, WriteRotate, Rollback, environments
    <2> QED
      BY <2>1, <2>2
  <1>4. active' = {} => Archives' # {}
    <2>1. CASE active = {}
      BY <1>2, <2>1 DEF ListedStays
    <2>2. CASE active # {}
      BY <1>3, <2>2
    <2> QED
      BY <2>1, <2>2
  <1>5. ASSUME NEW d \in Calls, op[d][1] = "archive", pc'[d] \in {"keys", "write", "done"}
        PROVE  /\ CountedOn(d)' # {}
               /\ \A e \in CountedOn(d)' : e \in active' \/ \E x \in Archives' : Target(x)' = e
    <2>1. CASE d = c /\ ListActive(c)
      <3>1. CountedOn(c)' = active \ {Target(c)} /\ ~(Cardinality(active) <= 1)
        BY <1>1, <1>5, <2>1 DEF ListActive, CountedOn, TypeOK, Reads
      <3>2. active \ {Target(c)} # {}
        BY <3>1, AnotherOne DEF TypeOK
      <3> QED
        BY <1>3, <2>1, <3>1, <3>2
    <2>2. CASE ~(d = c /\ ListActive(c))
      <3>1. CountedOn(d)' = CountedOn(d)
        <4>1. read'[d].active = read[d].active
          <5>1. CASE d # c
            BY <1>1, <5>1
          <5>2. CASE d = c /\ RevokeKeys(c)
            BY <5>2 DEF RevokeKeys, TypeOK, Reads
          <5>3. CASE d = c /\ ~RevokeKeys(c)
            BY <2>2, <5>3 DEF Later, Continue, WriteCreate, WriteArchive, WriteUnarchive,
                              WriteCreateKey, WriteRevoke, WriteRotate, Rollback
          <5> QED
            BY <5>1, <5>2, <5>3
        <4> QED
          BY <1>1, <4>1 DEF CountedOn
      <3>2. pc[d] \in {"keys", "write", "done"}
        BY <1>1, <1>5, <2>2 DEF Later, Continue, Rollback, TypeOK, WriteCreate, RevokeKeys,
          WriteArchive, WriteUnarchive, WriteCreateKey, WriteRevoke, WriteRotate
      <3>3. CountedOn(d) # {} /\ \A e \in CountedOn(d) : e \in active \/ \E x \in Archives : Target(x) = e
        BY <1>5, <3>2 DEF ListedStays
      <3>4. \A x \in Archives : x \in Archives' /\ Target(x)' = Target(x)
        BY <1>1, <1>2 DEF Archives
      <3> QED
        BY <1>3, <3>1, <3>3, <3>4
    <2> QED
      BY <2>1, <2>2
  <1> QED
    BY <1>1, <1>4, <1>5 DEF ListedStays

(* A key once issued stays issued in its scope, and is not un-revoked; every   *)
(* archive revokes the keys it found.                                        *)
LEMMA KeysMove ==
  ASSUME IInv, NEW c \in Calls, Later(c)
  PROVE  /\ \A k \in Keys : keys[k].issued =>
              /\ keys'[k].issued /\ keys'[k].scope = keys[k].scope
              /\ keys[k].revoked => keys'[k].revoked
         /\ \A k \in Keys : \/ keys'[k].secret = keys[k].secret
                            \/ /\ keys'[k].secret = c /\ pc'[c] = "done"
                               /\ WriteCreateKey(c) => ~keys[k].issued
         /\ WriteArchive(c) => \A k \in read[c].keys : keys'[k].revoked
         /\ WriteRevoke(c) => keys'[Target(c)].revoked
         /\ WriteRotate(c) => keys'[Target(c)].secret = c
  <1> USE DEF IInv, Write, Goto
  <1>1. keys \in [Keys -> KeyRows] /\ pc \in [Calls -> {"idle", "list", "keys", "write", "done", "failed"}]
        /\ read[c].keys \subseteq Keys
    BY DEF TypeOK, Reads
  <1>2. CASE WriteCreateKey(c)
    BY <1>1, <1>2, TargetType DEF WriteCreateKey, KeyRows, Unissued, WriteArchive, WriteRevoke, WriteRotate
  <1>3. CASE WriteRotate(c)
    BY <1>1, <1>3, TargetType DEF WriteRotate, KeyRows, SecretFor, WriteArchive, WriteRevoke, WriteCreateKey
  <1>4. CASE WriteRevoke(c)
    BY <1>1, <1>4, TargetType DEF WriteRevoke, KeyRows, WriteArchive, WriteRotate, WriteCreateKey
  <1>5. CASE WriteArchive(c)
    <2>1. \A k \in Keys : keys'[k] = IF k \in read[c].keys THEN [keys[k] EXCEPT !.revoked = TRUE] ELSE keys[k]
      BY <1>5 DEF WriteArchive
    <2>2. \A row \in KeyRows :
            /\ [row EXCEPT !.revoked = TRUE].issued = row.issued
            /\ [row EXCEPT !.revoked = TRUE].scope = row.scope
            /\ [row EXCEPT !.revoked = TRUE].secret = row.secret
            /\ [row EXCEPT !.revoked = TRUE].revoked = TRUE
      BY DEF KeyRows
    <2>3. \A k \in Keys : /\ keys'[k].issued = keys[k].issued /\ keys'[k].scope = keys[k].scope
                          /\ keys'[k].secret = keys[k].secret
                          /\ keys[k].revoked \/ k \in read[c].keys => keys'[k].revoked
      BY <1>1, <2>1, <2>2
    <2>4. ~WriteRevoke(c) /\ ~WriteRotate(c)
      BY <1>5 DEF WriteArchive, WriteRevoke, WriteRotate
    <2> QED
      BY <1>1, <2>3, <2>4
  <1>6. CASE ~(WriteCreateKey(c) \/ WriteRotate(c) \/ WriteRevoke(c) \/ WriteArchive(c))
    BY <1>6 DEF Later, Continue, WriteCreate, ListActive, RevokeKeys, WriteUnarchive, Rollback
  <1> QED
    BY <1>2, <1>3, <1>4, <1>5, <1>6

(* The keys an environment had at the start are found by every archive of it. *)
LEMMA OldKeysKeep ==
  ASSUME IInv, NEW c \in Calls, Later(c)
  PROVE  OldKeysFound' /\ ArchiveWithdrawsKeys'
  <1> USE DEF IInv, Write, Goto
  <1>1. /\ op' = op /\ \A d \in Calls : Target(d)' = Target(d)
        /\ \A d \in Calls \ {c} : pc'[d] = pc[d] /\ read'[d] = read[d]
    BY LaterFrame
  <1>2. DOMAIN Issued \subseteq Keys
    BY IssuedInScope
  <1>3. \A k \in DOMAIN Issued : keys'[k].issued /\ keys'[k].scope = Issued[k]
    BY <1>2, KeysMove DEF OldKeysFound
  <1>4. ASSUME NEW d \in Calls, op[d][1] = "archive", pc'[d] = "write",
               NEW k \in DOMAIN Issued, Issued[k] = Target(d)
        PROVE  k \in read'[d].keys
    <2>1. CASE d # c
      BY <1>1, <1>4, <2>1 DEF OldKeysFound
    <2>2. CASE d = c
      <3>1. RevokeKeys(c)
        BY <1>4, <2>2 DEF Later, Continue, TypeOK, WriteCreate, ListActive, WriteArchive,
          WriteUnarchive, WriteCreateKey, WriteRevoke, WriteRotate, Rollback
      <3>2. read'[c].keys = KeysOf(Target(c))
        BY <3>1 DEF RevokeKeys, TypeOK, Reads
      <3> QED
        BY <1>2, <1>4, <2>2, <3>2 DEF OldKeysFound, KeysOf
    <2> QED
      BY <2>1, <2>2
  <1>5. ASSUME NEW k \in DOMAIN Issued, Issued[k] \in archived'
        PROVE  keys'[k].revoked
    <2>1. CASE Issued[k] \in archived
      BY <1>2, <2>1, KeysMove DEF OldKeysFound, ArchiveWithdrawsKeys
    <2>2. CASE Issued[k] \notin archived
      <3>1. WriteArchive(c) /\ Issued[k] = Target(c)
        BY <1>5, <2>2 DEF Later, Continue, WriteCreate, ListActive, RevokeKeys, WriteArchive,
          WriteUnarchive, WriteCreateKey, WriteRevoke, WriteRotate, Rollback, environments
      <3>2. k \in read[c].keys
        BY <3>1 DEF WriteArchive, OldKeysFound
      <3> QED
        BY <3>1, <3>2, KeysMove
    <2> QED
      BY <2>1, <2>2
  <1> QED
    BY <1>1, <1>3, <1>4, <1>5 DEF OldKeysFound, ArchiveWithdrawsKeys

(* A secret is drawn once, by the call that commits it.                       *)
LEMMA SecretsKeep ==
  ASSUME IInv, NEW c \in Calls, Later(c)
  PROVE  SecretsDrawn' /\ KeysStayDead'
  <1> USE DEF IInv
  <1>1. /\ op' = op /\ \A d \in Calls : Target(d)' = Target(d)
        /\ pc[c] \in {"list", "keys", "write"}
        /\ \A d \in Calls \ {c} : pc'[d] = pc[d] /\ read'[d] = read[d]
        /\ read'[c].secret = read[c].secret
    BY LaterFrame
  <1>2. \A s \in Secrets : s = Seed \/ pc[s] = "done" => s # c /\ (s = Seed \/ pc'[s] = "done")
    BY <1>1, SeedIsNoCall DEF Secrets
  <1>3. /\ \A k \in Keys : keys[k].secret \in Secrets
        /\ \A d \in Calls : read[d].secret \in Secrets /\ read'[d].secret = read[d].secret
    BY <1>1 DEF TypeOK, KeyRows, Reads
  <1>4. \A k \in Keys : keys'[k].secret = Seed \/ pc'[keys'[k].secret] = "done"
    BY <1>2, <1>3, KeysMove DEF SecretsDrawn
  <1>5. SecretsDrawn'
    BY <1>1, <1>2, <1>3, <1>4 DEF SecretsDrawn
  <1>6. ASSUME NEW d \in Calls, op[d][1] \in {"rotate", "revoke"}
        PROVE  /\ keys'[Target(d)].issued
               /\ pc'[d] = "done" => /\ op[d][1] = "rotate" => keys'[Target(d)].secret # read[d].secret
                                     /\ op[d][1] = "revoke" => keys'[Target(d)].revoked
    <2>1. Target(d) \in Keys /\ keys[Target(d)].issued
      BY <1>6, TargetType DEF KeysStayDead
    <2>2. keys'[Target(d)].issued /\ (keys[Target(d)].revoked => keys'[Target(d)].revoked)
      BY <2>1, KeysMove
    <2>3. CASE pc'[d] = "done" /\ op[d][1] = "rotate"
      <3>1. read[d].secret # d /\ read[d].secret # c
        BY <1>2, <1>3, <2>3 DEF SecretsDrawn
      <3>2. CASE d = c
        <4>1. WriteRotate(c)
          BY <1>1, <2>3, <3>2 DEF Later, Continue, Write, Goto, TypeOK, WriteCreate, ListActive,
            RevokeKeys, WriteArchive, WriteUnarchive, WriteCreateKey, WriteRevoke, Rollback
        <4> QED
          BY <2>2, <2>3, <3>1, <3>2, <4>1, KeysMove
      <3>3. CASE d # c
        <4>1. keys[Target(d)].secret # read[d].secret
          BY <1>1, <2>3, <3>3 DEF KeysStayDead
        <4> QED
          BY <2>1, <2>2, <2>3, <3>1, <4>1, KeysMove
      <3> QED
        BY <3>2, <3>3
    <2>4. CASE pc'[d] = "done" /\ op[d][1] = "revoke"
      <3>1. CASE d = c
        <4>1. WriteRevoke(c)
          BY <1>1, <2>4, <3>1 DEF Later, Continue, Write, Goto, TypeOK, WriteCreate, ListActive,
            RevokeKeys, WriteArchive, WriteUnarchive, WriteCreateKey, WriteRotate, Rollback
        <4> QED
          BY <2>2, <2>4, <3>1, <4>1, KeysMove
      <3>2. CASE d # c
        BY <1>1, <2>2, <2>4, <3>2 DEF KeysStayDead
      <3> QED
        BY <3>1, <3>2
    <2> QED
      BY <1>6, <2>2, <2>3, <2>4
  <1> QED
    BY <1>1, <1>3, <1>5, <1>6 DEF KeysStayDead

--------------------------------------------------------------------------------
(* The theorems *)

(* Every step preserves the invariant.                                      *)
LEMMA NextKeeps == IInv /\ [Next]_vars => IInv'
  <1> SUFFICES ASSUME IInv, [Next]_vars  PROVE IInv'
    OBVIOUS
  <1>1. ASSUME NEW c \in Calls, Begin(c)  PROVE IInv'
    BY <1>1, BeginKeeps
  <1>2. ASSUME NEW c \in Calls, Later(c)  PROVE IInv'
    BY <1>2, TypeKeeps, StoredKeeps, ListedKeeps, OldKeysKeep, SecretsKeep DEF IInv
  <1>3. CASE UNCHANGED vars
    BY <1>3 DEF vars, IInv, TypeOK, StoredStays, ListedStays, OldKeysFound, ArchiveWithdrawsKeys,
      SecretsDrawn, KeysStayDead, Stored, Archives, CountedOn, Target
  <1> QED
    BY <1>1, <1>2, <1>3 DEF Next, Later

(* The invariant holds in every state.                                      *)
LEMMA Inductive == Spec => []IInv
  BY InitHolds, NextKeeps, PTL DEF Spec

(* Every variable keeps its type.                                            *)
THEOREM TypeCorrect == Spec => []TypeOK
  BY Inductive, PTL DEF IInv

(* However archives, creations and unarchives cross, the default badge is not  *)
(* lost and stays on an environment the project has.                         *)
THEOREM BadgeStays == Spec => [](BadgeIsKept /\ defaults \subseteq Stored)
  <1>1. IInv => BadgeIsKept /\ defaults \subseteq Stored
    BY DEF IInv, StoredStays, BadgeIsKept
  <1> QED
    BY <1>1, Inductive, PTL

(* A project runs out of active environments only by archives each of which    *)
(* counted on an environment another one archived.                           *)
THEOREM OnlyACircleEmpties == Spec => []EmptiedOnlyByCircle
  <1>1. IInv => EmptiedOnlyByCircle
    BY DEF IInv, ListedStays, EmptiedOnlyByCircle, Archives
  <1> QED
    BY <1>1, Inductive, PTL

(* An archived environment has none of the keys left that it had at the start, *)
(* whatever calls on them its archives meet.                                 *)
THEOREM ArchiveWithdraws == Spec => []ArchiveWithdrawsKeys
  BY Inductive, PTL DEF IInv

(* A secret that was rotated away, and every secret of a revoked key, stays    *)
(* useless for good.                                                         *)
THEOREM LeakedStaysDead == Spec => []LeakedSecretIsDead
  <1>1. IInv => LeakedSecretIsDead
    BY DEF IInv, KeysStayDead, LeakedSecretIsDead, Works
  <1> QED
    BY <1>1, Inductive, PTL
================================================================================
