-------------------------- MODULE EnvironmentLifecycle --------------------------
(***************************************************************************)
(* The environments of one project and the API keys issued for them:        *)
(* create, archive and unarchive an environment; create, revoke and rotate  *)
(* a key. Every call reads what it checks outside its transaction, or under *)
(* READ COMMITTED inside it, and writes later.                              *)
(*                                                                          *)
(* The writes of a transaction are unconditional updates by id, so the row  *)
(* locks it takes only decide which of two writers commits last; they are   *)
(* left out, and the writes happen at the commit.                           *)
(*                                                                          *)
(* A definition whose name ends in _Mutant is the definition after it with  *)
(* one plausible bug; no action uses it.                                    *)
(***************************************************************************)
EXTENDS Integers, FiniteSets, Sequences, SequencesExt

CONSTANTS
  Calls,         (* API calls; bounds how many are made.                     *)
  Operations,    (* The operations the calls may ask for.                    *)
  Environments,  (* Environments by key, in key order: a sequence.           *)
  Starters,      (* The environments the project starts with.                *)
  Keys,          (* API keys; bounds how many are issued.                    *)
  Issued,        (* Where the keys that exist at the start authenticate.     *)
  Everywhere,    (* The scope of a project-wide key.                         *)
  Seed           (* Whoever issued the secrets the calls start from.         *)

Names == Range(Environments)

ASSUME EnvironmentsListed == Environments \in Seq(Names)
ASSUME StartersExist == Starters \subseteq Names /\ Starters # {}
ASSUME IssuedInScope ==
  DOMAIN Issued \subseteq Keys /\ Range(Issued) \subseteq Starters \cup {Everywhere}
ASSUME SeedIsNoCall == Seed \notin Calls /\ Everywhere \notin Names

VARIABLES
  pc,        (* pc[c]: what call c does next.                               *)
  op,        (* op[c]: the operation it asks for and the object it names.   *)
  read,      (* read[c]: what it read before its transaction wrote.         *)
  active,    (* Environments whose archived_at is null.                     *)
  archived,  (* Environments whose archived_at is set.                      *)
  defaults,  (* Environments whose is_default is true.                      *)
  keys       (* keys[k]: the api_keys row of k, if it is issued.            *)

vars == <<pc, op, read, active, archived, defaults, keys>>
call == <<pc, op, read>>
environments == <<active, archived, defaults>>

Nothing == [active |-> {}, keys |-> {}, badge |-> FALSE, secret |-> Seed]
Unissued == [scope |-> Everywhere, secret |-> Seed, issued |-> FALSE, revoked |-> FALSE]

Init ==
  /\ pc = [c \in Calls |-> "idle"]
  /\ op = [c \in Calls |-> <<"none">>]
  /\ read = [c \in Calls |-> Nothing]
  /\ active = Starters
  /\ archived = {}
  /\ \E e \in Starters : defaults = {e}
  /\ keys = [k \in Keys |->
       IF k \in DOMAIN Issued THEN [Unissued EXCEPT !.scope = Issued[k], !.issued = TRUE]
       ELSE Unissued]

Stored == active \cup archived
First(E) == SelectInSeq(Environments, LAMBDA e : e \in E)

--------------------------------------------------------------------------------
(* One call *)

(* The environment or key a call names.                                      *)
Target(c) == op[c][2]

Start(c, request, what) ==
  /\ pc[c] = "idle"
  /\ request[1] \in Operations
  /\ op' = [op EXCEPT ![c] = request]
  /\ read' = [read EXCEPT ![c] = what]

Goto(c, label) == pc' = [pc EXCEPT ![c] = label]

Write(c, operation) == pc[c] = "write" /\ op[c][1] = operation /\ Goto(c, "done")

--------------------------------------------------------------------------------
(* Environments *)

(* create: the key is free, and the environments are counted, before the     *)
(* transaction.                                                              *)
Create(c) ==
  /\ \E e \in Names \ Stored :
       Start(c, <<"create", e>>, [Nothing EXCEPT !.badge = (Stored = {})])
  /\ Goto(c, "write")
  /\ UNCHANGED <<environments, keys>>

WriteCreate(c) ==
  /\ Write(c, "create") /\ Target(c) \notin Stored
  /\ active' = active \cup {Target(c)}
  /\ defaults' = IF read[c].badge THEN defaults \cup {Target(c)} ELSE defaults
  /\ UNCHANGED <<op, read, archived, keys>>

(* archive: the row is read before the transaction.                          *)
Archive(c) ==
  /\ \E e \in active :
       Start(c, <<"archive", e>>, [Nothing EXCEPT !.badge = (e \in defaults)])
  /\ Goto(c, "list")
  /\ UNCHANGED <<environments, keys>>

ListActive_Mutant(c) ==  \* off by one
  /\ pc[c] = "list"
  /\ read' = [read EXCEPT ![c].active = active]
  /\ Goto(c, IF Cardinality(active) < 1 THEN "failed" ELSE "keys")
  /\ UNCHANGED <<op, environments, keys>>

ListActive(c) ==
  /\ pc[c] = "list"
  /\ read' = [read EXCEPT ![c].active = active]
  /\ Goto(c, IF Cardinality(active) <= 1 THEN "failed" ELSE "keys")
  /\ UNCHANGED <<op, environments, keys>>

KeysOf(e) == {k \in Keys : keys[k].issued /\ keys[k].scope = e}

RevokeKeys_Mutant(c) ==  \* finds no keys: compares with the environment's key
  /\ pc[c] = "keys"
  /\ Goto(c, "write")
  /\ UNCHANGED <<op, read, environments, keys>>

(* revokeKeysForEnvironment: the keys committed by now.                      *)
RevokeKeys(c) ==
  /\ pc[c] = "keys"
  /\ read' = [read EXCEPT ![c].keys = KeysOf(Target(c))]
  /\ Goto(c, "write")
  /\ UNCHANGED <<op, environments, keys>>

MoveBadge_Mutant(c) ==  \* the successor is looked for among today's rows
  LET successors == active \ {Target(c)}
  IN  IF read[c].badge
      THEN (defaults \ {Target(c)}) \cup
           (IF successors = {} THEN {} ELSE {Environments[First(successors)]})
      ELSE defaults

(* The badge goes to the first other environment the call listed.            *)
MoveBadge(c) ==
  LET successors == read[c].active \ {Target(c)}
  IN  IF read[c].badge /\ successors # {}
      THEN (defaults \ {Target(c)}) \cup {Environments[First(successors)]}
      ELSE defaults

WriteArchive(c) ==
  /\ Write(c, "archive")
  /\ keys' = [k \in Keys |->
       IF k \in read[c].keys THEN [keys[k] EXCEPT !.revoked = TRUE] ELSE keys[k]]
  /\ active' = active \ {Target(c)}
  /\ archived' = archived \cup {Target(c)}
  /\ defaults' = MoveBadge(c)
  /\ UNCHANGED <<op, read>>

Unarchive(c) ==
  /\ \E e \in archived : Start(c, <<"unarchive", e>>, Nothing)
  /\ Goto(c, "write")
  /\ UNCHANGED <<environments, keys>>

WriteUnarchive(c) ==
  /\ Write(c, "unarchive")
  /\ active' = active \cup {Target(c)}
  /\ archived' = archived \ {Target(c)}
  /\ UNCHANGED <<op, read, defaults, keys>>

--------------------------------------------------------------------------------
(* API keys *)

(* create: the environment exists, archived or not; the prefix is unused.    *)
CreateKey(c) ==
  /\ \E k \in Keys, scope \in Stored \cup {Everywhere} :
       /\ ~keys[k].issued
       /\ Start(c, <<"createKey", k, scope>>, Nothing)
  /\ Goto(c, "write")
  /\ UNCHANGED <<environments, keys>>

WriteCreateKey(c) ==
  /\ Write(c, "createKey") /\ ~keys[Target(c)].issued
  /\ keys' = [keys EXCEPT ![Target(c)] =
       [Unissued EXCEPT !.scope = op[c][3], !.secret = c, !.issued = TRUE]]
  /\ UNCHANGED <<op, read, environments>>

(* revoke and rotate: the key is read, and refused if it is revoked, before  *)
(* the transaction.                                                          *)
Revoke(c) ==
  /\ \E k \in Keys : keys[k].issued /\ ~keys[k].revoked /\ Start(c, <<"revoke", k>>, Nothing)
  /\ Goto(c, "write")
  /\ UNCHANGED <<environments, keys>>

WriteRevoke(c) ==
  /\ Write(c, "revoke")
  /\ keys' = [keys EXCEPT ![Target(c)].revoked = TRUE]
  /\ UNCHANGED <<op, read, environments>>

Rotate(c) ==
  /\ \E k \in Keys :
       /\ keys[k].issued /\ ~keys[k].revoked
       /\ Start(c, <<"rotate", k>>, [Nothing EXCEPT !.secret = keys[k].secret])
  /\ Goto(c, "write")
  /\ UNCHANGED <<environments, keys>>

(* Every call draws a secret of its own.                                     *)
SecretFor(c) == c

WriteRotate_Mutant(c) ==  \* the row is written back as it was read
  /\ Write(c, "rotate")
  /\ keys' = [keys EXCEPT ![Target(c)].secret = SecretFor(c), ![Target(c)].revoked = FALSE]
  /\ UNCHANGED <<op, read, environments>>

(* replaceSecret: revoked_at is left alone.                                  *)
WriteRotate(c) ==
  /\ Write(c, "rotate")
  /\ keys' = [keys EXCEPT ![Target(c)].secret = SecretFor(c)]
  /\ UNCHANGED <<op, read, environments>>

--------------------------------------------------------------------------------
(* A unique index refuses the insert, or the connection is lost.             *)
Rollback(c) ==
  /\ pc[c] \notin {"idle", "done", "failed"}
  /\ Goto(c, "failed")
  /\ UNCHANGED <<op, read, environments, keys>>

Begin(c) ==
  \/ Create(c) \/ Archive(c) \/ Unarchive(c)
  \/ CreateKey(c) \/ Revoke(c) \/ Rotate(c)

Continue(c) ==
  \/ WriteCreate(c) \/ ListActive(c) \/ RevokeKeys(c) \/ WriteArchive(c)
  \/ WriteUnarchive(c) \/ WriteCreateKey(c) \/ WriteRevoke(c) \/ WriteRotate(c)

Next == \E c \in Calls : Begin(c) \/ Continue(c) \/ Rollback(c)

Spec == Init /\ [][Next]_vars

--------------------------------------------------------------------------------
(* Properties *)

Works(k, secret) == keys[k].issued /\ ~keys[k].revoked /\ keys[k].secret = secret

(* Archives that race never lose the default badge: some environment of the  *)
(* project carries it, even if an archived one.                              *)
BadgeIsKept == defaults # {}

(* The archives carried out, and the environments each had counted on.        *)
Archives == {c \in Calls : op[c][1] = "archive" /\ pc[c] = "done"}
CountedOn(c) == read[c].active \ {Target(c)}

(* The rule that a project keeps an active environment fails only in one     *)
(* way: archives that counted on each other. Every one of them left the      *)
(* project to an environment that another one archived.                      *)
EmptiedOnlyByCircle ==
  active = {} =>
    Archives # {} /\ \A c \in Archives : \E d \in Archives : Target(d) \in CountedOn(c)

(* The keys an environment had before anything else happened are revoked     *)
(* when it has been archived, whatever is rotated meanwhile.                 *)
ArchiveWithdrawsKeys ==
  \A k \in DOMAIN Issued : Issued[k] \in archived => keys[k].revoked

(* "The old secret stops working the moment the hash is replaced": once a      *)
(* call is done, the secret it rotated away, or those of the key it revoked,  *)
(* never work again, whatever other calls had read before.                   *)
LeakedSecretIsDead ==
  \A c \in Calls : pc[c] = "done" =>
    /\ op[c][1] = "rotate" => ~Works(Target(c), read[c].secret)
    /\ op[c][1] = "revoke" => \A s \in Calls \cup {Seed} : ~Works(Target(c), s)

(* Refuted: an archived environment has no key that still works.             *)
ArchivedHasNoKeys ==
  \A k \in Keys : keys[k].issued /\ ~keys[k].revoked => keys[k].scope \notin archived

(* Refuted: "A project must always retain at least one active environment"            *)
(* (docs/domain-model.md).                                                   *)
KeepsOneActive == active # {}

(* Refuted: "moves the default badge to a surviving active environment when the       *)
(* archived one held it" (docs/domain-model.md).                             *)
BadgeOnActive == active # {} => defaults \subseteq active
================================================================================
