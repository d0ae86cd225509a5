----------------------------- MODULE PooledApprovals -----------------------------
(***************************************************************************)
(* ChangeRequests on the API's connection pool. A transaction keeps one      *)
(* connection from its first statement to its last; an approval, holding the  *)
(* row it has claimed, takes a second one for the reads of applier.apply,    *)
(* which go through the pool and not through the transaction. A call that    *)
(* waits for a row or for a connection keeps what it holds.                  *)
(*                                                                          *)
(* A definition whose name ends in _Mutant is the definition after it with   *)
(* one plausible bug; no action uses it.                                     *)
(***************************************************************************)
EXTENDS ChangeRequests, FiniteSetsExt

CONSTANT PoolMax     (* env.databasePoolMax *)

ASSUME PoolHasConnections == PoolMax \in Nat \ {0}

VARIABLE connections  (* connections[c]: how many call c has checked out.   *)

pooledVars == <<vars, connections>>

PooledInit == Init /\ connections = [c \in Calls |-> 0]

Free == MapThenSumSet(LAMBDA c : connections[c], Calls) < PoolMax

(* Where a transaction has yet to begin.                                     *)
Before == {"proposing", "deciding", "checked", "setting"}

(* The reads of applier.apply have yet to be made.                           *)
Applying(c) == pc[c] = "decided" /\ job[c].op = "approve"

Lacks(c) ==
  \/ pc[c] \in Before /\ connections[c] < 1
  \/ Applying(c) /\ connections[c] < 2

(* pool.connect, when a connection is free.                                  *)
Connect(c) ==
  /\ Lacks(c)
  /\ Free
  /\ connections' = [connections EXCEPT ![c] = @ + 1]
  /\ UNCHANGED vars

(* A read gives its connection back, a transaction at its end.               *)
Release(c) ==
  connections' = [connections EXCEPT ![c] =
                    IF pc'[c] \in {"done", "failed"} THEN 0 ELSE IF @ > 1 THEN 1 ELSE @]

TimeOut_Mutant(c) == FALSE  \* a pool without connectionTimeoutMillis

(* connectionTimeoutMillis: no connection for ten seconds fails the call.    *)
TimeOut(c) ==
  /\ Lacks(c)
  /\ ~Free
  /\ Abort(c)
  /\ Release(c)

PooledBegin(c) == Free /\ Begin(c) /\ UNCHANGED connections

PooledContinue(c) == ~Lacks(c) /\ Continue(c) /\ Release(c)

PooledRollback(c) == Rollback(c) /\ Release(c)

PooledNext ==
  \/ \E c \in Calls :
       PooledBegin(c) \/ PooledContinue(c) \/ PooledRollback(c) \/ Connect(c) \/ TimeOut(c)
  \/ UpdateRole /\ UNCHANGED connections

PooledSpec == PooledInit /\ [][PooledNext]_pooledVars

(* The pool serves and times out whoever waits; the database goes on with    *)
(* what it can.                                                              *)
PooledFairness ==
  \A c \in Calls : /\ WF_pooledVars(PooledContinue(c))
                   /\ WF_pooledVars(Connect(c)) /\ WF_pooledVars(TimeOut(c))
PooledFairSpec == PooledSpec /\ PooledFairness

--------------------------------------------------------------------------------
(* Every call that starts is answered, although approvals hold a connection  *)
(* and a locked row while they wait for another connection, and the calls    *)
(* that hold it may be waiting for the row.                                  *)
EveryCallEnds ==
  \A c \in Calls : pc[c] # "idle" ~> pc[c] \in {"done", "failed"}
================================================================================
