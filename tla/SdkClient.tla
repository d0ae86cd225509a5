------------------------------- MODULE SdkClient --------------------------------
(***************************************************************************)
(* The Node SDK's FeatureFlags client against GET /v1/sdk/config: initialize, *)
(* the chain of refresh timers it starts, close, and requests that overlap,  *)
(* fail, time out or answer late.                                            *)
(*                                                                          *)
(* A flow is one initialize call and the timers and refreshes that follow    *)
(* from it. The refresh interval is positive: 0 arms no timer at all. The    *)
(* version of a configuration is the configuration itself: the API hashes    *)
(* its content.                                                              *)
(*                                                                          *)
(* A definition whose name ends in _Mutant is the definition after it with   *)
(* one plausible bug; no action uses it.                                     *)
(***************************************************************************)
EXTENDS FiniteSets

CONSTANTS
  Flows,    (* Bounds how many initialize calls overlap.                     *)
  Configs,  (* What the environment's configuration may be.                  *)
  None      (* No configuration, no version, no timer.                       *)

ASSUME NoneIsNoConfig == None \notin Configs /\ None \notin Flows

VARIABLES
  server,    (* The configuration the database holds.                        *)
  snapshot,  (* this.snapshot                                                *)
  etag,      (* this.etag                                                    *)
  timer,     (* this.timer: the flow whose timer was armed last.             *)
  closed,    (* this.closed                                                  *)
  flow       (* flow[f]: what the flow is doing, and its request in flight.  *)

vars == <<server, snapshot, etag, timer, closed, flow>>

(* kept is the if-none-match header; moved, that the configuration changed   *)
(* while the API was reading it.                                             *)
Idle == [state |-> "idle", required |-> FALSE, kept |-> None, moved |-> FALSE, answer |-> None]
Armed == [Idle EXCEPT !.state = "armed"]
Sent(required) == [Idle EXCEPT !.state = "sent", !.required = required, !.kept = etag]
Answered(f, what) == [flow[f] EXCEPT !.state = "answered", !.answer = what]

InFlight == {f \in Flows : flow[f].state \in {"sent", "answered"}}
ArmedFlows == {f \in Flows : flow[f].state = "armed"}
Init ==
  /\ server \in Configs
  /\ snapshot = None /\ etag = None /\ timer = None /\ closed = FALSE
  /\ flow = [f \in Flows |-> Idle]

--------------------------------------------------------------------------------
(* The API *)

(* A publish commits.                                                        *)
Publish ==
  /\ server' \in Configs \ {server}
  /\ flow' = [f \in Flows |->
       IF flow[f].state = "sent" THEN [flow[f] EXCEPT !.moved = TRUE] ELSE flow[f]]
  /\ UNCHANGED <<snapshot, etag, timer, closed>>

(* A configuration that changes while it is read may come out as any mixture.*)
Loaded(f) == IF flow[f].moved THEN Configs ELSE {server}

(* 200 with the configuration, or 304 when it is the one the client kept.    *)
Answer(f) ==
  /\ flow[f].state = "sent"
  /\ \E config \in Loaded(f) :
       flow' = [flow EXCEPT ![f] = Answered(f, IF config = flow[f].kept THEN "304" ELSE config)]
  /\ UNCHANGED <<server, snapshot, etag, timer, closed>>

(* A 200 whose body does not match the contract or names another environment.*)
AnswerBadly(f) ==
  /\ flow[f].state = "sent"
  /\ flow' = [flow EXCEPT ![f] = Answered(f, "invalid")]
  /\ UNCHANGED <<server, snapshot, etag, timer, closed>>

--------------------------------------------------------------------------------
(* The client *)

Initialize(f) ==
  /\ flow[f].state = "idle"
  /\ closed' = FALSE
  /\ flow' = [flow EXCEPT ![f] = Sent(TRUE)]
  /\ UNCHANGED <<server, snapshot, etag, timer>>

Schedule_Mutant(f) ==  \* does not look at closed
  /\ flow' = [flow EXCEPT ![f] = Armed]
  /\ timer' = f

Schedule(f) ==
  IF closed THEN flow' = [flow EXCEPT ![f] = Idle] /\ UNCHANGED timer
  ELSE flow' = [flow EXCEPT ![f] = Armed] /\ timer' = f

(* The timer fires; this.timer keeps naming it.                              *)
Fire(f) ==
  /\ flow[f].state = "armed"
  /\ flow' = [flow EXCEPT ![f] = Sent(FALSE)]
  /\ UNCHANGED <<server, snapshot, etag, timer, closed>>

(* The first fetch failed: initialize rejects. A later one: onError, and the *)
(* timer is armed again.                                                     *)
AfterFailure_Mutant(f) ==  \* schedules on success only
  flow' = [flow EXCEPT ![f] = Idle] /\ UNCHANGED timer

AfterFailure(f) ==
  IF flow[f].required THEN flow' = [flow EXCEPT ![f] = Idle] /\ UNCHANGED timer
  ELSE Schedule(f)

(* 401, 403, 5xx, no connection, or the abort after timeoutMs.               *)
Fail(f) ==
  /\ flow[f].state = "sent"
  /\ AfterFailure(f)
  /\ UNCHANGED <<server, snapshot, etag, closed>>

Keep_Mutant(what) ==  \* the version is kept before the body is checked
  /\ snapshot' = IF what \in Configs THEN what ELSE snapshot
  /\ etag' = IF what = "304" THEN etag ELSE server

(* A valid 200 replaces the snapshot and its version.                        *)
Keep(what) ==
  /\ snapshot' = IF what \in Configs THEN what ELSE snapshot
  /\ etag' = IF what \in Configs THEN what ELSE etag

Receive(f) ==
  /\ flow[f].state = "answered"
  /\ Keep(flow[f].answer)
  /\ IF flow[f].answer = "invalid" THEN AfterFailure(f) ELSE Schedule(f)
  /\ UNCHANGED <<server, closed>>

(* close: clearTimeout stops the timer armed last, if it has not fired.      *)
Close ==
  /\ closed' = TRUE /\ timer' = None
  /\ flow' = [f \in Flows |-> IF f = timer /\ flow[f].state = "armed" THEN Idle ELSE flow[f]]
  /\ UNCHANGED <<server, snapshot, etag>>

Run(f) == Fire(f) \/ Answer(f) \/ AnswerBadly(f) \/ Fail(f) \/ Receive(f)

Next == Publish \/ Close \/ \E f \in Flows : Initialize(f) \/ Run(f)

Spec == Init /\ [][Next]_vars

(* Timers fire, and a request is answered or aborted.                        *)
FairSpec == Spec /\ \A f \in Flows : WF_vars(Run(f))

(* A request that is retried for ever is answered in the end: an assumption  *)
(* on the API, not on the client.                                            *)
Reachable == \A f \in Flows : SF_vars(Answer(f))

--------------------------------------------------------------------------------
(* Properties *)

(* Once an initialize has resolved, and until the client is closed, it never *)
(* stops refreshing, however its requests fail and however calls overlap.    *)
PollingNeverStops ==
  <>[](timer # None) => []<>(InFlight # {})

(* A client that stays closed falls silent: what overlapping initializes     *)
(* left behind dies out.                                                     *)
QuietAfterClose == <>[]closed => <>[](\A f \in Flows : flow[f].state = "idle")

(* If the API stays reachable, the client comes to serve what the database   *)
(* holds, whatever torn, late or reordered answers it received before: no    *)
(* stale version sticks.                                                     *)
Converges ==
  Reachable => \A k \in Configs :
    <>[](timer # None /\ server = k) => <>[](snapshot = k)

(* Refuted: "close() stops the refresh timer" (docs/sdk.md).                          *)
CloseStopsTimer == closed => ArmedFlows = {}
================================================================================
