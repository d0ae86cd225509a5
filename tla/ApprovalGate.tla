------------------------------ MODULE ApprovalGate ------------------------------
(***************************************************************************)
(* What the approval flow promises, with no handler, transaction or lock    *)
(* in sight: each (flag, environment) pair has one slot for an open         *)
(* proposal; a newer proposal takes the slot over; somebody other than the  *)
(* author empties it, and an approval takes effect in that same step, with  *)
(* exactly the content that was proposed.  A direct publish needs no slot.  *)
(***************************************************************************)
CONSTANTS
  Pairs,      (* The (flag, environment) pairs changes are proposed for.    *)
  Requests,   (* Identities of proposals and of direct publishes.           *)
  Users,      (* People.                                                    *)
  Parts,      (* What of a configuration a change can touch.                *)
  NoRequest   (* An empty slot.                                             *)

VARIABLES
  open,       (* open[p]: the proposal waiting for a decision, if any.      *)
  outcome,    (* outcome[r]: how far proposal r has got.                    *)
  author,     (* author[r]: who proposed r.                                 *)
  content,    (* content[r]: the <<pair, part>>s r proposes to change.      *)
  effect      (* effect[r]: the <<pair, part>>s r has changed.              *)

gateVars == <<open, outcome, author, content, effect>>

Init ==
  /\ open = [p \in Pairs |-> NoRequest]
  /\ outcome = [r \in Requests |-> "absent"]
  /\ author = [r \in Requests |-> NoRequest]
  /\ content = [r \in Requests |-> {}]
  /\ effect = [r \in Requests |-> {}]

Propose(p, r) ==
  /\ outcome[r] = "absent" /\ effect[r] = {}
  /\ open' = [open EXCEPT ![p] = r]
  /\ outcome' = [q \in Requests |->
                   IF q = r THEN "pending"
                   ELSE IF q = open[p] THEN "superseded" ELSE outcome[q]]
  /\ \E u \in Users : author' = [author EXCEPT ![r] = u]
  /\ \E parts \in SUBSET Parts : content' = [content EXCEPT ![r] = {p} \X parts]
  /\ UNCHANGED effect

Decide(p, r, u, verdict) ==
  /\ open[p] = r
  /\ author[r] # u
  /\ open' = [open EXCEPT ![p] = NoRequest]
  /\ outcome' = [outcome EXCEPT ![r] = verdict]
  /\ UNCHANGED <<author, content>>

Approve(p, r, u) ==
  /\ Decide(p, r, u, "approved")
  /\ effect' = [effect EXCEPT ![r] = content[r]]

Reject(p, r, u) ==
  /\ Decide(p, r, u, "rejected")
  /\ UNCHANGED effect

PublishDirectly(p, r) ==
  /\ outcome[r] = "absent" /\ effect[r] = {}
  /\ UNCHANGED <<open, outcome, author, content>>
  /\ \E parts \in SUBSET Parts : effect' = [effect EXCEPT ![r] = {p} \X parts]

Next ==
  \E p \in Pairs, r \in Requests :
    \/ Propose(p, r)
    \/ \E u \in Users : Approve(p, r, u) \/ Reject(p, r, u)
    \/ PublishDirectly(p, r)

GateSpec == Init /\ [][Next]_gateVars
================================================================================
