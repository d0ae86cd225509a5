-------------------------------- MODULE Dashboard --------------------------------
(***************************************************************************)
(* One screen of the dashboard, in a browser tab: it is opened with what the *)
(* API answers, edited, saved and confirmed or refused, while other people    *)
(* write the same resource and another tab switches the project or the        *)
(* environment. Requests may be lost on their way or on the way back, and    *)
(* what a screen no longer awaits may still be served.                       *)
(*                                                                          *)
(* Resource "a" and "b" stand for the same screen in two projects or         *)
(* environments. Screens gives each screen's behaviour.                      *)
(***************************************************************************)
EXTENDS Screens, Naturals, Sequences, SequencesExt, TLC

CONSTANTS
  Catalogue,    (* The screens that occur: name to attributes.              *)
  MaxRequests,  (* Bounds the requests of a behaviour.                      *)
  MaxElsewhere  (* Bounds what other people write and other tabs select.    *)

Resources == {"a", "b"}
Default == 0
Decided == 2  \* no proposal is pending

VARIABLES
  screen,     (* The screen under way, a member of Catalogue's domain.       *)
  isOpen,     (* Whether it is mounted.                                      *)
  gated,      (* environment.isProtected, for both resources.                *)
  store,      (* store[r][f]: what the database holds.                       *)
  created,    (* How many rows this screen created.                          *)
  selected,   (* The resource the cookies select.                            *)
  shown,      (* The resource the screen's props name.                       *)
  props,      (* The values its props hold.                                  *)
  origin,     (* The resource its draft was loaded from.                     *)
  draft,      (* What its fields show.                                       *)
  baseline,   (* What it knows as saved.                                     *)
  locked,     (* The fields whose answer is awaited.                         *)
  confirmed,  (* It says that everything is saved.                           *)
  leaving,    (* A success has started the way to another page.              *)
  refreshing, (* router.refresh has asked for the page.                      *)
  secret,     (* What became of the secrets that answers carry, see Unrevealed. *)
  batch,      (* Marks the requests whose answers the screen awaits.         *)
  requests,   (* The requests sent, with what became of them.                *)
  elsewhere   (* How often others have written or switched.                  *)

Values == {Default, 1}

server == <<store, created, selected, elsewhere>>
local == <<isOpen, props, origin, draft, baseline, locked, confirmed, leaving, refreshing>>
vars == <<screen, gated, server, local, shown, secret, batch, requests>>

this == Catalogue[screen]

--------------------------------------------------------------------------------
(* Mounting *)

Blank == [f \in Fields |-> Default]

Loaded(r) == [f \in Fields |-> IF f \in this.loads THEN store[r][f] ELSE Default]

(* The request whose answer was the last to bring a secret, the one whose      *)
(* secret the component holds, whether nothing is left to be seen, and the    *)
(* first request since the page was opened.                                  *)
Unrevealed == [last |-> 0, held |-> 0, seen |-> TRUE, since |-> 1]

Forgetting == [secret EXCEPT !.held = 0]

(* A screen is mounted with the props of r; what it awaited is forgotten.     *)
Mount(r) ==
  /\ shown' = r /\ props' = store[r]
  /\ origin' = r /\ draft' = Loaded(r) /\ baseline' = Loaded(r)
  /\ locked' = {} /\ confirmed' = FALSE /\ leaving' = FALSE /\ refreshing' = FALSE
  /\ batch' = Len(requests) + 1

Init ==
  /\ screen \in DOMAIN Catalogue
  /\ isOpen = TRUE
  /\ gated \in IF this.proposes THEN BOOLEAN ELSE {FALSE}
  /\ \E v \in IF this.loads = Fields THEN {Default} ELSE Values : store = [r \in Resources |->
       [first |-> Default, second |-> IF r = "a" THEN v ELSE Default]]
  /\ created = 0 /\ elsewhere = 0
  /\ selected = "a" /\ shown = "a" /\ origin = "a"
  /\ props = store["a"] /\ draft = Loaded("a") /\ baseline = Loaded("a")
  /\ locked = {} /\ confirmed = FALSE /\ leaving = FALSE /\ refreshing = FALSE
  /\ secret = Unrevealed
  /\ batch = 1
  /\ requests = <<>>

(* The page is opened, again, by its address or by the selection.            *)
Open ==
  /\ ~isOpen
  /\ isOpen' = TRUE
  /\ Mount(IF this.inPath THEN shown ELSE selected)
  /\ secret' = [secret EXCEPT !.seen = @ \/ secret.held = secret.last]
  /\ UNCHANGED <<screen, gated, server, requests>>

(* What the screen held is forgotten; nothing is aborted.                    *)
Unmount ==
  /\ isOpen' = FALSE
  /\ props' = Blank /\ origin' = shown /\ draft' = Blank /\ baseline' = Blank
  /\ locked' = {} /\ confirmed' = FALSE
  /\ leaving' = FALSE /\ refreshing' = FALSE

(* The user closes the dialog, with the secret it shows, or goes to another   *)
(* page.                                                                     *)
Close ==
  /\ isOpen
  /\ Unmount
  /\ secret' = Forgetting
  /\ UNCHANGED <<screen, gated, server, shown, batch, requests>>

(* An opener goes with the page, whether its dialog is open or not: what is    *)
(* answered from then on finds nobody.                                       *)
LeavePage ==
  /\ this.secret = "opener"
  /\ Unmount
  /\ secret' = [Unrevealed EXCEPT !.since = Len(requests) + 1]
  /\ UNCHANGED <<screen, gated, server, shown, batch, requests>>

(* The page that a success has asked for replaces the screen.                *)
Leave ==
  /\ leaving
  /\ Close

(* The refreshed page arrives: its props follow the cookies, its state stays  *)
(* unless a key or an effect says otherwise.                                 *)
Refreshed ==
  LET r == IF this.inPath THEN shown ELSE selected
  IN  /\ isOpen /\ refreshing
      /\ IF this.resyncs \/ (this.keyed /\ r # shown)
           THEN Mount(r) /\ secret' = Forgetting
           ELSE /\ shown' = r /\ props' = store[r] /\ refreshing' = FALSE
                /\ UNCHANGED <<origin, draft, baseline, locked, confirmed, leaving, batch,
                               secret>>
      /\ UNCHANGED <<screen, isOpen, gated, server, requests>>

--------------------------------------------------------------------------------
(* Editing and sending *)

(* A dialog that has a secret to show shows nothing else.                    *)
Usable == isOpen /\ (this.secret \in {"dialog", "opener"} => secret.held = 0)

Edit ==
  /\ Usable /\ ~this.clicks
  /\ \E f \in this.fields : draft' = [draft EXCEPT ![f] = 1 - @]
  /\ UNCHANGED <<screen, isOpen, gated, server, requests, shown, props, origin, baseline,
                 locked, confirmed, leaving, refreshing, secret, batch>>

Awaited(i) == requests[i].heard = "awaited" /\ requests[i].batch = batch

(* Nothing needs the contents of a request that is served and settled.        *)
With(i, field, value) ==
  LET r == [requests[i] EXCEPT ![field] = value]
  IN  IF r.served = "no" \/ r.heard = "awaited"
        THEN r
        ELSE [r EXCEPT !.body = <<>>, !.names = Default, !.before = Blank,
                       !.wanted = Blank, !.row = Blank]

(* The requests go out under a new controller; the one they abort fails at    *)
(* once, which a screen that rolls back takes for a failure of its own.      *)
Send(bodies, values, lock) ==
  LET aborted == {i \in DOMAIN requests : Awaited(i)}
      Request(body) == [body |-> body, to |-> shown, batch |-> Len(requests) + 1,
                        from |-> IF this.clicks /\ ~this.rollsBack THEN shown ELSE origin,
                        names |-> props["first"], before |-> draft, wanted |-> values,
                        proposal |-> this.proposes /\ gated,
                        served |-> "no", row |-> Blank, heard |-> "awaited"]
  IN  /\ Len(requests) + Len(bodies) <= MaxRequests
      /\ requests' =
           [i \in DOMAIN requests |-> IF i \in aborted
              THEN With(i, "heard", "failed") ELSE requests[i]]
           \o [k \in DOMAIN bodies |-> Request(bodies[k])]
      /\ draft' = IF this.rollsBack /\ aborted # {}
                    THEN requests[CHOOSE i \in aborted : TRUE].before ELSE values
      /\ batch' = Len(requests) + 1
      /\ locked' = lock
      /\ confirmed' = FALSE
      /\ UNCHANGED <<screen, isOpen, gated, server, shown, props, origin, baseline, leaving,
                     refreshing, secret>>

Body(values, fields) == [f \in fields |-> values[f]]

Bodies ==
  CASE this.proposes /\ gated -> <<Body(draft, this.fields)>>
    [] this.sends = "split" ->
         <<Body(draft, {"first"})>> \o
         (IF draft["second"] # props["second"] THEN <<Body(draft, {"second"})>> ELSE <<>>)
    [] this.sends = "changed" ->
         <<Body(draft, {f \in this.fields : draft[f] # baseline[f]})>>
    [] OTHER -> <<Body(draft, this.fields)>>

Submit ==
  /\ Usable /\ ~this.clicks
  /\ locked = {}
  /\ this.needsEdit => draft # baseline
  /\ Send(Bodies, draft, this.fields)

(* A control that sends its new value at once, with the others' if it edits   *)
(* the resource as a whole.                                                  *)
Click ==
  \E f \in this.fields :
    LET values == [draft EXCEPT ![f] = 1 - @]
    IN  /\ Usable /\ this.clicks
        /\ this.locks = "screen" => locked = {}
        /\ this.locks = "field" => f \notin locked
        /\ this.decides => props["first"] # Decided
        /\ CASE this.rollsBack -> Send(<<Body(values, this.fields)>>, values, {})
             [] this.locks = "field" -> Send(<<Body(values, {f})>>, values, {f})
             [] OTHER -> Send(<<[first |-> 1 - props["first"]]>>, draft, {f})

--------------------------------------------------------------------------------
(* The API and the network *)

(* A decision is made of the proposal it names, as long as that is pending.    *)
Apply(i) ==
  LET r == requests[i]
      change == CASE r.proposal -> <<>>
                  [] this.decides -> [first |-> Decided, second |-> r.names]
                  [] OTHER -> r.body
      row == [f \in Fields |-> IF f \in DOMAIN change THEN change[f] ELSE store[r.to][f]]
  IN  /\ r.served = "no"
      /\ this.creates = "unique" => created = 0
      /\ this.decides => store[r.to]["first"] = r.names /\ r.names # Decided
      /\ store' = [store EXCEPT ![r.to] = row]
      /\ created' = created + (IF this.creates = "nothing" THEN 0 ELSE 1)
      /\ requests' = [requests EXCEPT ![i] = IF r.heard = "awaited"
           THEN [r EXCEPT !.served = "done", !.row = row] ELSE With(i, "served", "done")]
      /\ UNCHANGED <<screen, gated, selected, elsewhere, local, shown, secret, batch>>

(* A role withdrawn, a value or a reference that does not validate, a         *)
(* conflict, a failure.                                                      *)
Refuse(i) ==
  /\ requests[i].served = "no"
  /\ requests' = [requests EXCEPT ![i] = With(i, "served", "refused")]
  /\ UNCHANGED <<screen, gated, server, local, shown, secret, batch>>

Hear(i, outcome) == requests' = [requests EXCEPT ![i] = With(i, "heard", outcome)]

Listening(i) == isOpen /\ requests[i].batch = batch

(* A proposal leaves the draft as it was; the answer of a save is adopted.     *)
Succeed(i) ==
  LET adopted == {f \in Fields : /\ this.keeps /\ ~requests[i].proposal
                                 /\ this.locks = "field" => f \in DOMAIN requests[i].body}
      Adopting(v) == [f \in Fields |-> IF f \in adopted THEN requests[i].row[f] ELSE v[f]]
  IN  IF this.after = "close"
        THEN Unmount
        ELSE /\ draft' = Adopting(draft)
             /\ baseline' = Adopting(baseline)
             /\ locked' = IF this.reopens THEN {} ELSE locked
             /\ confirmed' = (this.confirms /\ ~requests[i].proposal)
             /\ refreshing' = (refreshing \/ this.refreshes \/ requests[i].proposal)
             /\ leaving' = (leaving \/ this.after = "leave")
             /\ UNCHANGED <<isOpen, props, origin>>

Fail_Mutant(i) ==  \* pending is not reset
  /\ draft' = IF this.rollsBack THEN requests[i].before ELSE draft
  /\ UNCHANGED <<isOpen, props, origin, baseline, locked, confirmed, leaving, refreshing>>

Fail(i) ==
  /\ draft' = IF this.rollsBack THEN requests[i].before ELSE draft
  /\ locked' = {}
  /\ UNCHANGED <<isOpen, props, origin, baseline, confirmed, leaving, refreshing>>

Others(i) == {k \in DOMAIN requests \ {i} : requests[k].batch = requests[i].batch}

Complete(i) == \A k \in Others(i) : requests[k].heard = "answered" /\ requests[k].served = "done"

Broken(i) == \E k \in Others(i) : requests[k].heard = "failed" \/
                                  (requests[k].heard = "answered" /\ requests[k].served = "refused")

(* The secret of an answer goes to the component that takes it, if it is still *)
(* there, in the place of the one before.                                    *)
Reveal(i) ==
  LET takes == this.secret = "opener" \/ Listening(i)
  IN  secret' = IF i < secret.since THEN secret
                ELSE [secret EXCEPT !.last = i, !.held = IF takes THEN i ELSE @,
                                    !.seen = takes /\ isOpen]

(* The answer of a served request: the last of the submission to succeed      *)
(* completes it.                                                             *)
Answer(i) ==
  LET done == requests[i].served = "done"
  IN  /\ requests[i].served # "no" /\ requests[i].heard = "awaited"
      /\ Hear(i, "answered")
      /\ IF ~Listening(i) \/ Broken(i) \/ (done /\ ~Complete(i))
           THEN UNCHANGED local
           ELSE IF done THEN Succeed(i) ELSE Fail(i)
      /\ IF done /\ this.secret # "nobody" THEN Reveal(i) ELSE UNCHANGED secret
      /\ UNCHANGED <<screen, gated, server, shown, batch>>

(* The request or its answer is lost; the screen cannot tell which.           *)
Lose(i) ==
  /\ requests[i].heard = "awaited"
  /\ Hear(i, "failed")
  /\ IF Listening(i) /\ ~Broken(i)
       THEN Fail(i)
       ELSE UNCHANGED local
  /\ UNCHANGED <<screen, gated, server, shown, secret, batch>>

--------------------------------------------------------------------------------
(* Other people and other tabs *)

Switched == selected' = IF selected = "a" THEN "b" ELSE "a"

OthersWrite ==
  /\ \E f \in Fields, v \in Values :
       v # store["a"][f] /\ store' = [store EXCEPT !["a"][f] = v]
  /\ UNCHANGED <<selected, refreshing>>

(* In another tab: this one is not told.                                     *)
SelectElsewhere == ~this.inPath /\ Switched /\ UNCHANGED <<store, refreshing>>

(* In this tab, which is loaded again before it is left for another page.     *)
SelectProject == isOpen /\ ~this.inPath /\ Switched /\ refreshing' = TRUE /\ UNCHANGED store

(* By the environment switcher, or another control of the page.              *)
RefreshHere ==
  isOpen /\ (this.resyncs \/ ~this.inPath) /\ refreshing' = TRUE /\ UNCHANGED <<store, selected>>

Elsewhere ==
  /\ elsewhere < MaxElsewhere
  /\ elsewhere' = elsewhere + 1
  /\ OthersWrite \/ SelectElsewhere \/ SelectProject \/ RefreshHere
  /\ UNCHANGED <<screen, isOpen, gated, created, requests, shown, props, origin, draft,
                 baseline, locked, confirmed, leaving, secret, batch>>

--------------------------------------------------------------------------------
Next ==
  \/ Open \/ Close \/ Leave \/ LeavePage \/ Refreshed \/ Edit \/ Submit \/ Click \/ Elsewhere
  \/ \E i \in DOMAIN requests : Apply(i) \/ Refuse(i) \/ Answer(i) \/ Lose(i)

Spec == Init /\ [][Next]_vars

(* The API serves what reaches it, fetch settles, and navigation completes.   *)
Fairness ==
  /\ \A i \in 1..MaxRequests :
       WF_vars(i \in DOMAIN requests /\ (Answer(i) \/ Lose(i)))
  /\ WF_vars(Leave)
FairSpec == Spec /\ Fairness

--------------------------------------------------------------------------------
(* Properties *)

(* A screen says that it has saved only if every request of the submission    *)
(* was committed, whatever was lost or refused on the way; and but for the    *)
(* targeting tab and the password form it then shows what was committed,     *)
(* although its fields could be edited meanwhile.                            *)
ConfirmedIsStored ==
  [][confirmed' /\ ~confirmed =>
       \A i \in DOMAIN requests : requests[i].batch = batch =>
         /\ requests[i].served = "done"
         /\ screen \notin {"FlagTargeting", "Password"} =>
              \A f \in DOMAIN requests[i].body : draft'[f] = requests[i].row[f]]_vars

(* "Re-key the interactive tabs on the flag and environment so switching       *)
(* either never leaves the previous screen's local state in place" (the flag  *)
(* page): what is drafted for one environment is never sent to another.      *)
DraftStaysInScope ==
  screen \in {"FlagConfiguration", "FlagTargeting", "FlagVariations", "FlagApproval"} =>
    \A i \in DOMAIN requests : requests[i].from = requests[i].to

(* "All inside one dialog": the secret of a new key, which no other answer      *)
(* will carry, is shown although the dialog was closed while the key was being *)
(* created, or closed, opened and closed: its opener holds it for the next     *)
(* time, until the page is left or the answer of a later creation comes.      *)
NewSecretIsShown ==
  screen = "CreateApiKey" => secret.seen \/ secret.held = secret.last

(* Refuted: "The secret is shown once, here" (create-api-key-dialog). It is    *)
(* not if the page is left before, or two keys are created at once.          *)
EverySecretIsShown ==
  [][screen = "CreateApiKey" /\ secret.held # 0 /\ ~secret.seen /\ secret' # secret
       => secret'.last = secret.last /\ secret'.seen]_vars

(* What a screen awaits arrives, or fails, and it is unlocked or left.       *)
EveryScreenSettles == []<>(locked = {} \/ ~isOpen)

(* Refuted: when the targeting tab says "Published just now", and nobody      *)
(* else has written, what it showed when it was submitted is in force.       *)
PublishedIsInForce ==
  [][/\ confirmed' /\ ~confirmed /\ screen = "FlagTargeting" /\ elsewhere = 0
     => \A i \in DOMAIN requests : Awaited(i) => store[requests[i].to] = requests[i].wanted]_vars
================================================================================
