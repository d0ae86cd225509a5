-------------------------------- MODULE FlagTabs --------------------------------
(***************************************************************************)
(* The configuration, targeting and variations tabs of one flag's page in    *)
(* one environment: what is drafted on them, what they send, and what the     *)
(* answers do to the draft, while another user writes the same flag and a     *)
(* proposal may be approved.                                                 *)
(*                                                                          *)
(* `enabled` stands for what the targeting tab sends of the configuration     *)
(* but does not edit, `unseen` for what it does not edit of a rule: its        *)
(* segments, its gate and its description. There is one target, and every     *)
(* request is one transaction.                                               *)
(*                                                                          *)
(* A definition whose name ends in _Mutant is the definition after it with   *)
(* one plausible bug; no action uses it.                                     *)
(***************************************************************************)
EXTENDS Naturals, Sequences, SequencesExt, FiniteSets

CONSTANTS
  FirstKey, OtherKey,  (* The variations the flag starts with.              *)
  NewKey,              (* One that may be added.                            *)
  Nothing,             (* No variation, no proposal.                        *)
  MaxEdits,            (* Bounds the edits of a behaviour and, together,    *)
  MaxWrites            (* submissions, tabs opened and writes of others.    *)

ASSUME KeysDiffer == Cardinality({FirstKey, OtherKey, NewKey, Nothing}) = 4

VARIABLES
  stored,     (* What the database holds of the flag, the environment and it. *)
  guarded,    (* environment.isProtected.                                    *)
  proposal,   (* The payload of the pending change request.                  *)
  tab,        (* The tab shown.                                              *)
  tabProps,   (* What the page has loaded for it.                            *)
  tabDraft,   (* What the first two tabs show: [config, rules, target].       *)
  lines,      (* The rows of the third: lines[k] = [value, saved].            *)
  busy,       (* The buttons that wait: "publish", "add", "line".             *)
  inFlight,   (* The requests sent, until they are served and settled.       *)
  unheard,    (* A variation was written, and the tab will not be told of it. *)
  count       (* What is bounded: [edits, sends, others].                    *)

tabPage == <<tab, tabProps, tabDraft, lines, busy>>
tabVars == <<stored, guarded, proposal, tabPage, inFlight, unheard, count>>

Room == count.sends + count.others < MaxWrites

Counted(what) == count' = [count EXCEPT ![what] = @ + 1]

(* What f has, and what else g has: { ...g, ...f }.                            *)
Over(f, g) == [x \in DOMAIN f \cup DOMAIN g |-> IF x \in DOMAIN f THEN f[x] ELSE g[x]]

--------------------------------------------------------------------------------
(* A tab is opened *)

StillOpen(S) == {r \in S : r.served = "no" \/ r.heard = "awaited"}

Unheard(S) == StillOpen({[r EXCEPT !.heard = "failed"] : r \in S})

AddedRule(serve) == [id |-> 2, serve |-> serve, operator |-> "in", unseen |-> "none"]

Drafted(p) == [config |-> p.config, rules |-> p.rules, target |-> p.target]

toRows(flag) == [k \in DOMAIN flag |-> [value |-> flag[k], saved |-> flag[k]]]

TabsInit ==
  /\ stored = [flag |-> [k \in {FirstKey, OtherKey} |-> 0],
               config |-> [enabled |-> FALSE, serve |-> FirstKey],
               rules |-> <<[id |-> 1, serve |-> OtherKey, operator |-> "equals",
                            unseen |-> "segment"]>>,
               target |-> FirstKey]
  /\ guarded \in BOOLEAN
  /\ proposal = Nothing
  /\ tab \in {"configuration", "targeting", "variations"}
  /\ tabProps = stored /\ tabDraft = Drafted(stored) /\ lines = toRows(stored.flag)
  /\ busy = {} /\ inFlight = {} /\ unheard = FALSE
  /\ count = [edits |-> 0, sends |-> 0, others |-> 0]

(* Another tab: it is loaded anew. Nothing that was sent is aborted, but nobody *)
(* listens to its answer any more.                                           *)
OpenTab ==
  /\ Room /\ Counted("sends")
  /\ tab' \in {"configuration", "targeting", "variations"} \ {tab}
  /\ tabProps' = stored /\ tabDraft' = Drafted(stored) /\ lines' = toRows(stored.flag)
  /\ busy' = {} /\ inFlight' = Unheard(inFlight) /\ unheard' = FALSE
  /\ UNCHANGED <<stored, guarded, proposal>>

(* router.refresh, here or by the switcher: new props, the same state.           *)
RefreshTab ==
  /\ tab # "variations" /\ tabProps # stored
  /\ tabProps' = stored
  /\ UNCHANGED <<stored, guarded, proposal, tab, tabDraft, lines, busy, inFlight, unheard,
                 count>>

--------------------------------------------------------------------------------
(* Editing, which nothing that is awaited prevents *)

Offered == DOMAIN tabProps.flag

EditConfiguration ==
  \/ tabDraft' = [tabDraft EXCEPT !.config.enabled = ~@]
  \/ \E k \in Offered : tabDraft' = [tabDraft EXCEPT !.config.serve = k]

updateRule == \E i \in DOMAIN tabDraft.rules, k \in Offered :
                tabDraft' = [tabDraft EXCEPT !.rules[i].serve = k]

updateCondition == \E i \in DOMAIN tabDraft.rules, operator \in {"equals", "in"} :
                     tabDraft' = [tabDraft EXCEPT !.rules[i].operator = operator]

(* It serves the default and asks for `user.id in []`.                        *)
addRule ==
  /\ \A i \in DOMAIN tabDraft.rules : tabDraft.rules[i].id # 2
  /\ tabDraft' = [tabDraft EXCEPT !.rules = Append(@, AddedRule(tabProps.config.serve))]

EditRules ==
  \/ updateRule \/ updateCondition \/ addRule
  \/ \E i \in DOMAIN tabDraft.rules : tabDraft' = [tabDraft EXCEPT !.rules = RemoveAt(@, i)]

EditTarget == /\ tabDraft.target # Nothing
              /\ \E k \in Offered \cup {Nothing} : tabDraft' = [tabDraft EXCEPT !.target = k]

EditDefault == \E k \in Offered : tabDraft' = [tabDraft EXCEPT !.config.serve = k]

EditTargeting == EditRules \/ EditTarget \/ EditDefault

patchRow == \E k \in DOMAIN lines : lines' = [lines EXCEPT ![k].value = 1 - @]

EditTab ==
  /\ count.edits < MaxEdits /\ Counted("edits")
  /\ \/ tab = "configuration" /\ EditConfiguration /\ UNCHANGED lines
     \/ tab = "targeting" /\ EditTargeting /\ UNCHANGED lines
     \/ tab = "variations" /\ patchRow /\ UNCHANGED tabDraft
  /\ UNCHANGED <<stored, guarded, proposal, tab, tabProps, busy, inFlight, unheard>>

--------------------------------------------------------------------------------
(* Sending *)

Request(body, kind, key) ==
  [body |-> body, kind |-> kind, key |-> key, number |-> count.sends,
   changed |-> tabDraft.config.serve # tabProps.config.serve \/ tab = "configuration",
   served |-> "no", heard |-> "awaited", answer |-> Nothing]

changesServing_Mutant == TRUE  \* the configuration goes along each time
changesServing == tabDraft.config.serve # tabProps.config.serve

ConfigInput == [enabled |-> tabProps.config.enabled, serve |-> tabDraft.config.serve]

Payload ==
  IF tab = "configuration"
    THEN [config |-> tabDraft.config]
    ELSE Over([rules |-> tabDraft.rules, target |-> tabDraft.target],
              IF changesServing THEN [config |-> ConfigInput] ELSE <<>>)

(* A protected environment is sent the whole as one proposal; another one is   *)
(* sent each part on its own, side by side. What an earlier publish still      *)
(* awaits, one of whose parts has failed, is aborted.                        *)
Publish ==
  /\ tab # "variations" /\ "publish" \notin busy
  /\ Room /\ Counted("sends")
  /\ busy' = {"publish"}
  /\ inFlight' = Unheard(inFlight) \cup
       IF guarded THEN {Request(Payload, "propose", Nothing)}
       ELSE {Request([p \in {part} |-> Payload[part]], "publish", Nothing) :
               part \in DOMAIN Payload}
  /\ UNCHANGED <<stored, guarded, proposal, tab, tabProps, tabDraft, lines, unheard>>

OnVariations(r) == r.kind \in {"add", "save", "remove"}

Unnoticed(r) == OnVariations(r) /\ r.served = "done"

(* The buttons of the tab share a controller: what it still awaits is aborted, *)
(* wherever that has got to.                                                 *)
SendVariation(body, kind, key, button) ==
  /\ Room /\ Counted("sends")
  /\ button \notin busy /\ busy' = {button}
  /\ inFlight' = Unheard(inFlight) \cup {Request(body, kind, key)}
  /\ unheard' = (unheard \/ \E r \in inFlight : Unnoticed(r))
  /\ UNCHANGED <<stored, guarded, proposal, tab, tabProps, tabDraft, lines>>

addVariation == SendVariation([value |-> 0], "add", NewKey, "add")

rowChanged(line) == line.value # line.saved

saveVariation == \E k \in DOMAIN lines :
  rowChanged(lines[k]) /\ SendVariation([value |-> lines[k].value], "save", k, "line")

removeVariation == \E k \in DOMAIN lines : SendVariation([value |-> 0], "remove", k, "line")

--------------------------------------------------------------------------------
(* The API *)

Named(s) == {s.config.serve} \cup {s.rules[i].serve : i \in DOMAIN s.rules}
                             \cup ({s.target} \ {Nothing})

(* Published, if all it names is there.                                      *)
WithPart(body) == Over(body, stored)
Valid(body) == Named(WithPart(body)) \subseteq DOMAIN stored.flag

Without(flag, key) == [k \in DOMAIN flag \ {key} |-> flag[k]]

Written(r) ==
  CASE r.kind = "publish" -> WithPart(r.body)
    [] r.kind = "propose" -> stored
    [] r.kind \in {"add", "save"} ->
         [stored EXCEPT !.flag = Over([k \in {r.key} |-> r.body.value], @)]
    [] r.kind = "remove" -> [stored EXCEPT !.flag = Without(@, r.key)]

Accepted(r) ==
  CASE r.kind \in {"publish", "propose"} -> Valid(r.body)
    [] r.kind = "add" -> r.key \notin DOMAIN stored.flag
    [] r.kind = "save" -> r.key \in DOMAIN stored.flag
    [] r.kind = "remove" -> /\ r.key \in DOMAIN stored.flag \ Named(stored)
                            /\ Cardinality(DOMAIN stored.flag) > 1

Serve(r) ==
  /\ r.served = "no"
  /\ IF Accepted(r)
       THEN /\ stored' = Written(r)
            /\ proposal' = IF r.kind = "propose" THEN r.body ELSE proposal
            /\ inFlight' = StillOpen((inFlight \ {r}) \cup
                             {[r EXCEPT !.served = "done", !.answer = stored'.flag]})
            /\ unheard' = (unheard \/ (OnVariations(r) /\ r.heard = "failed"))
       ELSE /\ inFlight' = StillOpen((inFlight \ {r}) \cup {[r EXCEPT !.served = "refused"]})
            /\ UNCHANGED <<stored, proposal, unheard>>
  /\ UNCHANGED <<guarded, tabPage, count>>

(* Another user approves what is pending.                                    *)
Approve ==
  /\ proposal # Nothing /\ Valid(proposal)
  /\ stored' = WithPart(proposal) /\ proposal' = Nothing
  /\ UNCHANGED <<guarded, tabPage, inFlight, unheard, count>>

(* Another user publishes, or writes a variation.                            *)
OtherWrites ==
  /\ Room /\ Counted("others")
  /\ \/ stored' = [stored EXCEPT !.config.enabled = ~@] /\ UNCHANGED unheard
     \/ stored' = [stored EXCEPT !.rules = <<>>] /\ UNCHANGED unheard
     \/ /\ \E k \in DOMAIN stored.flag : stored' = [stored EXCEPT !.flag[k] = 1 - @]
        /\ unheard' = TRUE
  /\ UNCHANGED <<guarded, proposal, tabPage, inFlight>>

--------------------------------------------------------------------------------
(* The answers *)

Unlocked(r) == busy \ {IF r.kind \in {"publish", "propose"} THEN "publish"
                       ELSE IF r.kind = "add" THEN "add" ELSE "line"}

Together(r) == {q \in inFlight \ {r} : q.heard = "awaited" /\ q.number = r.number}

(* Of several parts the first to fail, or the last to succeed, unlocks.       *)
Published(r) == IF Together(r) = {} THEN Unlocked(r) ELSE busy

(* The configuration tab adopts the answer; the targeting tab keeps its draft. *)
PublishAnswered(r) ==
  /\ tabDraft' = IF tab = "configuration" /\ r.kind = "publish"
                THEN [tabDraft EXCEPT !.config = r.body.config] ELSE tabDraft
  /\ busy' = Published(r)
  /\ UNCHANGED lines

(* Its row is picked out of the answer, "and the rest of the editor is untouched". *)
Row(r) == [value |-> r.answer[r.key], saved |-> r.answer[r.key]]

VariationAnswered(r) ==
  /\ lines' = CASE r.kind = "add" -> Over([k \in {r.key} |-> Row(r)], lines)
                [] r.kind = "save" -> [lines EXCEPT ![r.key] = Row(r)]
                [] r.kind = "remove" -> Without(lines, r.key)
  /\ busy' = Unlocked(r)
  /\ UNCHANGED tabDraft

AnswerTab(r) ==
  /\ r.served # "no" /\ r.heard = "awaited"
  /\ inFlight' = inFlight \ {r}
  /\ CASE r.served = "refused" -> busy' = Unlocked(r) /\ UNCHANGED <<tabDraft, lines>>
       [] r.served = "done" /\ OnVariations(r) -> VariationAnswered(r)
       [] r.served = "done" /\ ~OnVariations(r) -> PublishAnswered(r)
  /\ UNCHANGED <<stored, guarded, proposal, tab, tabProps, unheard, count>>

(* The request, or its answer, is lost.                                      *)
LoseTab(r) ==
  /\ r.heard = "awaited"
  /\ inFlight' = StillOpen((inFlight \ {r}) \cup {[r EXCEPT !.heard = "failed"]})
  /\ busy' = Unlocked(r)
  /\ unheard' = (unheard \/ Unnoticed(r))
  /\ UNCHANGED <<stored, guarded, proposal, tab, tabProps, tabDraft, lines, count>>

--------------------------------------------------------------------------------
TabsNext ==
  \/ OpenTab \/ RefreshTab \/ EditTab \/ Publish \/ Approve \/ OtherWrites
  \/ tab = "variations" /\ (addVariation \/ saveVariation \/ removeVariation)
  \/ \E r \in inFlight : Serve(r) \/ AnswerTab(r) \/ LoseTab(r)

TabsSpec == TabsInit /\ [][TabsNext]_tabVars

(***************************************************************************)
(* A tab writes what was edited on it, and knows what it has written.        *)
(*                                                                          *)
(* A configuration changes only by a publish that was to change it: one of    *)
(* the targeting tab leaves alone what another user has switched meanwhile,   *)
(* unless the default variation was edited too (handlePublish,                *)
(* changesServing). And what the variations tab holds for saved, so that "an  *)
(* unchanged row does not offer a save", is what is stored, in whatever order  *)
(* its requests are sent, aborted, served, lost and answered, until a          *)
(* variation has been written that it is not yet told of: by another user, or  *)
(* by a request of its own whose answer is on its way, lost or given up.       *)
(***************************************************************************)
TabsKeepToThemselves ==
  /\ [](tab = "variations" /\ ~unheard /\ ~(\E r \in inFlight : Unnoticed(r))
          => /\ DOMAIN lines = DOMAIN stored.flag
             /\ \A k \in DOMAIN lines : lines[k].saved = stored.flag[k])
  /\ [][stored'.config # stored.config =>
          \/ \E r \in inFlight : /\ r.kind = "publish" /\ r.served = "no" /\ r.changed
                                 /\ "config" \in DOMAIN r.body
                                 /\ stored'.config = r.body.config
          \/ proposal # Nothing /\ proposal' = Nothing
          \/ count'.others # count.others]_tabVars
================================================================================
