------------------------------- MODULE Web_proofs -------------------------------
(***************************************************************************)
(* The dashboard, proved for any number of requests, sign-ins, events         *)
(* elsewhere and resources: the way in (Onboarding), the forms that create    *)
(* (Creation), the screens (Dashboard) and the tabs of a flag (FlagTabs).     *)
(* Each part has its inductive invariant; the specifications share nothing.  *)
(***************************************************************************)
EXTENDS Dashboard, Onboarding, Creation, FlagTabs, SequenceTheorems, TLAPS

--------------------------------------------------------------------------------
(* The way in *)

Pages == [path : Paths \cup {"error"}, epoch : Nat]
Stages == {"arrived", "render", "proxy", "session", "scope"}

(* What the router holds, and what is shown once it has arrived, of the guarded *)
(* pages was loaded since the last sign-in went on. Until it arrives the page   *)
(* before is shown: whatever ends a way shows another one.                    *)
EntryInv ==
  /\ page \in Pages /\ epoch \in Nat
  /\ going \in [path : Paths, stage : Stages]
  /\ cache \in [Guarded -> SUBSET Pages]
  /\ going = Arrived /\ page.path \in Guarded => page.epoch = epoch
  /\ \A p \in Guarded : \A q \in cache[p] : q.epoch = epoch

LEMMA EntryInitHolds == EntryInit => EntryInv
  BY DEF EntryInit, EntryInv, Nowhere, Arrived, Empty, Pages, Stages, Paths, Guarded, Access,
     GettingStarted, App

(* A step on the way to a page, or there.                                    *)
LEMMA LoadingStep ==
  ASSUME EntryInv, Proxy \/ AskSession \/ Scope \/ ShowPage
  PROVE  EntryInv'
  <1> USE DEF EntryInv, Pages, Stages, Paths, Guarded, Access, GettingStarted, App
  <1>1. UNCHANGED epoch
    BY DEF Proxy, AskSession, Scope, ShowPage
  <1>2. CASE UNCHANGED <<page, cache>> /\ going' \in [path : Paths, stage : Stages \ {"arrived"}]
    BY <1>1, <1>2 DEF Arrived
  <1>3. CASE Render
    BY <1>1, <1>3 DEF Render, Replace, Arrived
  <1>4. ASSUME NEW path \in Paths, Redirect(path)
        PROVE  /\ UNCHANGED <<page, cache>>
               /\ going' \in [path : Paths, stage : Stages \ {"arrived"}]
    BY <1>4 DEF Redirect, Towards
  <1>5. ASSUME NEW stage_ \in Stages \ {"arrived"}, GoOnTo(stage_)
        PROVE  /\ UNCHANGED <<page, cache>>
               /\ going' \in [path : Paths, stage : Stages \ {"arrived"}]
    BY <1>5 DEF GoOnTo
  <1>6. CASE Proxy
    BY <1>2, <1>4, <1>5, <1>6 DEF Proxy
  <1>7. CASE AskSession
    BY <1>2, <1>3, <1>4, <1>5, <1>7 DEF AskSession, GettingStartedLayout, AppLayout
  <1>8. CASE Scope
    <2>1. CASE going' = Arrived /\ Replace(ErrorPage) /\ UNCHANGED cache
      BY <1>1, <2>1 DEF Replace, ErrorPage, Arrived
    <2> QED
      BY <1>2, <1>3, <1>4, <1>8, <2>1 DEF Scope
  <1> QED
    BY <1>3, <1>6, <1>7, <1>8 DEF ShowPage

(* An answer leaves what is shown and held alone, or makes its form go on.     *)
LEMMA AnsweredStep ==
  ASSUME EntryInv, Answered
  PROVE  EntryInv'
  <1> USE DEF EntryInv, Pages, Stages, Paths, Guarded, Access, GettingStarted, App
  <1>1. CASE UNCHANGED <<page, cache, going, epoch>>
    BY <1>1
  <1>2. ASSUME NEW path \in Paths, GoTo(path), epoch' = epoch \/ epoch' = epoch + 1
        PROVE  EntryInv'
    BY <1>2 DEF GoTo, Towards, Empty, Arrived
  <1>3. ASSUME NEW r, NEW heard \in BOOLEAN, NEW path \in Paths, SignedIn(r, heard, path)
        PROVE  EntryInv'
    BY <1>1, <1>2, <1>3 DEF SignedIn, GoOn, shell
  <1>4. ASSUME NEW heard \in BOOLEAN, NEW path \in Paths, GoOn(heard, path), UNCHANGED epoch
        PROVE  EntryInv'
    BY <1>1, <1>2, <1>4 DEF GoOn, shell
  <1>5. ASSUME NEW r, Refused(r)
        PROVE  EntryInv'
    BY <1>1, <1>5 DEF Refused, shell
  <1>6. ASSUME NEW r, NEW heard \in BOOLEAN,
               SignUp(r, heard) \/ SendCode(r, heard) \/ RequestReset(r, heard) \/ Reset(r, heard)
        PROVE  EntryInv'
    BY <1>1, <1>6 DEF SignUp, SendCode, RequestReset, Reset, Stay, shell
  <1>7. ASSUME NEW r, NEW heard \in BOOLEAN,
               SignIn(r, heard) \/ SignInWithProvider(r, heard) \/ Verify(r, heard)
        PROVE  EntryInv'
    <2>1. "/overview" \in Paths /\ "/create-workspace" \in Paths
      OBVIOUS
    <2>2. UNCHANGED <<page, cache, going, epoch>> \/ \E path \in Paths : SignedIn(r, heard, path)
      BY <1>7, <2>1 DEF SignIn, SignInWithProvider, Verify, Stay, shell
    <2> QED
      BY <1>1, <1>3, <2>2
  <1>8. ASSUME NEW r, NEW heard \in BOOLEAN,
               CreateWorkspace(r, heard) \/ CreateFirstProject(r, heard)
        PROVE  EntryInv'
    BY <1>4, <1>8 DEF CreateWorkspace, CreateFirstProject
  <1>9. ASSUME NEW r, NEW heard \in BOOLEAN, SignOut(r, heard)
        PROVE  EntryInv'
    BY <1>9 DEF SignOut, Towards, Arrived
  <1>10. PICK r \in sent :
           \/ \E heard \in BOOLEAN :
                \/ SignIn(r, heard) \/ SignInWithProvider(r, heard) \/ SignUp(r, heard)
                \/ Verify(r, heard) \/ SendCode(r, heard) \/ RequestReset(r, heard)
                \/ Reset(r, heard) \/ CreateWorkspace(r, heard)
                \/ CreateFirstProject(r, heard) \/ SignOut(r, heard)
           \/ Refused(r)
    <2> HIDE DEF EntryInv
    <2> QED
      BY Zenon DEF Answered
  <1> HIDE DEF EntryInv
  <1> QED
    BY <1>5, <1>6, <1>7, <1>8, <1>9, <1>10

LEMMA EntryStep ==
  ASSUME EntryInv, [EntryNext]_entryVars
  PROVE  EntryInv'
  <1> USE DEF EntryInv, Pages, Stages, Paths, Guarded, Access, GettingStarted, App
  <1>1. CASE Visit
    BY <1>1 DEF Visit, Push, Replace, Towards, Arrived
  <1>2. CASE Reload
    BY <1>2 DEF Reload, Towards, Empty, Arrived
  <1>3. CASE SubmitForm
    <2>1. UNCHANGED <<page, cache, going, epoch>>
      BY <1>3 DEF SubmitForm, SignInForm, SignInCode, SignUpForm, SignUpCode,
         ForgotPasswordForm, ResetForm, CreateWorkspaceForm, CreateProjectForm, AccountMenu,
         StartOver, AskAs, AskOn, Ask, shell
    <2> QED
      BY <2>1
  <1>4. CASE ChangeSession
    BY <1>4 DEF ChangeSession, shell, entry
  <1>5. CASE UNCHANGED entryVars
    BY <1>5 DEF entryVars, shell, entry
  <1> QED
    BY <1>1, <1>2, <1>3, <1>4, <1>5, LoadingStep, AnsweredStep DEF EntryNext

(* Whoever signs in in this tab, however often and wherever its user has gone   *)
(* meanwhile: once the form has gone on, no guarded page is shown that was      *)
(* loaded before, since router.refresh clears what the router has kept and the *)
(* push supersedes what is on its way.                                        *)
THEOREM PagesAreFresh == EntrySpec => []NoPageOutlivesSignIn
  <1>1. EntryInv => NoPageOutlivesSignIn
    BY DEF EntryInv, NoPageOutlivesSignIn
  <1> QED
    BY <1>1, EntryInitHolds, EntryStep, PTL DEF EntrySpec

--------------------------------------------------------------------------------
(* The forms that create *)

Attributes == {"user.beta", "user.plan"}
OperatorNames == {"equals", "not_equals", "contains"}
OperatorSet(attribute) ==
  IF attribute = "user.beta" THEN {"equals", "not_equals"} ELSE {"equals", "contains"}
RuleRows ==
  {r \in [attribute : Attributes, operator : OperatorNames, filled : BOOLEAN] :
     r.operator \in OperatorSet(r.attribute)}
SegmentInputs == [name : Texts, key : Texts, rules : Seq(RuleRows)]

(* What is on the last step was reviewed; a segment's conditions have          *)
(* operators of their attributes; a flag's form that has heard of a creation   *)
(* waits for ever.                                                           *)
CreationInv ==
  /\ wizard \in {"environment", "flag", "segment"}
  /\ step = LastStep => reviewed
  /\ wizard = "segment" => input \in SegmentInputs
  /\ made \in Nat /\ missed \in Nat
  /\ wizard = "flag" => \/ made = missed /\ stage = "edited"
                        \/ made = missed + 1 /\ pending /\ stage \in {"leaving", "left"}

LEMMA OperatorsAre ==
  ASSUME NEW a
  PROVE  /\ ToSet(Operators(a)) = OperatorSet(a)
         /\ Head(Operators(a)) \in OperatorSet(a)
  BY DEF ToSet, Operators, OperatorSet

(* The controls of a condition leave it one that its attribute has.          *)
LEMMA EditedRules ==
  ASSUME NEW r \in RuleRows, NEW e \in Edited(r)
  PROVE  e \in RuleRows
  <1> USE DEF RuleRows, Attributes, OperatorNames
  <1>1. ASSUME NEW a \in Attributes, e = withAttribute(r, a)
        PROVE  e \in RuleRows
    BY <1>1, OperatorsAre DEF withAttribute, OperatorSet
  <1>2. ASSUME NEW o \in OperatorSet(r.attribute), e = [r EXCEPT !.operator = o]
        PROVE  e \in RuleRows
    BY <1>2 DEF OperatorSet
  <1>3. ASSUME NEW filled \in BOOLEAN, e = [r EXCEPT !.filled = filled]
        PROVE  e \in RuleRows
    BY <1>3
  <1> QED
    BY <1>1, <1>2, <1>3, OperatorsAre DEF Edited

(* A new condition, and the form at first.                                    *)
LEMMA NewRuleIs == NewRule \in RuleRows
  BY DEF NewRule, RuleRows, Attributes, OperatorNames, OperatorSet

LEMMA FirstInput == [name |-> "", key |-> "", rules |-> <<NewRule>>] \in SegmentInputs
  <1>1. <<NewRule>> \in Seq(RuleRows)
    BY NewRuleIs
  <1> QED
    BY <1>1 DEF SegmentInputs, Texts

(* Typing and choosing keep a segment's input well formed.                   *)
LEMMA SegmentTyped ==
  ASSUME CreationInv, wizard = "segment", Naming \/ Conditions
  PROVE  input' \in SegmentInputs
  <1>0. input \in SegmentInputs
    BY DEF CreationInv
  <1> USE <1>0 DEF SegmentInputs
  <1>1. CASE Naming
    BY <1>1 DEF Naming, Texts
  <1>2. ASSUME NEW k \in DOMAIN input.rules, NEW rule \in Edited(input.rules[k]),
               input' = [input EXCEPT !.rules[k] = rule]
        PROVE  input' \in SegmentInputs
    <2>1. input.rules[k] \in RuleRows
      OBVIOUS
    <2>2. rule \in RuleRows
      BY <2>1, EditedRules
    <2> QED
      BY <1>2, <2>2
  <1>3. CASE input' = [input EXCEPT !.rules = Append(@, NewRule)]
    <2>1. input.rules \in Seq(RuleRows)
      OBVIOUS
    <2>2. Append(input.rules, NewRule) \in Seq(RuleRows)
      BY <2>1, NewRuleIs
    <2> QED
      BY <1>3, <2>2
  <1>4. ASSUME NEW k \in DOMAIN input.rules, input' = [input EXCEPT !.rules = RemoveAt(@, k)]
        PROVE  input' \in SegmentInputs
    <2> DEFINE s == input.rules
    <2>1. s \in Seq(RuleRows) /\ k \in 1..Len(s)
      OBVIOUS
    <2>2. SubSeq(s, 1, k - 1) \in Seq(RuleRows) /\ SubSeq(s, k + 1, Len(s)) \in Seq(RuleRows)
      BY <2>1
    <2>3. RemoveAt(s, k) \in Seq(RuleRows)
      BY <2>2 DEF RemoveAt
    <2> QED
      BY <1>4, <2>3
  <1> QED
    BY <1>1, <1>2, <1>3, <1>4 DEF Conditions

LEMMA CreationStep ==
  ASSUME CreationInv, [CreationNext]_creationVars
  PROVE  CreationInv'
  <1> USE DEF CreationInv, LastStep
  <1>1. CASE Type
    <2>1. step # LastStep
      BY <1>1 DEF Type, EnvironmentStep, FlagStep, SegmentStep
    <2>2. wizard = "segment" => input' \in SegmentInputs
      BY <1>1, SegmentTyped DEF Type, EnvironmentStep, FlagStep, SegmentStep
    <2> QED
      BY <1>1, <2>1, <2>2 DEF Type
  <1>2. CASE SourceLoads
    BY <1>2 DEF SourceLoads, typed
  <1>3. CASE Continue \/ Back
    BY <1>3 DEF Continue, Back, Show, typed
  <1>4. CASE Create
    BY <1>4 DEF Create, Show, OnLastStep, typed
  <1>5. CASE CreateAnswered
    <2>1. UNCHANGED <<wizard, input, reviewed>> /\ (step' = step \/ step' = 0)
      BY <1>5 DEF CreateAnswered, typed
    <2>2. wizard = "flag" => made = missed /\ stage = "edited"
      BY <1>5 DEF CreateAnswered
    <2>3. ASSUME wizard = "flag", made' = made + 1, missed' = missed, Succeeded
          PROVE  made' = missed' + 1 /\ pending' /\ stage' = "leaving"
      <3>1. pending'
        BY <2>3, Zenon DEF Succeeded
      <3> QED
        BY <2>2, <2>3, <3>1 DEF Succeeded
    <2>4. \/ made' = made + 1 /\ missed' = missed /\ Succeeded
          \/ made' = made + 1 /\ missed' = missed + 1 /\ UNCHANGED stage
          \/ UNCHANGED <<made, missed, stage>>
      BY <1>5 DEF CreateAnswered
    <2>5. wizard = "flag" => \/ made' = missed' /\ stage' = "edited"
                             \/ made' = missed' + 1 /\ pending' /\ stage' \in {"leaving", "left"}
      BY <2>2, <2>3, <2>4
    <2> QED
      BY <2>1, <2>4, <2>5
  <1>6. CASE CreateAnother
    <2>1. input' = [name |-> "", key |-> "", rules |-> <<NewRule>>]
      BY <1>6 DEF CreateAnother
    <2>2. wizard # "flag" /\ wizard' = wizard /\ step' = 0
      BY <1>6 DEF CreateAnother
    <2>3. input' \in SegmentInputs
      BY <2>1, FirstInput
    <2>4. /\ UNCHANGED <<pending, made, missed>> /\ made' \in Nat /\ missed' \in Nat
          /\ stage' = "edited" /\ reviewed' = FALSE
      BY <1>6 DEF CreateAnother, loading
    <2> HIDE DEF CreationInv
    <2> QED
      BY <1>6, <2>2, <2>3, <2>4 DEF CreationInv
  <1>7. CASE LeaveForm
    BY <1>7 DEF LeaveForm, typed
  <1>8. CASE UNCHANGED creationVars
    BY <1>8 DEF creationVars, typed
  <1> QED
    BY <1>1, <1>2, <1>3, <1>4, <1>5, <1>6, <1>7, <1>8 DEF CreationNext

(* "Creation only ever happens from the last step": whatever is pressed and     *)
(* whatever the API answers, what is sent was shown, and a flag's form that    *)
(* was told of its creation creates no other one: of those it has created it  *)
(* has heard of one at most.                                                 *)
THEOREM CreatesWhatIsReviewed == CreationSpec => CreatedAsReviewed
  <1>1. ASSUME CreationInit  PROVE CreationInv
    <2>1. wizard = "segment" => input \in SegmentInputs
      BY <1>1, FirstInput, Zenon DEF CreationInit, SegmentInput
    <2> QED
      BY <1>1, <2>1 DEF CreationInit, CreationInv, LastStep
  <1>2. ASSUME CreationInv, [CreationNext]_creationVars
        PROVE  [/\ pending' /\ ~pending =>
                     /\ reviewed
                     /\ wizard = "segment" => \A k \in DOMAIN input.rules :
                          input.rules[k].operator \in ToSet(Operators(input.rules[k].attribute))
                /\ wizard = "flag" => made' <= missed' + 1]_creationVars
    <2>1. CASE UNCHANGED creationVars
      BY <2>1
    <2>2. ASSUME pending', ~pending, CreationNext
          PROVE  reviewed
      BY <1>2, <2>2 DEF CreationInv, CreationNext, Type, SourceLoads, Continue, Back, Create,
         OnLastStep, CreateAnswered, Succeeded, CreateAnother, LeaveForm
    <2>3. ASSUME wizard = "segment", NEW k \in DOMAIN input.rules
          PROVE  input.rules[k].operator \in ToSet(Operators(input.rules[k].attribute))
      <3>1. input.rules[k] \in RuleRows
        BY <1>2, <2>3 DEF CreationInv, SegmentInputs
      <3> QED
        BY <3>1, OperatorsAre DEF RuleRows
    <2>4. ASSUME wizard = "flag", CreationNext
          PROVE  made' <= missed' + 1
      <3>1. CreationInv' /\ wizard' = wizard
        BY <1>2, <2>4, CreationStep DEF CreationNext, Type, SourceLoads, Continue, Back, Create,
           CreateAnswered, CreateAnother, LeaveForm
      <3>2. made' \in Nat /\ missed' \in Nat /\ (made' = missed' \/ made' = missed' + 1)
        BY <2>4, <3>1 DEF CreationInv
      <3>3. ASSUME NEW m \in Nat, NEW n \in Nat, m = n \/ m = n + 1
            PROVE  m <= n + 1
        BY <3>3
      <3> QED
        BY <3>2, <3>3
    <2> QED
      BY <1>2, <2>1, <2>2, <2>3, <2>4
  <1> QED
    BY <1>1, <1>2, CreationStep, PTL DEF CreationSpec, CreatedAsReviewed

--------------------------------------------------------------------------------
(* The screens *)

FlagScreens == {"FlagConfiguration", "FlagTargeting", "FlagVariations", "FlagApproval"}

(* What the properties need of the 25 screens.                               *)
ScreenFacts(name, s) ==
  /\ s.fields \subseteq Fields
  /\ name \in FlagScreens => s.keyed
  /\ name = "CreateApiKey" => s.secret = "opener"
  /\ name \notin {"FlagTargeting", "Password"} /\ s.confirms => s.keeps

LEMMA ScreensAre ==
  ASSUME Catalogue = AllScreens, NEW name \in DOMAIN Catalogue
  PROVE  ScreenFacts(name, Catalogue[name])
  <1> USE DEF ScreenFacts, FlagScreens, Fields, Form
  <1>1. ScreenFacts("EnvironmentDetails", EnvironmentDetails)
    BY DEF EnvironmentDetails, EnvironmentPage, Saved
  <1>2. ScreenFacts("EnvironmentSettings", EnvironmentSettings)
    BY DEF EnvironmentSettings, EnvironmentPage, Saved
  <1>3. ScreenFacts("EnvironmentArchive", EnvironmentArchive)
    BY DEF EnvironmentArchive, EnvironmentPage, Button
  <1>4. ScreenFacts("CreateEnvironment", CreateEnvironment)
    BY DEF CreateEnvironment, Wizard
  <1>5. ScreenFacts("FlagConfiguration", FlagConfiguration)
    BY DEF FlagConfiguration, FlagPage
  <1>6. ScreenFacts("FlagTargeting", FlagTargeting)
    BY DEF FlagTargeting, FlagPage
  <1>7. ScreenFacts("FlagVariations", FlagVariations)
    BY DEF FlagVariations
  <1>8. ScreenFacts("FlagApproval", FlagApproval)
    BY DEF FlagApproval, FlagPage, Button
  <1>9. ScreenFacts("EditFlag", EditFlag)
    BY DEF EditFlag, Dialog
  <1>10. ScreenFacts("ArchiveFlag", ArchiveFlag)
    BY DEF ArchiveFlag, Dialog
  <1>11. ScreenFacts("CreateFlag", CreateFlag)
    BY DEF CreateFlag, Wizard
  <1>12. ScreenFacts("CreateSegment", CreateSegment)
    BY DEF CreateSegment, Wizard
  <1>13. ScreenFacts("ArchiveSegment", ArchiveSegment)
    BY DEF ArchiveSegment, SegmentPage, Button
  <1>14. ScreenFacts("CreateApiKey", CreateApiKey)
    BY DEF CreateApiKey, Wizard
  <1>15. ScreenFacts("RotateApiKey", RotateApiKey)
    BY DEF RotateApiKey, Button
  <1>16. ScreenFacts("RenameApiKey", RenameApiKey)
    BY DEF RenameApiKey, Dialog
  <1>17. ScreenFacts("RevokeApiKey", RevokeApiKey)
    BY DEF RevokeApiKey, Button
  <1>18. ScreenFacts("SdkKeyCard", SdkKeyCard)
    BY DEF SdkKeyCard, IntegrationPage, RotateApiKey, Button
  <1>19. ScreenFacts("CreateProject", CreateProject)
    BY DEF CreateProject, Wizard
  <1>20. ScreenFacts("WorkspaceProfile", WorkspaceProfile)
    BY DEF WorkspaceProfile, Saved
  <1>21. ScreenFacts("WorkspaceSecurity", WorkspaceSecurity)
    BY DEF WorkspaceSecurity, Instant
  <1>22. ScreenFacts("Profile", Profile)
    BY DEF Profile, Saved
  <1>23. ScreenFacts("Password", Password)
    BY DEF Password
  <1>24. ScreenFacts("Preferences", Preferences)
    BY DEF Preferences, Instant
  <1>25. ScreenFacts("Notifications", Notifications)
    BY DEF Notifications, Instant
  <1> HIDE DEF ScreenFacts, FlagScreens, Fields, Form
  <1> QED
    BY <1>1, <1>2, <1>3, <1>4, <1>5, <1>6, <1>7, <1>8, <1>9, <1>10, <1>11, <1>12,
       <1>13, <1>14, <1>15, <1>16, <1>17, <1>18, <1>19, <1>20, <1>21, <1>22, <1>23,
       <1>24, <1>25 DEF AllScreens

FieldRow == [Fields -> Int]
Contents == {<<>>} \cup UNION {[S -> Int] : S \in SUBSET Fields}
Sent ==
  [body : Contents, to : Resources, batch : Nat, from : Resources, names : Int,
   before : FieldRow, wanted : FieldRow, proposal : BOOLEAN, served : {"no", "done", "refused"},
   row : FieldRow, heard : {"awaited", "answered", "failed"}]

Alike(s, r) ==
  s.to = r.to /\ s.from = r.from /\ s.proposal = r.proposal /\ s.batch = r.batch
Emptied(s) == s.served # "no" /\ s.heard # "awaited" => s.body = <<>>

(* A settled request is empty; a keyed screen drafts for the resource it shows, *)
(* and has sent what was drafted for the resource it went to; and an opener    *)
(* holds the last secret while it is yet to be seen, and shows at once what it *)
(* holds while it is open.                                                   *)
RequestOk(r) ==
  /\ r \in Sent /\ Emptied(r)
  /\ r.proposal => this.proposes
  /\ this.keyed => r.from = r.to

PageOk ==
  /\ shown \in Resources /\ origin \in Resources
  /\ props \in FieldRow /\ draft \in FieldRow /\ baseline \in FieldRow
  /\ batch \in Nat
  /\ this.keyed => origin = shown

SecretOk ==
  /\ secret \in [last : Nat, held : Nat, seen : BOOLEAN, since : Nat]
  /\ this.secret = "opener" => /\ secret.seen \/ secret.held = secret.last
                               /\ isOpen /\ secret.held # 0 => secret.seen

ScreenInv ==
  /\ screen \in DOMAIN Catalogue
  /\ store \in [Resources -> FieldRow] /\ selected \in Resources
  /\ PageOk
  /\ SecretOk
  /\ requests \in Seq(Sent) /\ \A i \in DOMAIN requests : RequestOk(requests[i])

(* A settled request keeps where it came from and went to.                   *)
Settle(r) ==
  IF r.served = "no" \/ r.heard = "awaited" THEN r
  ELSE [r EXCEPT !.body = <<>>, !.names = Default, !.before = Blank, !.wanted = Blank,
                 !.row = Blank]

LEMMA SettleKeeps ==
  ASSUME NEW r \in Sent
  PROVE  /\ Settle(r) \in Sent /\ Alike(Settle(r), r) /\ Emptied(Settle(r))
         /\ Settle(r).served = r.served /\ Settle(r).heard = r.heard
  <1>1. Blank \in FieldRow /\ Default \in Int /\ <<>> \in Contents
    BY DEF Blank, FieldRow, Default, Contents
  <1> QED
    BY <1>1 DEF Sent, Settle, Alike, Emptied

(* What becomes of a request: it is heard of, or served.                      *)
LEMMA HeardKeeps ==
  ASSUME NEW i, requests[i] \in Sent, NEW heard \in {"awaited", "answered", "failed"}
  PROVE  /\ With(i, "heard", heard) \in Sent /\ Alike(With(i, "heard", heard), requests[i])
         /\ Emptied(With(i, "heard", heard))
         /\ With(i, "heard", heard).served = requests[i].served
         /\ With(i, "heard", heard).heard = heard
  <1> DEFINE e == [requests[i] EXCEPT !.heard = heard]
  <1>1. /\ e \in Sent /\ Alike(e, requests[i])
        /\ e.served = requests[i].served /\ e.heard = heard
    BY DEF Sent, Alike
  <1>2. With(i, "heard", heard) = Settle(e)
    BY DEF With, Settle
  <1> HIDE DEF e
  <1> QED
    BY <1>1, <1>2, SettleKeeps DEF Alike

LEMMA ServedKeeps ==
  ASSUME NEW i, requests[i] \in Sent, NEW served \in {"done", "refused"}
  PROVE  /\ With(i, "served", served) \in Sent /\ Alike(With(i, "served", served), requests[i])
         /\ Emptied(With(i, "served", served))
         /\ With(i, "served", served).served = served
  <1> DEFINE e == [requests[i] EXCEPT !.served = served]
  <1>1. e \in Sent /\ Alike(e, requests[i]) /\ e.served = served
    BY DEF Sent, Alike
  <1>2. With(i, "served", served) = Settle(e)
    BY DEF With, Settle
  <1> HIDE DEF e
  <1> QED
    BY <1>1, <1>2, SettleKeeps DEF Alike

(* One request changes.                                                      *)
LEMMA RequestChanges ==
  ASSUME ScreenInv, screen' = screen, NEW i \in DOMAIN requests, NEW s, RequestOk(s),
         requests' = [requests EXCEPT ![i] = s]
  PROVE  requests' \in Seq(Sent) /\ \A k \in DOMAIN requests' : RequestOk(requests[k])'
  BY DEF ScreenInv, RequestOk, Emptied, this

(* A screen mounted anew drafts for what it shows.                           *)
LEMMA MountIs ==
  ASSUME ScreenInv, UNCHANGED <<screen, store>>, NEW r \in Resources, Mount(r)
  PROVE  PageOk'
  <1>1. Loaded(r) \in FieldRow
    BY DEF Loaded, ScreenInv, FieldRow, Default
  <1> QED
    BY <1>1 DEF Mount, PageOk, ScreenInv

LEMMA UnmountIs ==
  ASSUME ScreenInv, UNCHANGED <<screen, shown, batch>>, Unmount
  PROVE  PageOk'
  BY DEF Unmount, PageOk, ScreenInv, Blank, FieldRow, Default

(* What is sent is sent for the resource that it was drafted for.            *)
LEMMA SendKeeps ==
  ASSUME ScreenInv, NEW bodies \in Seq(Contents), NEW values \in FieldRow, NEW lock,
         Send(bodies, values, lock)
  PROVE  ScreenInv'
  <1> DEFINE aborted == {i \in DOMAIN requests : Awaited(i)}
             Sending(body) ==
               [body |-> body, to |-> shown, batch |-> Len(requests) + 1,
                from |-> IF this.clicks /\ ~this.rollsBack THEN shown ELSE origin,
                names |-> props["first"], before |-> draft, wanted |-> values,
                proposal |-> this.proposes /\ gated,
                served |-> "no", row |-> Blank, heard |-> "awaited"]
             old == [i \in DOMAIN requests |-> IF i \in aborted
                       THEN With(i, "heard", "failed") ELSE requests[i]]
             new == [k \in DOMAIN bodies |-> Sending(bodies[k])]
  <1>1. requests' = old \o new
    BY DEF Send
  <1>2. UNCHANGED <<screen, isOpen, store, selected, shown, props, origin, baseline, secret>>
    BY DEF Send, server
  <1>3. batch' = Len(requests) + 1
    BY DEF Send
  <1>4. draft' = IF this.rollsBack /\ aborted # {}
                   THEN requests[CHOOSE i \in aborted : TRUE].before ELSE values
    BY DEF Send
  <1>5. \A i \in DOMAIN requests : old[i] \in Sent /\ RequestOk(old[i])
    <2> SUFFICES ASSUME NEW i \in DOMAIN requests PROVE RequestOk(old[i])
      BY DEF RequestOk
    <2>1. RequestOk(requests[i])
      BY DEF ScreenInv
    <2>2. RequestOk(With(i, "heard", "failed"))
      BY <2>1, HeardKeeps DEF RequestOk, Alike
    <2> QED
      BY <2>1, <2>2
  <1>6. \A body \in Contents : RequestOk(Sending(body))
    <2> SUFFICES ASSUME NEW body \in Contents PROVE RequestOk(Sending(body))
      OBVIOUS
    <2>1. Blank \in FieldRow /\ props["first"] \in Int /\ Len(requests) + 1 \in Nat
      BY DEF Blank, FieldRow, Default, ScreenInv, PageOk, Fields
    <2>2. Sending(body) \in Sent
      BY <2>1 DEF Sent, ScreenInv, PageOk
    <2> QED
      BY <2>2 DEF RequestOk, Emptied, ScreenInv, PageOk
  <1>7. \A k \in DOMAIN bodies : new[k] \in Sent /\ RequestOk(new[k])
    BY <1>6 DEF RequestOk
  <1> HIDE DEF Sending
  <1>8. /\ old \in Seq(Sent) /\ Len(old) = Len(requests)
        /\ new \in Seq(Sent) /\ Len(new) = Len(bodies)
    BY <1>5, <1>7 DEF ScreenInv
  <1> HIDE DEF old, new
  <1>9. /\ requests' \in Seq(Sent)
        /\ \A i \in DOMAIN requests' : RequestOk(requests'[i])
    <2>1. old \o new \in Seq(Sent) /\ DOMAIN (old \o new) = 1..(Len(old) + Len(new))
      BY <1>8
    <2>2. \A i \in 1..Len(old) : (old \o new)[i] = old[i] /\ i \in DOMAIN requests
      BY <1>8 DEF ScreenInv
    <2>3. \A i \in (Len(old) + 1)..(Len(old) + Len(new)) :
            (old \o new)[i] = new[i - Len(old)] /\ i - Len(old) \in DOMAIN bodies
      BY <1>8
    <2>4. ASSUME NEW i \in DOMAIN requests'
          PROVE  RequestOk(requests'[i])
      <3>1. i \in 1..(Len(old) + Len(new)) /\ requests'[i] = (old \o new)[i]
        BY <1>1, <2>1
      <3>2. CASE i \in 1..Len(old)
        BY <1>5, <2>2, <3>1, <3>2
      <3>3. CASE i \in (Len(old) + 1)..(Len(old) + Len(new))
        BY <1>7, <2>3, <3>1, <3>3
      <3> QED
        BY <1>8, <3>1, <3>2, <3>3
    <2> QED
      BY <1>1, <2>1, <2>4
  <1>10. draft' \in FieldRow
    <2>1. aborted # {} => (CHOOSE i \in aborted : TRUE) \in DOMAIN requests
      OBVIOUS
    <2> QED
      BY <1>4, <2>1 DEF ScreenInv, RequestOk, Sent
  <1>11. \A i \in DOMAIN requests' : RequestOk(requests[i])'
    BY <1>2, <1>9 DEF RequestOk, Emptied, this
  <1>12. PageOk'
    BY <1>2, <1>3, <1>10 DEF ScreenInv, PageOk, this
  <1> QED
    BY <1>2, <1>9, <1>11, <1>12 DEF ScreenInv, SecretOk, this

(* What is sent, and served, is of fields.                                   *)
LEMMA ContentsAre ==
  /\ \A values \in FieldRow, S \in SUBSET Fields : Body(values, S) \in Contents
  /\ \A a \in Int : [first |-> a] \in Contents
  /\ \A a, b \in Int : /\ [first |-> a, second |-> b] \in Contents
                       /\ [first |-> a, second |-> b] \in FieldRow
  <1>1. ASSUME NEW values \in FieldRow, NEW S \in SUBSET Fields
        PROVE  Body(values, S) \in Contents
    <2>1. Body(values, S) \in [S -> Int]
      BY DEF Body, FieldRow
    <2> QED
      BY <2>1 DEF Contents
  <1>2. ASSUME NEW a \in Int
        PROVE  [first |-> a] \in Contents
    <2>1. [first |-> a] = [f \in {"first"} |-> a]
      OBVIOUS
    <2>2. [f \in {"first"} |-> a] \in [{"first"} -> Int]
      OBVIOUS
    <2> QED
      BY <2>1, <2>2 DEF Contents, Fields
  <1>3. ASSUME NEW a \in Int, NEW b \in Int
        PROVE  [first |-> a, second |-> b] \in FieldRow
    <2>1. [first |-> a, second |-> b] = [f \in Fields |-> IF f = "first" THEN a ELSE b]
      BY DEF Fields
    <2>2. [f \in Fields |-> IF f = "first" THEN a ELSE b] \in [Fields -> Int]
      OBVIOUS
    <2> QED
      BY <2>1, <2>2 DEF FieldRow
  <1>4. FieldRow \subseteq Contents
    BY DEF FieldRow, Contents
  <1> QED
    BY <1>1, <1>2, <1>3, <1>4

Merge(change, row) == [f \in Fields |-> IF f \in DOMAIN change THEN change[f] ELSE row[f]]

LEMMA MergeIs ==
  ASSUME NEW change \in Contents, NEW row \in FieldRow
  PROVE  Merge(change, row) \in FieldRow
  <1>1. \A f \in DOMAIN change : change[f] \in Int
    BY DEF Contents
  <1> QED
    BY <1>1 DEF FieldRow, Merge

(* A submission, or a click, sends what the fields hold.                      *)
LEMMA UserSends ==
  ASSUME Catalogue = AllScreens, ScreenInv, Submit \/ Click
  PROVE  \E bodies \in Seq(Contents), values \in FieldRow, lock \in SUBSET Fields :
           Send(bodies, values, lock)
  <1>1. this.fields \subseteq Fields
    BY ScreensAre DEF ScreenInv, ScreenFacts, this
  <1>2. draft \in FieldRow /\ baseline \in FieldRow /\ props \in FieldRow
    BY DEF ScreenInv, PageOk
  <1>3. CASE Submit
    <2> DEFINE whole == Body(draft, this.fields)
               front == Body(draft, {"first"})
               rest == Body(draft, {"second"})
               edited == Body(draft, {f \in this.fields : draft[f] # baseline[f]})
    <2>1. whole \in Contents /\ front \in Contents /\ rest \in Contents /\ edited \in Contents
      BY <1>1, <1>2, ContentsAre DEF Fields
    <2> HIDE DEF whole, front, rest, edited
    <2>2. /\ <<whole>> \in Seq(Contents) /\ <<edited>> \in Seq(Contents)
          /\ <<front>> \o <<rest>> \in Seq(Contents) /\ <<front>> \o <<>> \in Seq(Contents)
      BY <2>1
    <2>3. Bodies \in {<<whole>>, <<edited>>, <<front>> \o <<rest>>, <<front>> \o <<>>}
      BY DEF Bodies, whole, front, rest, edited
    <2> QED
      BY <1>1, <1>2, <1>3, <2>2, <2>3 DEF Submit
  <1>4. CASE Click
    <2>1. PICK f \in this.fields :
            LET values == [draft EXCEPT ![f] = 1 - @]
            IN  CASE this.rollsBack -> Send(<<Body(values, this.fields)>>, values, {})
                  [] this.locks = "field" -> Send(<<Body(values, {f})>>, values, {f})
                  [] OTHER -> Send(<<[first |-> 1 - props["first"]]>>, draft, {f})
      BY <1>4 DEF Click
    <2> DEFINE values == [draft EXCEPT ![f] = 1 - @]
    <2>2. values \in FieldRow /\ 1 - props["first"] \in Int
      BY <1>1, <1>2 DEF FieldRow, Fields
    <2> HIDE DEF values
    <2>3. /\ <<Body(values, this.fields)>> \in Seq(Contents)
          /\ <<Body(values, {f})>> \in Seq(Contents)
          /\ <<[first |-> 1 - props["first"]]>> \in Seq(Contents)
      BY <1>1, <2>2, ContentsAre
    <2>4. \/ Send(<<Body(values, this.fields)>>, values, {})
          \/ Send(<<Body(values, {f})>>, values, {f})
          \/ Send(<<[first |-> 1 - props["first"]]>>, draft, {f})
      BY <2>1 DEF values
    <2> QED
      BY <1>1, <1>2, <2>2, <2>3, <2>4
  <1> QED
    BY <1>3, <1>4

(* The user edits, submits or clicks.                                        *)
LEMMA UserStep ==
  ASSUME Catalogue = AllScreens, ScreenInv, Edit \/ Submit \/ Click
  PROVE  ScreenInv'
  <1>1. CASE Edit
    <2>1. PICK f \in Fields : draft' = [draft EXCEPT ![f] = 1 - @]
      BY <1>1, ScreensAre DEF Edit, ScreenInv, ScreenFacts, this
    <2>2. draft' \in FieldRow
      BY <2>1 DEF FieldRow, ScreenInv, PageOk
    <2>3. UNCHANGED <<screen, isOpen, store, selected, shown, props, origin, baseline, secret,
                      batch, requests>>
      BY <1>1 DEF Edit, server
    <2> QED
      BY <2>2, <2>3 DEF ScreenInv, PageOk, SecretOk, RequestOk, Emptied, this
  <1> QED
    BY <1>1, UserSends, SendKeeps

(* What an opener has taken it shows if it is open, and else as it is opened.   *)
LEMMA SecretKept ==
  ASSUME ScreenInv, Open \/ Close \/ Leave \/ LeavePage \/ Refreshed, screen' = screen
  PROVE  SecretOk'
  <1>1. SecretOk /\ this' = this
    BY DEF ScreenInv, this
  <1>2. CASE Open
    BY <1>1, <1>2 DEF Open, SecretOk
  <1>3. CASE Close \/ Leave
    BY <1>1, <1>3 DEF Close, Leave, Unmount, Forgetting, SecretOk
  <1>4. CASE LeavePage
    <2>1. Len(requests) + 1 \in Nat
      BY DEF ScreenInv
    <2>2. secret' = [last |-> 0, held |-> 0, seen |-> TRUE, since |-> Len(requests) + 1]
      BY <1>4 DEF LeavePage, Unrevealed
    <2> QED
      BY <1>1, <2>1, <2>2 DEF SecretOk
  <1>5. CASE Refreshed
    <2>1. isOpen /\ UNCHANGED isOpen /\ (secret' = Forgetting \/ UNCHANGED secret)
      BY <1>5 DEF Refreshed
    <2> QED
      BY <1>1, <2>1 DEF Forgetting, SecretOk
  <1> QED
    BY <1>2, <1>3, <1>4, <1>5

(* A page is opened, closed, left or refreshed.                              *)
LEMMA PageStep ==
  ASSUME ScreenInv, Open \/ Close \/ Leave \/ LeavePage \/ Refreshed
  PROVE  ScreenInv'
  <1>1. UNCHANGED <<screen, store, selected, requests>>
    BY DEF Open, Close, Leave, LeavePage, Refreshed, server
  <1>2. PageOk'
    <2> DEFINE r == IF this.inPath THEN shown ELSE selected
    <2>1. r \in Resources
      BY DEF ScreenInv, PageOk
    <2>2. CASE Open
      BY <1>1, <2>1, <2>2, MountIs DEF Open
    <2>3. CASE Close \/ Leave \/ LeavePage
      BY <2>3, UnmountIs DEF Close, Leave, LeavePage
    <2>4. CASE Refreshed /\ (this.resyncs \/ (this.keyed /\ r # shown))
      BY <1>1, <2>1, <2>4, MountIs DEF Refreshed
    <2>5. CASE Refreshed /\ ~(this.resyncs \/ (this.keyed /\ r # shown))
      <3>1. /\ shown' = r /\ props' = store[r]
            /\ UNCHANGED <<origin, draft, baseline, batch>>
        BY <2>5 DEF Refreshed
      <3>2. this.keyed => r = shown
        BY <2>5
      <3>3. this' = this
        BY <1>1 DEF this
      <3> HIDE DEF r
      <3> QED
        BY <2>1, <3>1, <3>2, <3>3 DEF ScreenInv, PageOk
    <2> QED
      BY <2>2, <2>3, <2>4, <2>5
  <1>3. SecretOk'
    BY <1>1, SecretKept
  <1> QED
    BY <1>1, <1>2, <1>3 DEF ScreenInv, RequestOk, Emptied, this

(* The API serves or refuses a request.                                      *)
LEMMA ServeStep ==
  ASSUME ScreenInv, NEW i \in DOMAIN requests, Apply(i) \/ Refuse(i)
  PROVE  ScreenInv'
  <1> DEFINE r == requests[i]
  <1>1. r \in Sent /\ RequestOk(r)
    BY DEF ScreenInv
  <1>2. UNCHANGED <<screen, isOpen, selected, shown, props, origin, draft, baseline, batch,
                    secret>>
    BY DEF Apply, Refuse, local, server
  <1>3. store' \in [Resources -> FieldRow]
    <2>1. CASE Refuse(i)
      BY <2>1 DEF Refuse, server, ScreenInv
    <2>2. CASE Apply(i)
      <3> DEFINE change == CASE r.proposal -> <<>>
                             [] this.decides -> [first |-> Decided, second |-> r.names]
                             [] OTHER -> r.body
      <3>2. change \in Contents
        <4>1. <<>> \in Contents /\ r.body \in Contents /\ Decided \in Int /\ r.names \in Int
          BY <1>1 DEF Contents, Sent, Decided
        <4>2. [first |-> Decided, second |-> r.names] \in Contents
          BY <4>1, ContentsAre
        <4> QED
          BY <4>1, <4>2
      <3>3. store[r.to] \in FieldRow
        BY <1>1 DEF Sent, ScreenInv
      <3>4. store' = [store EXCEPT ![r.to] = Merge(change, store[r.to])]
        BY <2>2 DEF Apply, Merge
      <3> HIDE DEF change
      <3>5. Merge(change, store[r.to]) \in FieldRow
        BY <3>2, <3>3, MergeIs
      <3> QED
        BY <3>4, <3>5 DEF ScreenInv
    <2> QED
      BY <2>1, <2>2
  <1>4. PICK s : requests' = [requests EXCEPT ![i] = s] /\ RequestOk(s)
    <2>1. ASSUME NEW served \in {"done", "refused"}
          PROVE  RequestOk(With(i, "served", served))
      BY <1>1, ServedKeeps DEF RequestOk, Alike
    <2>2. CASE Apply(i) /\ r.heard = "awaited"
      <3>1. PICK row \in FieldRow :
              requests' = [requests EXCEPT ![i] = [r EXCEPT !.served = "done", !.row = row]]
        <4>1. PICK row : /\ store' = [store EXCEPT ![r.to] = row]
                         /\ requests' = [requests EXCEPT ![i] =
                                           [r EXCEPT !.served = "done", !.row = row]]
          BY <2>2 DEF Apply
        <4>2. row = store'[r.to] /\ r.to \in Resources
          BY <1>1, <4>1 DEF ScreenInv, Sent
        <4> QED
          BY <1>3, <4>1, <4>2
      <3> DEFINE s == [r EXCEPT !.served = "done", !.row = row]
      <3>2. s \in Sent /\ s.heard = "awaited" /\ Alike(s, r)
        BY <1>1, <2>2 DEF Sent, Alike
      <3> HIDE DEF s
      <3>3. RequestOk(s)
        BY <1>1, <3>2 DEF RequestOk, Emptied, Alike
      <3> QED
        BY <3>1, <3>3 DEF s
    <2>3. CASE Apply(i) /\ r.heard # "awaited"
      BY <2>1, <2>3 DEF Apply
    <2>4. CASE Refuse(i)
      BY <2>1, <2>4 DEF Refuse
    <2> QED
      BY <2>2, <2>3, <2>4
  <1>5. requests' \in Seq(Sent) /\ \A k \in DOMAIN requests' : RequestOk(requests[k])'
    BY <1>2, <1>4, RequestChanges
  <1>6. this' = this
    BY <1>2 DEF this
  <1> QED
    BY <1>2, <1>3, <1>5, <1>6 DEF ScreenInv, PageOk, SecretOk

(* An answer arrives, or is lost.                                            *)
LEMMA HearStep ==
  ASSUME ScreenInv, NEW i \in DOMAIN requests, Answer(i) \/ Lose(i)
  PROVE  ScreenInv'
  <1> DEFINE r == requests[i]
  <1>1. r \in Sent /\ RequestOk(r)
    BY DEF ScreenInv
  <1>2. UNCHANGED <<screen, store, selected, shown, batch>>
    BY DEF Answer, Lose, server
  <1>3. PICK s : requests' = [requests EXCEPT ![i] = s] /\ RequestOk(s)
    <2>1. ASSUME NEW heard \in {"awaited", "answered", "failed"}
          PROVE  RequestOk(With(i, "heard", heard))
      BY <1>1, HeardKeeps DEF RequestOk, Alike
    <2> QED
      BY <2>1 DEF Answer, Lose, Hear
  <1>4. requests' \in Seq(Sent) /\ \A k \in DOMAIN requests' : RequestOk(requests[k])'
    BY <1>2, <1>3, RequestChanges
  <1>5. UNCHANGED local \/ Succeed(i) \/ Fail(i)
    BY DEF Answer, Lose
  <1>6. r.row \in FieldRow /\ r.before \in FieldRow
    BY <1>1 DEF Sent
  <1>7. PageOk'
    <2>1. this' = this
      BY <1>2 DEF this
    <2>2. CASE UNCHANGED local
      BY <1>2, <2>1, <2>2 DEF local, ScreenInv, PageOk
    <2>3. CASE Fail(i)
      BY <1>2, <1>6, <2>1, <2>3 DEF Fail, ScreenInv, PageOk
    <2>4. CASE Succeed(i) /\ this.after = "close"
      BY <1>2, <2>4, UnmountIs DEF Succeed
    <2>5. CASE Succeed(i) /\ this.after # "close"
      <3>1. PICK adopted : /\ draft' = [f \in Fields |-> IF f \in adopted THEN r.row[f]
                                                         ELSE draft[f]]
                           /\ baseline' = [f \in Fields |-> IF f \in adopted THEN r.row[f]
                                                            ELSE baseline[f]]
        BY <2>5 DEF Succeed
      <3>2. draft' \in FieldRow /\ baseline' \in FieldRow
        BY <1>6, <3>1 DEF FieldRow, ScreenInv, PageOk
      <3>3. UNCHANGED <<props, origin>>
        BY <2>5 DEF Succeed
      <3> QED
        BY <1>2, <2>1, <3>2, <3>3 DEF ScreenInv, PageOk
    <2> QED
      BY <1>5, <2>2, <2>3, <2>4, <2>5
  <1>8. SecretOk'
    <2>1. SecretOk /\ this' = this /\ i \in Nat \ {0}
      BY <1>2 DEF ScreenInv, this
    <2>2. isOpen' => isOpen
      BY <1>5 DEF local, Succeed, Fail, Unmount
    <2>3. CASE Reveal(i)
      <3>1. CASE this.secret = "opener" /\ i >= secret.since
        <4>1. secret' = [secret EXCEPT !.last = i, !.held = i, !.seen = (TRUE /\ isOpen)]
          BY <2>1, <2>3, <3>1 DEF Reveal, SecretOk
        <4> QED
          BY <2>1, <2>2, <4>1 DEF SecretOk
      <3>2. CASE i < secret.since
        BY <2>1, <2>2, <2>3, <3>2 DEF Reveal, SecretOk
      <3>3. CASE this.secret # "opener" /\ i >= secret.since
        BY <2>1, <2>3, <3>3 DEF Reveal, SecretOk
      <3> QED
        BY <2>1, <3>1, <3>2, <3>3 DEF SecretOk
    <2>4. CASE UNCHANGED secret
      BY <2>1, <2>2, <2>4 DEF SecretOk
    <2> QED
      BY <2>3, <2>4 DEF Answer, Lose
  <1> QED
    BY <1>2, <1>4, <1>7, <1>8 DEF ScreenInv, this

(* Others write, or select elsewhere.                                        *)
LEMMA ElsewhereStep ==
  ASSUME ScreenInv, Elsewhere
  PROVE  ScreenInv'
  <1>1. UNCHANGED <<screen, isOpen, requests, shown, props, origin, draft, baseline, secret,
                    batch>>
    BY DEF Elsewhere
  <1>2. store' \in [Resources -> FieldRow]
    <2>1. CASE OthersWrite
      <3>1. PICK f \in Fields, v \in Values : store' = [store EXCEPT !["a"][f] = v]
        BY <2>1 DEF OthersWrite
      <3> QED
        BY <3>1 DEF ScreenInv, FieldRow, Values, Default, Resources
    <2> QED
      BY <2>1 DEF Elsewhere, SelectElsewhere, SelectProject, RefreshHere, ScreenInv
  <1>3. selected' \in Resources
    BY DEF Elsewhere, OthersWrite, SelectElsewhere, SelectProject, RefreshHere, Switched,
       ScreenInv, Resources
  <1> QED
    BY <1>1, <1>2, <1>3 DEF ScreenInv, PageOk, SecretOk, RequestOk, Emptied, this

LEMMA ScreenStart == Init => ScreenInv
  <1> SUFFICES ASSUME Init PROVE ScreenInv
    OBVIOUS
  <1>1. PICK v \in Values : store = [r \in Resources |->
          [first |-> Default, second |-> IF r = "a" THEN v ELSE Default]]
    BY DEF Init, Values
  <1>2. \A r \in Resources :
          [first |-> Default, second |-> IF r = "a" THEN v ELSE Default] \in FieldRow
    BY ContentsAre DEF Values, Default
  <1>3. store \in [Resources -> FieldRow]
    BY <1>1, <1>2
  <1>4. Loaded("a") \in FieldRow /\ store["a"] \in FieldRow
    BY <1>3 DEF Loaded, FieldRow, Default, Resources
  <1> QED
    BY <1>3, <1>4 DEF Init, ScreenInv, PageOk, SecretOk, Unrevealed, Resources

LEMMA ScreenStep ==
  ASSUME Catalogue = AllScreens, ScreenInv, [Next]_vars
  PROVE  ScreenInv'
  <1>1. CASE UNCHANGED vars
    BY <1>1 DEF vars, server, local, ScreenInv, PageOk, SecretOk, RequestOk, Emptied, this
  <1> QED
    BY <1>1, PageStep, UserStep, ServeStep, HearStep, ElsewhereStep DEF Next
LEMMA ScreenSafe == ASSUME Catalogue = AllScreens PROVE Spec => []ScreenInv
  BY ScreenStart, ScreenStep, PTL DEF Spec

(* What is drafted for one environment is never sent to another: a flag's       *)
(* tabs are keyed by flag and environment, and nothing that changes what they  *)
(* show, an unmounted page, a refresh or a switch in another tab, leaves a     *)
(* draft of the environment before.                                          *)
THEOREM DraftsStay == ASSUME Catalogue = AllScreens PROVE Spec => []DraftStaysInScope
  <1>1. ScreenInv => DraftStaysInScope
    BY ScreensAre DEF ScreenInv, RequestOk, DraftStaysInScope, ScreenFacts, FlagScreens, this
  <1> QED
    BY <1>1, ScreenSafe, PTL

(* The secret of a new key is shown, whenever its dialog was closed while the   *)
(* key was being created: the opener takes it and holds it, and closing the    *)
(* dialog forgets only what has been shown. The page that is left, and a later *)
(* creation's answer, are the property's exceptions.                         *)
THEOREM SecretsAreShown == ASSUME Catalogue = AllScreens PROVE Spec => []NewSecretIsShown
  <1>1. ScreenInv => NewSecretIsShown
    BY ScreensAre DEF ScreenInv, SecretOk, NewSecretIsShown, ScreenFacts, this
  <1> QED
    BY <1>1, ScreenSafe, PTL

(* A screen says that it has saved only when all it sent has been committed:   *)
(* only an answer makes it say so, the last of its submission, and what was    *)
(* answered before is settled. It then shows what was committed.             *)
THEOREM SavedIsStored == ASSUME Catalogue = AllScreens PROVE Spec => ConfirmedIsStored
  <1>1. ASSUME ScreenInv, [Next]_vars
        PROVE  [confirmed' /\ ~confirmed =>
                  \A i \in DOMAIN requests : requests[i].batch = batch =>
                    /\ requests[i].served = "done"
                    /\ screen \notin {"FlagTargeting", "Password"} =>
                         \A f \in DOMAIN requests[i].body : draft'[f] = requests[i].row[f]]_vars
    <2> SUFFICES ASSUME Next, confirmed', ~confirmed
                 PROVE  \A i \in DOMAIN requests : requests[i].batch = batch =>
                    /\ requests[i].served = "done"
                    /\ screen \notin {"FlagTargeting", "Password"} =>
                         \A f \in DOMAIN requests[i].body : draft'[f] = requests[i].row[f]
      BY <1>1
    <2>1. PICK k \in DOMAIN requests : Answer(k)
      BY UserSends DEF Next, Open, Mount, Close, Unmount, Leave, LeavePage, Refreshed, Edit, Send,
         Submit, Click, Elsewhere, Apply, Refuse, Lose, Fail, local
    <2> DEFINE adopted == {f \in Fields : /\ this.keeps /\ ~requests[k].proposal
                                          /\ this.locks = "field" => f \in DOMAIN requests[k].body}
    <2>2. /\ requests[k].served = "done" /\ Listening(k) /\ Complete(k)
          /\ this.confirms /\ ~requests[k].proposal
          /\ draft' = [f \in Fields |-> IF f \in adopted THEN requests[k].row[f] ELSE draft[f]]
      BY <2>1 DEF Answer, Succeed, Fail, Unmount, local
    <2>3. \A i \in DOMAIN requests : requests[i] \in Sent /\ Emptied(requests[i])
      BY <1>1 DEF ScreenInv, RequestOk
    <2>4. ASSUME NEW i \in DOMAIN requests, requests[i].batch = batch, i # k
          PROVE  requests[i].served = "done" /\ DOMAIN requests[i].body = {}
      <3>1. i \in Others(k)
        BY <2>2, <2>4 DEF Others, Listening
      <3>2. requests[i].heard = "answered" /\ requests[i].served = "done"
        BY <2>2, <3>1 DEF Complete
      <3>3. requests[i].body = <<>>
        BY <2>3, <3>2 DEF Emptied
      <3> QED
        BY <3>2, <3>3
    <2>5. ASSUME screen \notin {"FlagTargeting", "Password"}, NEW f \in DOMAIN requests[k].body
          PROVE  draft'[f] = requests[k].row[f]
      <3>1. this.keeps
        BY <1>1, <2>2, <2>5, ScreensAre DEF ScreenInv, ScreenFacts, this
      <3>2. f \in Fields
        BY <2>3, <2>5 DEF Sent, Contents
      <3>3. f \in adopted
        BY <2>2, <3>1, <3>2
      <3> QED
        BY <2>2, <3>2, <3>3
    <2> QED
      BY <2>2, <2>4, <2>5
  <1> QED
    BY <1>1, ScreenSafe, PTL DEF Spec, ConfirmedIsStored

--------------------------------------------------------------------------------
(* The tabs of a flag *)

SettingParts == {"config", "rules", "target"}
RequestParts == {"body", "kind", "key", "number", "changed", "served", "heard", "answer"}

(* A request in flight is unserved or awaited; what is published with a         *)
(* configuration was to change it.                                           *)
InFlightOk(r) ==
  /\ DOMAIN r = RequestParts
  /\ r.kind \in {"publish", "propose", "add", "save", "remove"}
  /\ r.heard \in {"awaited", "failed"}
  /\ r.served \in {"no", "done", "refused"} /\ (r.served = "no" \/ r.heard = "awaited")
  /\ ~OnVariations(r) => DOMAIN r.body \subseteq SettingParts
  /\ r.kind = "publish" /\ "config" \in DOMAIN r.body => r.changed = TRUE

LinesAgree ==
  /\ DOMAIN lines = DOMAIN stored.flag
  /\ \A k \in DOMAIN lines : lines[k].saved = stored.flag[k]

(* With its answer, the lines will agree with what r has written.              *)
Expected(r) ==
  /\ DOMAIN lines \ {r.key} = DOMAIN stored.flag \ {r.key}
  /\ \A k \in DOMAIN lines \ {r.key} : lines[k].saved = stored.flag[k]
  /\ r.kind \in {"add", "save"} =>
       r.key \in DOMAIN stored.flag /\ r.answer[r.key] = stored.flag[r.key]
  /\ r.kind = "save" => r.key \in DOMAIN lines
  /\ r.kind = "remove" => r.key \notin DOMAIN stored.flag

(* Of the variations tab, while nothing was written behind its back: it awaits *)
(* one answer at most, and its lines agree with what is stored but for that.   *)
LinesInv ==
  /\ \A r, q \in inFlight : r.heard = "awaited" /\ q.heard = "awaited" => r = q
  /\ \A r \in inFlight : r.heard = "awaited" =>
       OnVariations(r) /\ (r.served = "done" => Expected(r))
  /\ (\A r \in inFlight : r.heard = "awaited" => r.served # "done") => LinesAgree

TabsInv ==
  /\ DOMAIN stored = SettingParts \cup {"flag"}
  /\ proposal # Nothing => DOMAIN proposal \subseteq SettingParts
  /\ count \in [edits : Nat, sends : Nat, others : Nat] /\ unheard \in BOOLEAN
  /\ \A k \in DOMAIN lines : DOMAIN lines[k] = {"value", "saved"}
  /\ \A r \in inFlight : InFlightOk(r)
  /\ tab = "variations" /\ ~unheard => LinesInv

LEMMA PayloadIs ==
  /\ DOMAIN Payload \subseteq SettingParts
  /\ tab = "configuration" \/ ("config" \in DOMAIN Payload => changesServing)
  BY DEF Payload, Over, SettingParts

(* A publish, or an approval, leaves the variations alone.                     *)
LEMMA PartsKeepFlag ==
  ASSUME TabsInv, NEW body, DOMAIN body \subseteq SettingParts
  PROVE  /\ DOMAIN WithPart(body) = SettingParts \cup {"flag"}
         /\ WithPart(body).flag = stored.flag
         /\ WithPart(body).config = IF "config" \in DOMAIN body THEN body.config
                                    ELSE stored.config
  BY DEF TabsInv, WithPart, Over, SettingParts

(* What nobody listens to any more.                                          *)
LEMMA UnheardIs ==
  ASSUME TabsInv
  PROVE  \A r \in Unheard(inFlight) : InFlightOk(r) /\ r.heard = "failed"
  <1> SUFFICES ASSUME NEW q \in inFlight, NEW r, r = [q EXCEPT !.heard = "failed"],
                      r.served = "no" \/ r.heard = "awaited"
               PROVE  InFlightOk(r) /\ r.heard = "failed"
    BY DEF Unheard, StillOpen
  <1>1. InFlightOk(q)
    BY DEF TabsInv
  <1> QED
    BY <1>1 DEF InFlightOk, RequestParts, OnVariations

LEMMA TabsStart == TabsInit => TabsInv
  <1> SUFFICES ASSUME TabsInit PROVE TabsInv
    OBVIOUS
  <1>1. LinesAgree /\ \A k \in DOMAIN lines : DOMAIN lines[k] = {"value", "saved"}
    BY DEF TabsInit, LinesAgree, toRows
  <1> QED
    BY <1>1 DEF TabsInit, TabsInv, LinesInv, SettingParts

(* A tab is opened, refreshed or edited.                                     *)
LEMMA TabStep ==
  ASSUME TabsInv, OpenTab \/ RefreshTab \/ EditTab
  PROVE  TabsInv'
  <1>1. CASE OpenTab
    <2>1. UNCHANGED <<stored, proposal>> /\ unheard' = FALSE /\ inFlight' = Unheard(inFlight)
          /\ lines' = toRows(stored.flag)
      BY <1>1 DEF OpenTab
    <2>2. count' \in [edits : Nat, sends : Nat, others : Nat]
      BY <1>1 DEF OpenTab, Counted, TabsInv
    <2>3. LinesAgree' /\ \A k \in DOMAIN lines' : DOMAIN lines'[k] = {"value", "saved"}
      BY <2>1 DEF LinesAgree, toRows
    <2>4. \A r \in inFlight' : InFlightOk(r) /\ r.heard = "failed"
      BY <2>1, UnheardIs
    <2> QED
      BY <2>1, <2>2, <2>3, <2>4 DEF TabsInv, LinesInv, InFlightOk, OnVariations
  <1>2. CASE RefreshTab
    BY <1>2 DEF RefreshTab, TabsInv
  <1>3. CASE EditTab
    <2>1. UNCHANGED <<stored, proposal, unheard, inFlight, tab>>
      BY <1>3 DEF EditTab
    <2>2. count' \in [edits : Nat, sends : Nat, others : Nat]
      BY <1>3 DEF EditTab, Counted, TabsInv
    <2>3. /\ DOMAIN lines' = DOMAIN lines
          /\ \A k \in DOMAIN lines' : /\ lines'[k].saved = lines[k].saved
                                      /\ DOMAIN lines'[k] = {"value", "saved"}
      <3>1. CASE UNCHANGED lines
        BY <3>1 DEF TabsInv
      <3>2. CASE patchRow
        BY <3>2 DEF patchRow, TabsInv
      <3> QED
        BY <1>3, <3>1, <3>2 DEF EditTab
    <2>4. LinesInv => LinesInv'
      BY <2>1, <2>3 DEF LinesInv, LinesAgree, Expected, OnVariations
    <2> QED
      BY <2>1, <2>2, <2>3, <2>4 DEF TabsInv, InFlightOk, OnVariations
  <1> QED
    BY <1>1, <1>2, <1>3
(* A tab publishes, or a button of the variations tab sends.                   *)
LEMMA PublishStep ==
  ASSUME TabsInv, Publish
  PROVE  TabsInv'
  <1>1. /\ UNCHANGED <<stored, proposal, tab, lines, unheard>> /\ tab # "variations"
        /\ count' \in [edits : Nat, sends : Nat, others : Nat]
    BY DEF Publish, Counted, TabsInv
  <1>2. ASSUME NEW r \in inFlight'
        PROVE  InFlightOk(r)
    <2>1. CASE r \in Unheard(inFlight)
      BY <2>1, UnheardIs
    <2>2. CASE r = Request(Payload, "propose", Nothing)
      <3>1. DOMAIN r = RequestParts /\ r.body = Payload /\ r.kind = "propose"
            /\ r.served = "no" /\ r.heard = "awaited"
        BY <2>2 DEF Request, RequestParts
      <3> QED
        BY <3>1, PayloadIs DEF InFlightOk
    <2>3. ASSUME NEW part \in DOMAIN Payload,
                 r = Request([p \in {part} |-> Payload[part]], "publish", Nothing)
          PROVE  InFlightOk(r)
      <3>1. /\ DOMAIN r = RequestParts /\ r.body = [p \in {part} |-> Payload[part]]
            /\ r.kind = "publish" /\ r.served = "no" /\ r.heard = "awaited"
            /\ tab = "configuration" \/ changesServing => r.changed = TRUE
        BY <2>3 DEF Request, RequestParts, changesServing
      <3> QED
        BY <3>1, PayloadIs DEF InFlightOk
    <2> QED
      BY <2>1, <2>2, <2>3 DEF Publish
  <1> QED
    BY <1>1, <1>2 DEF TabsInv, InFlightOk, OnVariations

LEMMA VariationStep ==
  ASSUME TabsInv, tab = "variations", addVariation \/ saveVariation \/ removeVariation
  PROVE  TabsInv'
  <1>1. PICK body, kind, key, button :
          kind \in {"add", "save", "remove"} /\ SendVariation(body, kind, key, button)
    <2>1. CASE addVariation
      BY <2>1 DEF addVariation
    <2>2. CASE saveVariation
      <3>1. PICK k : SendVariation([value |-> lines[k].value], "save", k, "line")
        BY <2>2 DEF saveVariation
      <3> QED
        BY <3>1
    <2>3. CASE removeVariation
      <3>1. PICK k : SendVariation([value |-> 0], "remove", k, "line")
        BY <2>3 DEF removeVariation
      <3> QED
        BY <3>1
    <2> QED
      BY <2>1, <2>2, <2>3
  <1> DEFINE new == Request(body, kind, key)
  <1>2. /\ UNCHANGED <<stored, proposal, tab, lines>>
        /\ inFlight' = Unheard(inFlight) \cup {new}
        /\ unheard' = (unheard \/ \E r \in inFlight : Unnoticed(r))
        /\ count' \in [edits : Nat, sends : Nat, others : Nat]
    BY <1>1 DEF SendVariation, Counted, TabsInv
  <1>3. DOMAIN new = RequestParts /\ new.kind = kind /\ new.served = "no" /\ new.heard = "awaited"
    BY DEF Request, RequestParts
  <1> HIDE DEF new
  <1>4. InFlightOk(new) /\ OnVariations(new)
    BY <1>1, <1>3 DEF InFlightOk, OnVariations
  <1>5. \A r \in inFlight' : InFlightOk(r) /\ (r.heard = "awaited" => r = new)
    BY <1>2, <1>4, UnheardIs
  <1>6. unheard' \in BOOLEAN /\ (~unheard' => LinesAgree)
    BY <1>2 DEF TabsInv, LinesInv, Unnoticed
  <1>7. ~unheard' => LinesInv'
    BY <1>2, <1>3, <1>4, <1>5, <1>6 DEF LinesInv, LinesAgree, OnVariations
  <1> QED
    BY <1>2, <1>5, <1>6, <1>7 DEF TabsInv, InFlightOk, OnVariations

(* A proposal is approved, or another user writes.                           *)
LEMMA OthersStep ==
  ASSUME TabsInv, Approve \/ OtherWrites
  PROVE  TabsInv'
  <1>1. UNCHANGED <<tab, lines, inFlight>> /\ count' \in [edits : Nat, sends : Nat, others : Nat]
    BY DEF Approve, OtherWrites, Counted, TabsInv, tabPage
  <1>2. /\ DOMAIN stored' = SettingParts \cup {"flag"} /\ unheard' \in BOOLEAN
        /\ proposal' # Nothing => DOMAIN proposal' \subseteq SettingParts
        /\ ~unheard' => ~unheard /\ stored'.flag = stored.flag
    <2>1. CASE Approve
      <3>1. /\ DOMAIN proposal \subseteq SettingParts /\ stored' = WithPart(proposal)
            /\ proposal' = Nothing /\ unheard' = unheard
        BY <2>1 DEF Approve, TabsInv
      <3> QED
        BY <3>1, PartsKeepFlag DEF TabsInv
    <2>2. CASE OtherWrites
      <3>1. proposal' = proposal /\ DOMAIN stored = SettingParts \cup {"flag"}
            /\ unheard \in BOOLEAN /\ (proposal # Nothing => DOMAIN proposal \subseteq SettingParts)
        BY <2>2 DEF OtherWrites, TabsInv
      <3>2. CASE stored' = [stored EXCEPT !.config.enabled = ~@] /\ UNCHANGED unheard
        BY <3>1, <3>2 DEF SettingParts
      <3>3. CASE stored' = [stored EXCEPT !.rules = <<>>] /\ UNCHANGED unheard
        BY <3>1, <3>3 DEF SettingParts
      <3>4. CASE /\ \E k \in DOMAIN stored.flag : stored' = [stored EXCEPT !.flag[k] = 1 - @]
                 /\ unheard' = TRUE
        BY <3>1, <3>4 DEF SettingParts
      <3> QED
        BY <2>2, <3>2, <3>3, <3>4 DEF OtherWrites
    <2> QED
      BY <2>1, <2>2
  <1>3. ~unheard' => (LinesInv => LinesInv')
    BY <1>1, <1>2 DEF LinesInv, LinesAgree, Expected, OnVariations
  <1> QED
    BY <1>1, <1>2, <1>3 DEF TabsInv, InFlightOk, OnVariations

(* The API serves a request.                                                 *)
LEMMA ServedIs ==
  ASSUME TabsInv, NEW r \in inFlight, Accepted(r)
  PROVE  /\ DOMAIN Written(r) = SettingParts \cup {"flag"}
         /\ ~OnVariations(r) => Written(r).flag = stored.flag
         /\ Written(r).config = IF r.kind = "publish" /\ "config" \in DOMAIN r.body
                                  THEN r.body.config ELSE stored.config
  <1>1. InFlightOk(r)
    BY DEF TabsInv
  <1>2. CASE r.kind = "publish"
    BY <1>1, <1>2, PartsKeepFlag DEF Written, InFlightOk, OnVariations
  <1>3. CASE r.kind # "publish"
    BY <1>1, <1>3 DEF Written, InFlightOk, OnVariations, TabsInv, SettingParts
  <1> QED
    BY <1>2, <1>3

(* What a button was to write is what its answer will make of the lines.       *)
LEMMA ExpectedIs ==
  ASSUME TabsInv, LinesAgree, NEW r \in inFlight, OnVariations(r), Accepted(r),
         stored' = Written(r), lines' = lines,
         NEW s, s.kind = r.kind, s.key = r.key, s.answer = stored'.flag
  PROVE  Expected(s)'
  <1>1. DOMAIN stored = SettingParts \cup {"flag"}
    BY DEF TabsInv
  <1>2. CASE r.kind \in {"add", "save"}
    <2>1. stored'.flag = Over([k \in {r.key} |-> r.body.value], stored.flag)
      BY <1>1, <1>2 DEF Written
    <2>2. /\ DOMAIN stored'.flag = DOMAIN stored.flag \cup {r.key}
          /\ \A k \in DOMAIN stored.flag \ {r.key} : stored'.flag[k] = stored.flag[k]
      BY <2>1 DEF Over
    <2> QED
      BY <1>2, <2>2 DEF Expected, LinesAgree, Accepted
  <1>3. CASE r.kind = "remove"
    <2>1. stored'.flag = Without(stored.flag, r.key)
      BY <1>1, <1>3 DEF Written
    <2>2. /\ DOMAIN stored'.flag = DOMAIN stored.flag \ {r.key}
          /\ \A k \in DOMAIN stored.flag \ {r.key} : stored'.flag[k] = stored.flag[k]
      BY <2>1 DEF Without
    <2> QED
      BY <1>3, <2>2 DEF Expected, LinesAgree
  <1> QED
    BY <1>2, <1>3 DEF OnVariations

LEMMA ServeTabStep ==
  ASSUME TabsInv, NEW r \in inFlight, Serve(r)
  PROVE  TabsInv'
  <1> DEFINE refused == [r EXCEPT !.served = "refused"]
  <1>0. PICK done : done = [r EXCEPT !.served = "done", !.answer = stored'.flag]
    OBVIOUS
  <1>1. UNCHANGED <<tab, lines, count>> /\ r.served = "no" /\ InFlightOk(r)
    BY DEF Serve, tabPage, TabsInv
  <1>2. /\ InFlightOk(done) <=> r.heard = "awaited"
        /\ done.served = "done" /\ done.heard = r.heard /\ done.kind = r.kind
        /\ done.key = r.key /\ done.answer = stored'.flag
    BY <1>0, <1>1 DEF InFlightOk, RequestParts, OnVariations
  <1>3. /\ InFlightOk(refused) <=> r.heard = "awaited"
        /\ refused.served = "refused" /\ refused.heard = r.heard /\ refused.kind = r.kind
    BY <1>1 DEF InFlightOk, RequestParts, OnVariations
  <1> HIDE DEF refused
  <1>4. CASE Accepted(r)
    <2>1. /\ stored' = Written(r)
          /\ proposal' = IF r.kind = "propose" THEN r.body ELSE proposal
          /\ inFlight' = StillOpen((inFlight \ {r}) \cup {done})
          /\ unheard' = (unheard \/ (OnVariations(r) /\ r.heard = "failed"))
      BY <1>0, <1>4 DEF Serve
    <2>2. /\ DOMAIN stored' = SettingParts \cup {"flag"} /\ unheard' \in BOOLEAN
          /\ ~OnVariations(r) => stored'.flag = stored.flag
          /\ proposal' # Nothing => DOMAIN proposal' \subseteq SettingParts
      BY <1>1, <1>4, <2>1, ServedIs DEF TabsInv, InFlightOk, OnVariations
    <2>3. \A q \in inFlight' : \/ q \in inFlight /\ q # r
                               \/ q = done /\ r.heard = "awaited"
      BY <1>2, <2>1 DEF StillOpen
    <2>4. \A q \in inFlight' : InFlightOk(q)
      BY <1>2, <2>3 DEF TabsInv
    <2>5. ASSUME tab' = "variations", ~unheard'
          PROVE  LinesInv'
      <3>1. LinesInv /\ ~(OnVariations(r) /\ r.heard = "failed")
        BY <1>1, <2>1, <2>5 DEF TabsInv
      <3>2. CASE r.heard = "failed"
        <4>1. stored'.flag = stored.flag /\ inFlight' \subseteq inFlight
          BY <2>2, <2>3, <3>1, <3>2
        <4>2. \A q \in inFlight : q.heard = "awaited" => q \in inFlight'
          BY <2>1, <3>2 DEF StillOpen
        <4> QED
          BY <1>1, <3>1, <4>1, <4>2 DEF LinesInv, LinesAgree, Expected, OnVariations
      <3>3. CASE r.heard = "awaited"
        <4>1. \A q \in inFlight' : q.heard = "awaited" => q = done
          BY <2>3, <3>1, <3>3 DEF LinesInv
        <4>2. OnVariations(r) /\ LinesAgree
          BY <1>1, <3>1, <3>3 DEF LinesInv
        <4>3. Expected(done)'
          BY <1>1, <1>2, <1>4, <2>1, <4>2, ExpectedIs
        <4>4. done \in inFlight' /\ OnVariations(done)
          BY <1>2, <2>1, <3>3, <4>2 DEF StillOpen, OnVariations
        <4> QED
          BY <1>2, <3>3, <4>1, <4>3, <4>4 DEF LinesInv, OnVariations
      <3> QED
        BY <1>1, <3>2, <3>3 DEF InFlightOk
    <2> QED
      BY <1>1, <2>2, <2>4, <2>5 DEF TabsInv, InFlightOk, OnVariations
  <1>5. CASE ~Accepted(r)
    <2>1. /\ UNCHANGED <<stored, proposal, unheard>>
          /\ inFlight' = StillOpen((inFlight \ {r}) \cup {refused})
      BY <1>5 DEF Serve, refused
    <2>2. \A q \in inFlight' : \/ q \in inFlight /\ q # r
                               \/ q = refused /\ r.heard = "awaited"
      BY <1>3, <2>1 DEF StillOpen
    <2>3. \A q \in inFlight' : InFlightOk(q)
      BY <1>3, <2>2 DEF TabsInv
    <2>4. \A q \in inFlight \ {r} : q.heard = "awaited" => q \in inFlight'
      BY <2>1 DEF StillOpen
    <2>5. LinesInv => LinesInv'
      <3> SUFFICES ASSUME LinesInv PROVE LinesInv'
        OBVIOUS
      <3>1. \A q, p \in inFlight' : q.heard = "awaited" /\ p.heard = "awaited" => q = p
        BY <1>3, <2>2 DEF LinesInv
      <3>2. \A q \in inFlight' : q.heard = "awaited" =>
              OnVariations(q) /\ (q.served = "done" => q \in inFlight)
        BY <1>3, <2>2 DEF LinesInv, OnVariations
      <3>3. (\A q \in inFlight' : q.heard = "awaited" => q.served # "done") => LinesAgree
        BY <1>1, <2>4 DEF LinesInv
      <3> QED
        BY <1>1, <2>1, <3>1, <3>2, <3>3 DEF LinesInv, LinesAgree, Expected, OnVariations
    <2> QED
      BY <1>1, <2>1, <2>3, <2>5 DEF TabsInv, InFlightOk, OnVariations
  <1> QED
    BY <1>4, <1>5
(* An answer makes of the lines what was expected of it.                     *)
LEMMA AnsweredIs ==
  ASSUME TabsInv, NEW r, VariationAnswered(r), OnVariations(r)
  PROVE  /\ \A k \in DOMAIN lines' : DOMAIN lines'[k] = {"value", "saved"}
         /\ Expected(r) => /\ DOMAIN lines' = DOMAIN stored.flag
                           /\ \A k \in DOMAIN lines' : lines'[k].saved = stored.flag[k]
  <1>1. /\ DOMAIN Row(r) = {"value", "saved"} /\ Row(r).saved = r.answer[r.key]
        /\ \A k \in DOMAIN lines : DOMAIN lines[k] = {"value", "saved"}
    BY DEF Row, TabsInv
  <1>2. CASE r.kind = "add"
    <2>1. lines' = Over([k \in {r.key} |-> Row(r)], lines)
      BY <1>2 DEF VariationAnswered
    <2>2. /\ DOMAIN lines' = DOMAIN lines \cup {r.key} /\ lines'[r.key] = Row(r)
          /\ \A k \in DOMAIN lines \ {r.key} : lines'[k] = lines[k]
      BY <2>1 DEF Over
    <2> QED
      BY <1>1, <1>2, <2>2 DEF Expected
  <1>3. CASE r.kind = "save"
    <2>1. lines' = [lines EXCEPT ![r.key] = Row(r)]
      BY <1>3 DEF VariationAnswered
    <2> QED
      BY <1>1, <1>3, <2>1 DEF Expected
  <1>4. CASE r.kind = "remove"
    <2>1. lines' = Without(lines, r.key)
      BY <1>4 DEF VariationAnswered
    <2> QED
      BY <1>1, <1>4, <2>1 DEF Expected, Without
  <1> QED
    BY <1>2, <1>3, <1>4 DEF OnVariations

LEMMA AnswerTabStep ==
  ASSUME TabsInv, NEW r \in inFlight, AnswerTab(r)
  PROVE  TabsInv'
  <1>1. /\ UNCHANGED <<stored, proposal, tab, unheard, count>>
        /\ inFlight' = inFlight \ {r} /\ r.heard = "awaited" /\ InFlightOk(r)
    BY DEF AnswerTab, TabsInv
  <1>2. \/ UNCHANGED lines /\ ~(r.served = "done" /\ OnVariations(r))
        \/ VariationAnswered(r) /\ r.served = "done" /\ OnVariations(r)
    <2>1. CASE r.served = "refused"
      BY <2>1 DEF AnswerTab
    <2>2. CASE r.served = "done" /\ OnVariations(r)
      BY <2>2 DEF AnswerTab
    <2>3. CASE r.served = "done" /\ ~OnVariations(r)
      BY <2>3 DEF AnswerTab, PublishAnswered
    <2> QED
      BY <1>1, <2>1, <2>2, <2>3 DEF AnswerTab, InFlightOk
  <1>3. \A k \in DOMAIN lines' : DOMAIN lines'[k] = {"value", "saved"}
    BY <1>2, AnsweredIs DEF TabsInv
  <1>4. ASSUME LinesInv
        PROVE  LinesInv'
    <2>1. \A q \in inFlight' : q.heard # "awaited"
      BY <1>1, <1>4 DEF LinesInv
    <2>2. LinesAgree'
      <3>1. CASE UNCHANGED lines /\ ~(r.served = "done" /\ OnVariations(r))
        BY <1>1, <1>4, <3>1 DEF LinesInv, LinesAgree
      <3>2. CASE VariationAnswered(r) /\ r.served = "done" /\ OnVariations(r)
        <4>1. Expected(r)
          BY <1>1, <1>4, <3>2 DEF LinesInv
        <4> QED
          BY <1>1, <3>2, <4>1, AnsweredIs DEF LinesAgree
      <3> QED
        BY <1>2, <3>1, <3>2
    <2> QED
      BY <2>1, <2>2 DEF LinesInv
  <1> QED
    BY <1>1, <1>3, <1>4 DEF TabsInv, InFlightOk, OnVariations

LEMMA LoseTabStep ==
  ASSUME TabsInv, NEW r \in inFlight, LoseTab(r)
  PROVE  TabsInv'
  <1> DEFINE lost == [r EXCEPT !.heard = "failed"]
  <1>1. /\ UNCHANGED <<stored, proposal, tab, lines, count>>
        /\ inFlight' = StillOpen((inFlight \ {r}) \cup {lost})
        /\ unheard' = (unheard \/ Unnoticed(r))
        /\ r.heard = "awaited" /\ InFlightOk(r) /\ unheard \in BOOLEAN
    BY DEF LoseTab, TabsInv
  <1>2. (InFlightOk(lost) <=> lost.served = "no") /\ lost.heard = "failed"
    BY <1>1 DEF InFlightOk, RequestParts, OnVariations
  <1> HIDE DEF lost
  <1>3. \A q \in inFlight' : InFlightOk(q)
    BY <1>1, <1>2 DEF StillOpen, TabsInv
  <1>4. ASSUME tab' = "variations", ~unheard'
        PROVE  LinesInv'
    <2>1. LinesInv /\ ~Unnoticed(r)
      BY <1>1, <1>4 DEF TabsInv
    <2>2. \A q \in inFlight' : q.heard = "failed"
      BY <1>1, <1>2, <2>1 DEF StillOpen, TabsInv, InFlightOk, LinesInv
    <2>3. LinesAgree
      BY <1>1, <2>1 DEF LinesInv, Unnoticed
    <2> QED
      BY <1>1, <2>2, <2>3 DEF LinesInv, LinesAgree
  <1>5. unheard' \in BOOLEAN
    BY <1>1
  <1> QED
    BY <1>1, <1>3, <1>4, <1>5 DEF TabsInv, InFlightOk, OnVariations

LEMMA TabsStep ==
  ASSUME TabsInv, [TabsNext]_tabVars
  PROVE  TabsInv'
  <1>1. CASE UNCHANGED tabVars
    BY <1>1 DEF tabVars, tabPage, TabsInv, InFlightOk, OnVariations, LinesInv, LinesAgree, Expected
  <1> QED
    BY <1>1, TabStep, PublishStep, VariationStep, OthersStep, ServeTabStep, AnswerTabStep,
       LoseTabStep DEF TabsNext

(* The targeting tab publishes a configuration only if its default was edited, *)
(* whatever another user has switched; and what the variations tab holds for    *)
(* saved is what is stored, whatever the order in which its requests were      *)
(* sent, aborted, served, lost and answered, until a variation is written that *)
(* the tab is not yet told of.                                               *)
THEOREM TabsKeepApart == TabsSpec => TabsKeepToThemselves
  <1>1. TabsInv => (tab = "variations" /\ ~unheard /\ ~(\E r \in inFlight : Unnoticed(r))
                     => /\ DOMAIN lines = DOMAIN stored.flag
                        /\ \A k \in DOMAIN lines : lines[k].saved = stored.flag[k])
    BY DEF TabsInv, LinesInv, LinesAgree, Unnoticed
  <1>2. ASSUME TabsInv, [TabsNext]_tabVars
        PROVE  [stored'.config # stored.config =>
                  \/ \E r \in inFlight : /\ r.kind = "publish" /\ r.served = "no" /\ r.changed
                                         /\ "config" \in DOMAIN r.body
                                         /\ stored'.config = r.body.config
                  \/ proposal # Nothing /\ proposal' = Nothing
                  \/ count'.others # count.others]_tabVars
    <2> SUFFICES ASSUME TabsNext, stored'.config # stored.config
                 PROVE  \/ \E r \in inFlight : /\ r.kind = "publish" /\ r.served = "no"
                                               /\ r.changed /\ "config" \in DOMAIN r.body
                                               /\ stored'.config = r.body.config
                        \/ proposal # Nothing /\ proposal' = Nothing
                        \/ count'.others # count.others
      BY <1>2
    <2>1. CASE OtherWrites
      BY <1>2, <2>1 DEF OtherWrites, Counted, TabsInv
    <2>2. ASSUME NEW r \in inFlight, Serve(r)
          PROVE  /\ r.kind = "publish" /\ r.served = "no" /\ r.changed
                 /\ "config" \in DOMAIN r.body /\ stored'.config = r.body.config
      <3>1. Accepted(r) /\ stored' = Written(r) /\ r.served = "no"
        BY <2>2 DEF Serve
      <3>2. r.kind = "publish" /\ "config" \in DOMAIN r.body /\ stored'.config = r.body.config
        BY <1>2, <3>1, ServedIs
      <3> QED
        BY <1>2, <3>1, <3>2 DEF TabsInv, InFlightOk
    <2>3. CASE Approve
      BY <2>3 DEF Approve
    <2> QED
      BY <2>1, <2>2, <2>3 DEF TabsNext, OpenTab, RefreshTab, EditTab, Publish, addVariation,
         saveVariation, removeVariation, SendVariation, AnswerTab, LoseTab
  <1> QED
    BY <1>1, <1>2, TabsStart, TabsStep, PTL DEF TabsSpec, TabsKeepToThemselves
================================================================================
