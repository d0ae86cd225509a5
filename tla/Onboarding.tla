------------------------------- MODULE Onboarding -------------------------------
(***************************************************************************)
(* The way into the dashboard: signing up, confirming the address with a      *)
(* code, signing in, creating the workspace and the first project, resetting *)
(* the password and signing out, in one tab of a browser whose other tabs    *)
(* share its session cookie. A page is loaded through the proxy and the      *)
(* layouts, which may redirect; the router keeps what it has loaded.         *)
(*                                                                          *)
(* Better Auth, which keeps accounts, codes and sessions, is modelled from   *)
(* the configuration the API gives it and the calls lib/auth.ts makes; the   *)
(* router from what the forms ask of it.                                    *)
(*                                                                          *)
(* A definition whose name ends in _Mutant is the definition after it with   *)
(* one plausible bug; no action uses it.                                     *)
(***************************************************************************)
EXTENDS Naturals, FiniteSets

CONSTANTS
  Users,
  Members,       (* Those of them who have long had a workspace and a project. *)
  Visitors,      (* Those of them who fill in the forms of this tab.         *)
  Nobody,
  MaxSent,       (* Bounds the requests on their way at a time.             *)
  MaxSignIns,    (* Bounds the sign-ins of this tab.                        *)
  MaxSessions    (* Bounds what other tabs, and time, do to the session.    *)

ASSUME NobodyIsNoUser == Nobody \notin Users /\ Members \cup Visitors \subseteq Users
ASSUME Bounded == MaxSent \in Nat /\ MaxSignIns \in Nat /\ MaxSessions \in Nat

Access == {"/", "/sign-up", "/forgot-password", "/create-workspace"}
GettingStarted == {"/create-project"}
App == {"/overview", "/profile"}
Guarded == GettingStarted \cup App
Paths == Access \cup Guarded

VARIABLES
  account,    (* account[u]: "none", "unverified" or "verified".              *)
  workspace,  (* What the API finds first for u: "none", "empty", "populated". *)
  code,       (* The users a live code was mailed to.                        *)
  cookie,     (* Whose session cookie the browser has, or Nobody.            *)
  live,       (* Whether that session is still valid.                        *)
  changed,    (* How often another tab, or time, changed the session.        *)
  page,       (* What is shown: [path, epoch].                               *)
  going,      (* The page on its way: [path, stage], or Arrived.             *)
  cache,      (* What the router keeps of the guarded pages: by path, or nothing. *)
  epoch,      (* How often a sign-in of this tab has gone on to its page.     *)
  sent,       (* The requests on their way: [what, who, form], its form       *)
              (* being "here", "left" for another page or "gone" by a reload.  *)
  who,        (* Whom the form is filled in for, or Nobody.                  *)
  confirming  (* The form asks for the code.                                 *)

accounts == <<account, workspace, code>>
session == <<cookie, live>>
shell == <<page, going, cache>>
entry == <<sent, who, confirming>>
entryVars == <<accounts, session, changed, shell, epoch, entry>>

Arrived == [path |-> "/", stage |-> "arrived"]
Nowhere == [path |-> "/", epoch |-> 0]
ErrorPage == [path |-> "error", epoch |-> 0]
Empty == [p \in Guarded |-> {}]

EntryInit ==
  /\ account \in [Users -> {"none", "unverified", "verified"}]
  /\ workspace \in [Users -> {"none", "empty", "populated"}]
  /\ \A u \in Users : account[u] # "verified" => workspace[u] = "none"
  /\ \A u \in Members : workspace[u] = "populated"
  /\ code = {} /\ cookie = Nobody /\ live = FALSE /\ changed = 0
  /\ page = Nowhere /\ going = Arrived /\ cache = Empty /\ epoch = 0
  /\ sent = {} /\ who = Nobody /\ confirming = FALSE

--------------------------------------------------------------------------------
(* Navigation *)

(* Only the access screens are shown to whoever asks.                        *)
Towards(path) == [path |-> path, stage |-> IF path \in Access THEN "render" ELSE "proxy"]

(* What was sent is not aborted: it is served all the same, and unless the     *)
(* page is reloaded it is also heard of.                                     *)
Abandon(form) ==
  /\ sent' = {[r EXCEPT !.form = IF @ = "gone" THEN @ ELSE form] : r \in sent}
  /\ who' = Nobody /\ confirming' = FALSE

(* Another page takes the place of the one shown, and of its form.            *)
Replace(next) ==
  /\ page' = next
  /\ IF next.path = page.path THEN UNCHANGED entry ELSE Abandon("left")

(* A link, a push or the back button: the router may show what it has.        *)
Push(path) ==
  \/ going' = Towards(path) /\ UNCHANGED <<page, entry>>
  \/ path \in Guarded /\ going' = Arrived /\ \E kept \in cache[path] : Replace(kept)

(* A visit that interrupts another one is left out: it starts over likewise.   *)
Visit ==
  \E path \in Paths :
    /\ going = Arrived
    /\ Push(path)
    /\ UNCHANGED <<accounts, session, changed, cache, epoch>>

(* The address bar: nothing is kept, and no form waits any more.              *)
Reload ==
  \E path \in Paths :
    /\ going = Arrived
    /\ going' = Towards(path) /\ cache' = Empty
    /\ Abandon("gone")
    /\ UNCHANGED <<accounts, session, changed, page, epoch>>

Redirect(path) == going' = Towards(path) /\ UNCHANGED <<page, cache, entry>>

Render ==
  /\ going' = Arrived
  /\ Replace([path |-> going.path, epoch |-> IF going.path \in Guarded THEN epoch ELSE 0])
  /\ cache' = [p \in Guarded |-> IF p = going.path THEN {page'} ELSE cache[p]]

GoOnTo(stage) == going' = [going EXCEPT !.stage = stage] /\ UNCHANGED <<page, cache, entry>>

(* The proxy looks for a cookie alone, and only before some of the pages.     *)
Proxy ==
  /\ going.stage = "proxy"
  /\ IF cookie = Nobody /\ going.path \in {"/overview", "/create-project"}
       THEN Redirect("/")
       ELSE GoOnTo("session")
  /\ UNCHANGED <<accounts, session, changed, epoch>>

GettingStartedLayout_Mutant ==  \* whoever has a workspace is sent on
  CASE ~live -> Redirect("/")
    [] workspace[cookie] = "none" -> Redirect("/create-workspace")
    [] OTHER -> Redirect("/overview")

GettingStartedLayout ==
  CASE ~live -> Redirect("/")
    [] workspace[cookie] = "none" -> Redirect("/create-workspace")
    [] workspace[cookie] = "populated" -> Redirect("/overview")
    [] OTHER -> Render

AppLayout ==
  CASE ~live -> Redirect("/")
    [] workspace[cookie] = "none" -> Redirect("/create-workspace")
    [] workspace[cookie] = "empty" -> Redirect("/create-project")
    [] OTHER -> GoOnTo("scope")

(* The layout asks the API for the session, by the cookie.                   *)
AskSession ==
  /\ going.stage = "session"
  /\ IF going.path \in GettingStarted THEN GettingStartedLayout ELSE AppLayout
  /\ UNCHANGED <<accounts, session, changed, epoch>>

(* getScope: another request, by which time the session may be another's.    *)
Scope ==
  /\ going.stage = "scope"
  /\ CASE ~live \/ workspace[cookie] = "none" ->  \* the request fails, the page with it
            going' = Arrived /\ Replace(ErrorPage) /\ UNCHANGED cache
       [] live /\ workspace[cookie] = "empty" -> Redirect("/create-project")
       [] OTHER -> Render
  /\ UNCHANGED <<accounts, session, changed, epoch>>

ShowPage ==
  /\ going.stage = "render"
  /\ Render
  /\ UNCHANGED <<accounts, session, changed, epoch>>

--------------------------------------------------------------------------------
(* The forms *)

Waiting == \E r \in sent : r.form = "here"

Idle == going = Arrived /\ ~Waiting

Ask(what) ==
  /\ Idle /\ Cardinality(sent) < MaxSent
  /\ sent' = sent \cup {[what |-> what, who |-> who', form |-> "here"]}
  /\ UNCHANGED <<accounts, session, changed, shell, epoch, confirming>>

AskAs(what) == ~confirming /\ who' \in Visitors /\ Ask(what)

AskOn(what) == who' = who /\ Ask(what)

(* "Use a different account", "Start over" or "Use a different email".        *)
StartOver ==
  /\ Idle /\ confirming /\ confirming' = FALSE /\ who' = Nobody
  /\ UNCHANGED <<accounts, session, changed, shell, epoch, sent>>

SignInForm == page.path = "/" /\ (AskAs("signIn") \/ AskAs("provider"))
SignInCode == page.path = "/" /\ confirming /\ (AskOn("verify") \/ AskOn("code"))
SignUpForm == page.path = "/sign-up" /\ (AskAs("signUp") \/ AskAs("provider"))
SignUpCode == page.path = "/sign-up" /\ confirming /\ (AskOn("confirm") \/ AskOn("code"))
ForgotPasswordForm == page.path = "/forgot-password" /\ AskAs("forgot")
ResetForm == page.path = "/forgot-password" /\ confirming /\ (AskOn("reset") \/ AskOn("forgot"))
CreateWorkspaceForm == page.path = "/create-workspace" /\ AskOn("workspace")
CreateProjectForm == page.path = "/create-project" /\ AskOn("project")
AccountMenu == page.path \in App /\ AskOn("signOut")

SubmitForm ==
  \/ SignInForm \/ SignInCode \/ SignUpForm \/ SignUpCode \/ ForgotPasswordForm \/ ResetForm
  \/ CreateWorkspaceForm \/ CreateProjectForm \/ AccountMenu \/ StartOver

(* router.refresh() and router.push(path).                                   *)
GoTo_Mutant(path) ==  \* push alone
  /\ \/ going' = Towards(path) /\ page' = page
     \/ path \in Guarded /\ going' = Arrived /\ page' \in cache[path]
  /\ cache' = cache

GoTo(path) ==
  going' = Towards(path) /\ cache' = Empty /\ UNCHANGED page

(* A form that hears of a success goes on, wherever its user has gone         *)
(* meanwhile.                                                                *)
GoOn(heard, path) == IF heard THEN GoTo(path) ELSE UNCHANGED shell

(* What is answered no longer waits; only the form on the page swaps to the    *)
(* code, or back.                                                            *)
Settled(r, heard, asks) ==
  /\ sent' = sent \ {r}
  /\ confirming' = IF heard /\ r.form = "here" THEN asks ELSE confirming
  /\ who' = IF r.form = "here" /\ ~confirming' THEN Nobody ELSE who

Stay == UNCHANGED <<session, shell, epoch>>

(* A session is issued; of an answer that is not heard the browser may have    *)
(* read the cookie.                                                          *)
SignedIn(r, heard, path) ==
  /\ \/ cookie' = r.who /\ live' = TRUE
     \/ ~heard /\ UNCHANGED session
  /\ epoch' = IF heard THEN epoch + 1 ELSE epoch
  /\ GoOn(heard, path)

SignIn(r, heard) ==
  /\ r.what = "signIn" /\ epoch < MaxSignIns
  /\ \/ /\ account[r.who] = "verified"
        /\ SignedIn(r, heard, "/overview")
        /\ Settled(r, heard, confirming)
        /\ UNCHANGED accounts
     \/ /\ account[r.who] = "unverified"  \* EMAIL_NOT_VERIFIED: a code is asked for
        /\ code' = code \cup {r.who}
        /\ Settled(r, heard, TRUE)
        /\ Stay /\ UNCHANGED <<account, workspace>>

(* The browser goes to the provider and comes back with a session, to a page   *)
(* loaded anew; an unconfirmed account is not linked.                        *)
SignInWithProvider(r, heard) ==
  /\ r.what = "provider" /\ heard /\ account[r.who] # "unverified" /\ epoch < MaxSignIns
  /\ account' = [account EXCEPT ![r.who] = "verified"]
  /\ SignedIn(r, heard, IF account[r.who] = "none" THEN "/create-workspace" ELSE "/overview")
  /\ sent' = {[q EXCEPT !.form = "gone"] : q \in sent \ {r}}
  /\ who' = Nobody /\ confirming' = FALSE
  /\ UNCHANGED <<workspace, code>>

SignUp(r, heard) ==
  /\ r.what = "signUp" /\ account[r.who] = "none"
  /\ account' = [account EXCEPT ![r.who] = "unverified"]
  /\ code' = code \cup {r.who}
  /\ Settled(r, heard, TRUE)
  /\ Stay /\ UNCHANGED workspace

Verify(r, heard) ==
  /\ r.what \in {"verify", "confirm"} /\ r.who \in code /\ epoch < MaxSignIns
  /\ account' = [account EXCEPT ![r.who] = "verified"]
  /\ code' = code \ {r.who}
  /\ SignedIn(r, heard, IF r.what = "confirm" THEN "/create-workspace" ELSE "/overview")
  /\ Settled(r, heard, confirming)
  /\ UNCHANGED workspace

Mail(u) ==
  /\ code' = IF account[u] = "none" THEN code ELSE code \cup {u}
  /\ UNCHANGED <<account, workspace>>

SendCode(r, heard) ==
  r.what = "code" /\ Mail(r.who) /\ Settled(r, heard, confirming) /\ Stay

RequestReset(r, heard) ==
  r.what = "forgot" /\ Mail(r.who) /\ Settled(r, heard, TRUE) /\ Stay

Reset(r, heard) ==
  /\ r.what = "reset" /\ r.who \in code
  /\ account' = [account EXCEPT ![r.who] = "verified"]
  /\ code' = code \ {r.who}
  /\ Settled(r, heard, FALSE)
  /\ Stay /\ UNCHANGED workspace

(* A second workspace may or may not be the one the API finds from then on.   *)
CreateWorkspace(r, heard) ==
  /\ r.what = "workspace" /\ live
  /\ \E found \in IF workspace[cookie] = "none" THEN {"empty"} ELSE {"empty", workspace[cookie]} :
       workspace' = [workspace EXCEPT ![cookie] = found]
  /\ GoOn(heard, "/create-project")
  /\ Settled(r, heard, confirming)
  /\ UNCHANGED <<account, code, session, epoch>>

CreateFirstProject(r, heard) ==
  /\ r.what = "project" /\ live /\ workspace[cookie] # "none"
  /\ workspace' = [workspace EXCEPT ![cookie] = "populated"]
  /\ GoOn(heard, "/overview")
  /\ Settled(r, heard, confirming)
  /\ UNCHANGED <<account, code, session, epoch>>

(* Signing out pushes without a refresh.                                     *)
SignOut(r, heard) ==
  /\ r.what = "signOut"
  /\ live' = FALSE
  /\ cookie' = Nobody \/ (~heard /\ UNCHANGED cookie)
  /\ going' = IF heard THEN Towards("/") ELSE going
  /\ Settled(r, heard, confirming)
  /\ UNCHANGED <<accounts, page, cache, epoch>>

(* It is refused, or never arrives: the form can be sent again.               *)
Refused(r) ==
  Settled(r, FALSE, confirming) /\ UNCHANGED <<accounts, session, shell, epoch>>

(* What was sent is served, and the answer heard or lost, or it is not served. *)
Answered ==
  /\ \E r \in sent :
       \/ \E heard \in {r.form # "gone", FALSE} :
            \/ SignIn(r, heard) \/ SignInWithProvider(r, heard) \/ SignUp(r, heard)
            \/ Verify(r, heard) \/ SendCode(r, heard) \/ RequestReset(r, heard)
            \/ Reset(r, heard) \/ CreateWorkspace(r, heard)
            \/ CreateFirstProject(r, heard) \/ SignOut(r, heard)
       \/ Refused(r)
  /\ UNCHANGED changed

--------------------------------------------------------------------------------
(* Another tab signs out or in, or the session expires.                       *)
ChangeSession ==
  /\ changed < MaxSessions
  /\ changed' = changed + 1
  /\ \/ cookie' = Nobody /\ live' = FALSE
     \/ \E u \in Users : account[u] = "verified" /\ cookie' = u /\ live' = TRUE
     \/ live' = FALSE /\ UNCHANGED cookie
  /\ UNCHANGED <<accounts, shell, epoch, entry>>

EntryNext ==
  \/ Visit \/ Reload \/ Proxy \/ AskSession \/ Scope \/ ShowPage
  \/ SubmitForm \/ Answered \/ ChangeSession

EntrySpec == EntryInit /\ [][EntryNext]_entryVars

(* The server renders what is asked of it.                                   *)
EntryFairness == WF_entryVars(Proxy \/ AskSession \/ Scope \/ ShowPage)
EntryFairSpec == EntrySpec /\ EntryFairness

--------------------------------------------------------------------------------
(* Properties *)

(* "push() alone would navigate against a Router Cache populated while signed  *)
(* out" (sign-in-form): once a sign-in of this tab has gone on, no page loaded *)
(* before it is shown, though its user had left the form, gone through pages   *)
(* of another session, or sent a second one. What other tabs do to the cookie *)
(* leaves this tab's pages as they are.                                      *)
NoPageOutlivesSignIn ==
  going = Arrived /\ page.path \in Guarded => page.epoch = epoch

(* The proxy and the two layouts never send a visit round in a circle: it     *)
(* comes to a page, whatever the session and the account are meanwhile.       *)
EveryVisitSettles == []<>(going = Arrived)

(* Refuted: once signed out, no page of the dashboard is shown.               *)
SignedOutSeesNothing ==
  cookie = Nobody /\ going = Arrived /\ changed = 0 => page.path \notin App
================================================================================
