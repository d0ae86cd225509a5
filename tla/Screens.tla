--------------------------------- MODULE Screens ---------------------------------
(***************************************************************************)
(* The dashboard's interactive screens: what each one edits, when its        *)
(* controls are enabled, what it sends and what it does with the answer. A    *)
(* screen edits up to two fields of what it shows, enough to tell the         *)
(* screens apart; Dashboard gives the attributes their meaning:              *)
(*                                                                          *)
(*   fields     the fields the user may change                              *)
(*   loads      the fields that start from what the page loaded; the others *)
(*              start from a default                                        *)
(*   inPath     its resource is named by the URL alone, not by the cookies   *)
(*   keyed      it is mounted anew when the resource changes                *)
(*   resyncs    an effect resets it whenever the page is loaded again       *)
(*   needsEdit  it sends only when it differs from what it knows as saved    *)
(*   sends      "all" its fields, the "changed" ones, only "one", or one     *)
(*              request for each side by side, the second only if changed    *)
(*   proposes   in a protected environment it sends a change request instead *)
(*   clicks     changing a field sends it at once                           *)
(*   locks      while an answer is awaited, the "screen" sends nothing, or  *)
(*              the "field" does not, or "nothing" is held back             *)
(*   rollsBack  a failure restores what was shown before                    *)
(*   keeps      its fields become those of the answer                       *)
(*   confirms   a success makes it say so                                   *)
(*   refreshes  a success loads the page again                              *)
(*   after      a success makes it "stay", "close" or "leave" for another   *)
(*              page                                                        *)
(*   reopens    a success unlocks it, even while it is being left           *)
(*   creates    what it creates: "nothing", a row whose key is "unique", or *)
(*              "another" one each time                                     *)
(*   secret     who takes the secret an answer carries: "nobody", a "card"   *)
(*              beside its buttons, the "dialog" in place of its buttons or  *)
(*              the "opener" that mounts the form, in place of the form      *)
(*   decides    it decides the proposal it shows                            *)
(*                                                                          *)
(* A definition whose name ends in _Mutant is the definition after it with   *)
(* one plausible bug; no action uses it.                                     *)
(***************************************************************************)

Fields == {"first", "second"}

(* A form of loaded fields with a button that saves them all. One field does   *)
(* where the screen treats all of them alike.                                *)
Form ==
  [fields |-> {"first"}, loads |-> Fields, inPath |-> TRUE, keyed |-> FALSE, resyncs |-> FALSE,
   needsEdit |-> FALSE, sends |-> "all", proposes |-> FALSE, clicks |-> FALSE,
   locks |-> "screen", rollsBack |-> FALSE, keeps |-> FALSE, confirms |-> FALSE,
   refreshes |-> FALSE, after |-> "stay", reopens |-> TRUE, creates |-> "nothing",
   secret |-> "nobody", decides |-> FALSE]

(* One that compares its draft with a baseline and adopts the answer.        *)
Saved == [Form EXCEPT !.needsEdit = TRUE, !.keeps = TRUE, !.confirms = TRUE]

(* A button, whose value is sent at once.                                    *)
Button == [Form EXCEPT !.clicks = TRUE, !.refreshes = TRUE]

Dialog == [Form EXCEPT !.refreshes = TRUE, !.after = "close"]

(* Applied as it is changed, the request before it aborted.                  *)
Instant == [Form EXCEPT !.fields = Fields, !.clicks = TRUE, !.locks = "nothing",
                        !.rollsBack = TRUE, !.keeps = TRUE, !.confirms = TRUE]

Wizard == [Form EXCEPT !.loads = {}, !.creates = "unique",
                       !.after = "leave"]

--------------------------------------------------------------------------------
(* Pages whose address names a key of the project, or the environment, that    *)
(* the cookies select: another tab may select another under the same address. *)

EnvironmentPage(s) == [s EXCEPT !.inPath = FALSE]
SegmentPage(s) == [s EXCEPT !.inPath = FALSE]

FlagPage_Mutant(s) ==  \* the tabs are not keyed by flag and environment
  [s EXCEPT !.inPath = FALSE]

FlagPage(s) == [s EXCEPT !.inPath = FALSE, !.keyed = TRUE]

IntegrationPage(s) == [s EXCEPT !.inPath = FALSE, !.keyed = TRUE]

--------------------------------------------------------------------------------
(* Environments *)

EnvironmentDetails == EnvironmentPage([Saved EXCEPT !.refreshes = TRUE])
EnvironmentSettings == EnvironmentPage(Saved)
EnvironmentArchive == EnvironmentPage(Button)
CreateEnvironment == [Wizard EXCEPT !.refreshes = TRUE]

--------------------------------------------------------------------------------
(* Flags *)

FlagConfiguration_Mutant ==  \* what is edited meanwhile stays, as if it were published
  FlagPage([Form EXCEPT !.proposes = TRUE, !.confirms = TRUE])

FlagConfiguration ==
  FlagPage([Form EXCEPT !.proposes = TRUE, !.keeps = TRUE, !.confirms = TRUE])

FlagTargeting ==
  FlagPage([Form EXCEPT !.fields = Fields, !.sends = "split", !.proposes = TRUE,
                        !.confirms = TRUE])

(* One row, and the row to be added: they lock apart, and share a controller. *)
FlagVariations == [Form EXCEPT !.fields = Fields, !.keyed = TRUE, !.sends = "one",
                               !.locks = "field", !.clicks = TRUE, !.keeps = TRUE,
                               !.refreshes = TRUE]

FlagApproval == FlagPage([Button EXCEPT !.decides = TRUE])

EditFlag == [Dialog EXCEPT !.resyncs = TRUE]
ArchiveFlag == [Dialog EXCEPT !.clicks = TRUE]

CreateFlag == [Wizard EXCEPT !.reopens = FALSE]

--------------------------------------------------------------------------------
(* Segments *)

CreateSegment == [Wizard EXCEPT !.after = "close"]
ArchiveSegment == SegmentPage([Button EXCEPT !.keeps = TRUE])

--------------------------------------------------------------------------------
(* API keys *)

CreateApiKey_Mutant ==  \* the form keeps the answer
  [Wizard EXCEPT !.creates = "another", !.secret = "dialog", !.after = "stay"]

CreateApiKey == [Wizard EXCEPT !.creates = "another", !.secret = "opener", !.after = "stay"]
RotateApiKey == [Button EXCEPT !.secret = "dialog", !.refreshes = FALSE]
RenameApiKey == Dialog
RevokeApiKey == Button
SdkKeyCard == IntegrationPage([Button EXCEPT !.secret = "card", !.creates = "another"])

--------------------------------------------------------------------------------
(* Projects and workspace *)

CreateProject == [Wizard EXCEPT !.creates = "another", !.refreshes = TRUE]
WorkspaceProfile == [Saved EXCEPT !.fields = Fields, !.sends = "changed"]
WorkspaceSecurity == Instant

--------------------------------------------------------------------------------
(* The account *)

Profile == Saved
Password == [Form EXCEPT !.loads = {}, !.confirms = TRUE]
Preferences == [Instant EXCEPT !.loads = {"second"}]
Notifications == [Instant EXCEPT !.loads = {}]

--------------------------------------------------------------------------------
(* All of them, by name.                                                      *)
AllScreens ==
  [EnvironmentDetails |-> EnvironmentDetails, EnvironmentSettings |-> EnvironmentSettings,
   EnvironmentArchive |-> EnvironmentArchive, CreateEnvironment |-> CreateEnvironment,
   FlagConfiguration |-> FlagConfiguration, FlagTargeting |-> FlagTargeting,
   FlagVariations |-> FlagVariations, FlagApproval |-> FlagApproval, EditFlag |-> EditFlag,
   ArchiveFlag |-> ArchiveFlag, CreateFlag |-> CreateFlag, CreateSegment |-> CreateSegment,
   ArchiveSegment |-> ArchiveSegment, CreateApiKey |-> CreateApiKey,
   RotateApiKey |-> RotateApiKey, RenameApiKey |-> RenameApiKey,
   RevokeApiKey |-> RevokeApiKey, SdkKeyCard |-> SdkKeyCard, CreateProject |-> CreateProject,
   WorkspaceProfile |-> WorkspaceProfile, WorkspaceSecurity |-> WorkspaceSecurity,
   Profile |-> Profile, Password |-> Password, Preferences |-> Preferences,
   Notifications |-> Notifications]
================================================================================
