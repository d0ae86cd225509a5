---------------------------------- MODULE MCWeb ----------------------------------
(* Small instances of Dashboard, Onboarding, Creation and FlagTabs for TLC. A   *)
(* behaviour is one of a screen of the dashboard, one of the way in, one of a  *)
(* form that creates something or one of the tabs of a flag; they share        *)
(* nothing: the variables of those that do not take place rest.              *)
EXTENDS Dashboard, Onboarding, Creation, FlagTabs

TargetingTab == [FlagTargeting |-> FlagTargeting]

NoEntry ==
  /\ account = <<>> /\ workspace = <<>> /\ code = {} /\ cookie = Nobody /\ live = FALSE
  /\ changed = 0 /\ page = Nowhere /\ going = Arrived /\ cache = Empty /\ epoch = 0
  /\ sent = {} /\ who = Nobody /\ confirming = FALSE

NoScreen ==
  /\ screen = "none" /\ isOpen = FALSE /\ gated = FALSE /\ store = <<>> /\ created = 0
  /\ selected = "a" /\ shown = "a" /\ props = Blank /\ origin = "a" /\ draft = Blank
  /\ baseline = Blank /\ locked = {} /\ confirmed = FALSE /\ leaving = FALSE
  /\ refreshing = FALSE /\ secret = Unrevealed /\ batch = 1 /\ requests = <<>>
  /\ elsewhere = 0

NoForm ==
  /\ wizard = None /\ step = 0 /\ input = <<>> /\ editedKey = FALSE /\ pending = FALSE
  /\ source = None /\ sourceError = None /\ asked = None /\ reviewed = FALSE
  /\ made = 0 /\ missed = 0 /\ stage = "left"

NoTab ==
  /\ stored = [config |-> <<>>] /\ guarded = FALSE /\ proposal = Nothing /\ tab = "none"
  /\ tabProps = <<>> /\ tabDraft = <<>> /\ lines = <<>> /\ busy = {} /\ inFlight = {}
  /\ unheard = FALSE /\ count = [edits |-> 0, sends |-> 0, others |-> 0]

WebInit ==
  \/ Init /\ NoEntry /\ NoForm /\ NoTab
  \/ NoScreen /\ EntryInit /\ NoForm /\ NoTab
  \/ NoScreen /\ NoEntry /\ CreationInit /\ NoTab
  \/ NoScreen /\ NoEntry /\ NoForm /\ TabsInit

WebNext ==
  \/ screen # "none" /\ Next /\ UNCHANGED <<entryVars, creationVars, tabVars>>
  \/ account # <<>> /\ EntryNext /\ UNCHANGED <<vars, creationVars, tabVars>>
  \/ wizard # None /\ CreationNext /\ UNCHANGED <<vars, entryVars, tabVars>>
  \/ tab # "none" /\ TabsNext /\ UNCHANGED <<vars, entryVars, creationVars>>

WebSpec ==
  /\ WebInit /\ [][WebNext]_<<vars, entryVars, creationVars, tabVars>>
  /\ Fairness /\ EntryFairness /\ CreationFairness
================================================================================
