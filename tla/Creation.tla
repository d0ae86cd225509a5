-------------------------------- MODULE Creation --------------------------------
(***************************************************************************)
(* The forms that create an environment, a flag and a segment, step by step. *)
(* What is typed is kept from step to step, the last step shows what will be  *)
(* created, and only from there is it sent; the controls stay usable while    *)
(* the answer is awaited. The environment's second step loads the flags of    *)
(* the environment whose configurations are to be copied.                    *)
(*                                                                          *)
(* Of a text only what validation tells apart is kept: "" is an empty one.   *)
(* The API answers as it likes: the key may be taken by then, or not.        *)
(*                                                                          *)
(* A definition whose name ends in _Mutant is the definition after it with   *)
(* one plausible bug; no action uses it.                                     *)
(***************************************************************************)
EXTENDS Naturals, Sequences, SequencesExt

CONSTANTS
  Environments,  (* The keys of the project's environments, one the default.  *)
  MaxMade        (* Bounds what one form creates.                            *)

VARIABLES
  wizard,     (* The form: "environment", "flag" or "segment".               *)
  step,       (* The step it shows, from 0.                                  *)
  input,      (* What is typed and chosen in it.                             *)
  editedKey,  (* The key no longer follows the name.                         *)
  pending,    (* An answer is awaited.                                       *)
  source,     (* The environment the loaded flags are of.                     *)
  sourceError, (* The environment whose flags could not be loaded.            *)
  asked,      (* The environment whose flags are awaited.                     *)
  reviewed,   (* Nothing was changed since the last step showed it.           *)
  made,       (* How many resources it has created.                          *)
  missed,     (* How many of them it was not told of.                        *)
  stage       (* It is being "edited", or was answered: "panel", "leaving", "left". *)

typed == <<input, editedKey>>
loaded == <<source, sourceError>>
loading == <<loaded, asked>>
creationVars == <<wizard, step, typed, pending, loading, reviewed, made, missed, stage>>

None == "none"
Texts == {"", "one"}
Types == {"boolean", "string", "json"}
LastStep == IF wizard = "flag" THEN 1 ELSE 2

--------------------------------------------------------------------------------
(* What a form starts with *)

NewRule == [attribute |-> "user.beta", operator |-> "equals", filled |-> FALSE]

EnvironmentInput == \E e \in Environments : input = [name |-> "", key |-> "", copies |-> FALSE,
                                                      copyFrom |-> e]
FlagInput == input = [name |-> "", key |-> "", type |-> "boolean", values |-> "boolean",
                      keysDiffer |-> TRUE]
SegmentInput == input = [name |-> "", key |-> "", rules |-> <<NewRule>>]

CreationInit ==
  /\ \/ wizard = "environment" /\ EnvironmentInput
     \/ wizard = "flag" /\ FlagInput
     \/ wizard = "segment" /\ SegmentInput
  /\ step = 0 /\ editedKey = FALSE /\ pending = FALSE
  /\ source = None /\ sourceError = None /\ asked = None
  /\ reviewed = FALSE /\ made = 0 /\ missed = 0 /\ stage = "edited"

--------------------------------------------------------------------------------
(* Validation: the fields whose error is shown *)

Unnamed(i) == {f \in {"name", "key"} : i[f] = ""}

EnvironmentErrors(i) ==
  IF Unnamed(i) = {} /\ i.key \in Environments THEN {"key"} ELSE Unnamed(i)

FlagErrors(i) ==
  Unnamed(i) \cup (IF i.type # "boolean" /\ i.values # i.type THEN {"values"} ELSE {})
             \cup (IF i.type = "string" /\ ~i.keysDiffer THEN {"variationKeys"} ELSE {})

SegmentErrors(i) ==
  Unnamed(i) \cup (IF \E k \in DOMAIN i.rules : ~i.rules[k].filled THEN {"rules"} ELSE {})

Errors == CASE wizard = "environment" -> EnvironmentErrors(input)
            [] wizard = "flag" -> FlagErrors(input)
            [] wizard = "segment" -> SegmentErrors(input)

--------------------------------------------------------------------------------
(* The steps *)

(* The key follows the name until the user takes it over.                     *)
Naming ==
  \/ \E t \in Texts :
       input' = [input EXCEPT !.name = t, !.key = IF editedKey THEN @ ELSE t]
       /\ UNCHANGED editedKey
  \/ \E t \in Texts \cup (IF wizard = "environment" THEN Environments ELSE {}) :
       input' = [input EXCEPT !.key = t] /\ editedKey' = TRUE

StartingConfigurations ==
  /\ \/ \E copies \in BOOLEAN : input' = [input EXCEPT !.copies = copies]
     \/ input.copies /\ \E e \in Environments : input' = [input EXCEPT !.copyFrom = e]
  /\ UNCHANGED editedKey

(* A pair typed for one type is meaningless in another one.                   *)
TypeChange ==
  \E t \in Types :
    input' = [input EXCEPT !.type = t, !.values = t, !.keysDiffer = TRUE] /\ UNCHANGED editedKey

(* A document is whatever parses; a string's variations have keys of their own. *)
TypedValues ==
  /\ input.type # "boolean"
  /\ \/ \E shape \in IF input.type = "json" THEN Types ELSE {input.type} :
          input' = [input EXCEPT !.values = shape]
     \/ /\ input.type = "string"
        /\ \E differ \in BOOLEAN : input' = [input EXCEPT !.keysDiffer = differ]
  /\ UNCHANGED editedKey

Operators(attribute) ==
  IF attribute = "user.beta" THEN <<"equals", "not_equals">> ELSE <<"equals", "contains">>

(* The operator is kept if the attribute's type has it.                       *)
withAttribute(rule, attribute) ==
  [rule EXCEPT !.attribute = attribute,
               !.operator = IF @ \in ToSet(Operators(attribute)) THEN @
                            ELSE Head(Operators(attribute))]

Edited(rule) ==
  {withAttribute(rule, attribute) : attribute \in {"user.beta", "user.plan"}}
  \cup {[rule EXCEPT !.operator = operator] : operator \in ToSet(Operators(rule.attribute))}
  \cup {[rule EXCEPT !.filled = filled] : filled \in BOOLEAN}

Conditions ==
  /\ \/ \E k \in DOMAIN input.rules : \E rule \in Edited(input.rules[k]) :
          input' = [input EXCEPT !.rules[k] = rule]
     \/ Len(input.rules) < 2 /\ input' = [input EXCEPT !.rules = Append(@, NewRule)]
     \/ \E k \in DOMAIN input.rules : input' = [input EXCEPT !.rules = RemoveAt(@, k)]
  /\ UNCHANGED editedKey

--------------------------------------------------------------------------------
(* The flags to be copied *)

(* The effect aborts what it asked for and, on its step, asks anew.            *)
SourceEffect_Mutant ==  \* not when a list is there, whose ever it is
  asked' = IF step' = step THEN asked
           ELSE IF step' = 1 /\ wizard = "environment" /\ input.copies /\ source = None
             THEN input.copyFrom
           ELSE None

SourceEffect ==
  asked' = IF step' = step THEN asked
           ELSE IF step' = 1 /\ wizard = "environment" /\ input.copies THEN input.copyFrom
           ELSE None

(* The answer, or the error, is of the environment it was asked for.          *)
SourceLoads ==
  /\ asked # None /\ asked' = None
  /\ \/ source' = asked /\ sourceError' = None
     \/ sourceError' = asked /\ UNCHANGED source
  /\ UNCHANGED <<wizard, step, typed, pending, reviewed, made, missed, stage>>

(* An error, if there is one of the environment selected, or its flags.       *)
Listed == input.copyFrom \in {source, sourceError}

--------------------------------------------------------------------------------
(* Going on, and creating *)

(* What the last step shows: of a string flag not the variations' keys.       *)
EnvironmentReview(i) == [i EXCEPT !.copyFrom = IF i.copies THEN @ ELSE None]
FlagPreview(i) == [name |-> i.name, key |-> i.key, type |-> i.type, values |-> i.values]
SegmentReview(i) == i

Review(i) == CASE wizard = "environment" -> EnvironmentReview(i)
               [] wizard = "flag" -> FlagPreview(i)
               [] wizard = "segment" -> SegmentReview(i)

EnvironmentStep == wizard = "environment" /\ step = 0 /\ (Naming \/ StartingConfigurations)
FlagStep == wizard = "flag" /\ step = 0 /\ (Naming \/ TypeChange \/ TypedValues)
SegmentStep == wizard = "segment" /\ ((step = 0 /\ Naming) \/ (step = 1 /\ Conditions))

Type ==
  /\ stage \in {"edited", "leaving"}
  /\ EnvironmentStep \/ FlagStep \/ SegmentStep
  /\ reviewed' = (reviewed /\ Review(input') = Review(input))
  /\ UNCHANGED <<wizard, step, pending, loading, made, missed, stage>>

Show(next) ==
  /\ step' = next
  /\ reviewed' = (reviewed \/ next = LastStep)
  /\ SourceEffect

(* A later step can be reached only with a name and a key, the segment's last *)
(* one only with conditions that have values.                                *)
MayGoTo(next) ==
  /\ next > 0 => Errors \cap {"name", "key"} = {}
  /\ wizard = "segment" /\ next > 1 => "rules" \notin Errors

Continue ==
  /\ stage \in {"edited", "leaving"} /\ step < LastStep
  /\ MayGoTo(step + 1)
  /\ Show(step + 1)
  /\ UNCHANGED <<wizard, typed, pending, loaded, made, missed, stage>>

Back ==
  /\ stage \in {"edited", "leaving"} /\ step > 0
  /\ wizard # "segment" => MayGoTo(step - 1)
  /\ Show(step - 1)
  /\ UNCHANGED <<wizard, typed, pending, loaded, made, missed, stage>>

(* "Creation only ever happens from the last step", whatever submits the form. *)
OnLastStep_Mutant == TRUE  \* an implicit submission creates, too
OnLastStep == step = LastStep

(* What does not validate goes back to the step that is to be mended.         *)
Create ==
  /\ stage \in {"edited", "leaving"} /\ ~pending /\ made < MaxMade
  /\ OnLastStep
  /\ IF Errors = {}
       THEN pending' = TRUE /\ UNCHANGED <<step, reviewed, asked>>
       ELSE Show(IF Errors = {"rules"} THEN 1 ELSE 0) /\ UNCHANGED pending
  /\ UNCHANGED <<wizard, typed, loaded, made, missed, stage>>

(* The environment's form is unlocked before it is left; the flag's is not;    *)
(* the segment's says that it is done.                                       *)
Succeeded ==
  /\ pending' = (wizard = "flag")
  /\ stage' = IF wizard = "segment" THEN "panel" ELSE "leaving"

(* Any failure unlocks it, one to hear of a success, too.                    *)
CreateAnswered ==
  /\ pending /\ stage \in {"edited", "leaving"}
  /\ wizard = "flag" => stage = "edited"
  /\ \/ made' = made + 1 /\ Succeeded /\ UNCHANGED <<step, asked, missed>>
     \/ /\ made' = made + 1 /\ missed' = missed + 1  \* the answer is lost
        /\ pending' = FALSE
        /\ UNCHANGED <<step, asked, stage>>
     \/ /\ pending' = FALSE  \* the key is taken
        /\ step' = IF wizard = "environment" THEN step ELSE 0
        /\ SourceEffect
        /\ UNCHANGED <<made, missed, stage>>
     \/ pending' = FALSE /\ UNCHANGED <<step, asked, made, missed, stage>>
  /\ UNCHANGED <<wizard, typed, loaded, reviewed>>

(* "Create another": everything is reset but what was loaded.                 *)
CreateAnother ==
  /\ stage = "panel" /\ made < MaxMade
  /\ stage' = "edited" /\ step' = 0 /\ editedKey' = FALSE
  /\ input' = [name |-> "", key |-> "", rules |-> <<NewRule>>]
  /\ reviewed' = FALSE
  /\ UNCHANGED <<wizard, pending, loading, made, missed>>

(* The page that a success has asked for replaces the form.                   *)
LeaveForm ==
  /\ stage = "leaving" /\ stage' = "left"
  /\ UNCHANGED <<wizard, step, typed, pending, loading, reviewed, made, missed>>

--------------------------------------------------------------------------------
CreationNext ==
  \/ Type \/ SourceLoads \/ Continue \/ Back \/ Create \/ CreateAnswered \/ CreateAnother
  \/ LeaveForm

CreationSpec == CreationInit /\ [][CreationNext]_creationVars

(* fetch settles.                                                            *)
CreationFairness == WF_creationVars(SourceLoads)

--------------------------------------------------------------------------------
(* Properties *)

(* "Even an implicit submission cannot create an environment from a step the  *)
(* user has not confirmed": what is sent is what the last step showed, with    *)
(* operators that its attributes' types have, and the flag's form, which a    *)
(* success does not unlock, creates a second one only when it was not told of *)
(* the first.                                                                *)
CreatedAsReviewed ==
  [][/\ pending' /\ ~pending =>
          /\ reviewed
          /\ wizard = "segment" => \A k \in DOMAIN input.rules :
               input.rules[k].operator \in ToSet(Operators(input.rules[k].attribute))
     /\ wizard = "flag" => made' <= missed' + 1]_creationVars

(* Refuted: an answer may be lost, and the key be changed before the retry.    *)
OneFlagAForm == wizard = "flag" => made <= 1

(* The flags to be copied are listed, or an error is shown, unless the step is *)
(* left: whichever step the user went to, and came back from, meanwhile.      *)
SourceListComesUp ==
  LET Waiting == /\ wizard = "environment" /\ step = 1 /\ input.copies
                 /\ ~Listed /\ stage # "left"
  IN  []<>~Waiting
================================================================================
