------------------------------ MODULE MCEvaluation ------------------------------
(* A small instance of Evaluation for TLC. *)
EXTENDS Evaluation

OneCondition == {[operator |-> "not_equals", values |-> <<"pro">>]}

Lists == {<<>>, <<"2">>, <<"pro">>, <<"1", "pro">>, <<"12", "2">>}
================================================================================
