------------------------------ MODULE MCPublishing ------------------------------
(* Small instances of Publishing for TLC. *)
EXTENDS Publishing, TLC

PairedParts == {{"targets"}, {"config", "rules"}, {"rules", "targets"}}
RulesOnly == {{"rules"}}
OverlappingRules == {{"r1", "r2"}, {"r2"}}
OneTarget == {{"u1"}}

CallSymmetry == Permutations(Calls)
================================================================================
