----------------------------- MODULE MCFlagConfigs ------------------------------
(* Small instances of FlagConfigs for TLC. *)
EXTENDS FlagConfigs, TLC

CONSTANTS checkout, search, production, staging, preview

BothFlags == {checkout, search}
Checkout == {checkout}
Search == {search}
Production == {production}
Three == {production, staging, preview}

Creations == {"createFlag", "createEnvironment", "unarchive"}
CreateBoth == {"createFlag", "createEnvironment"}
Edits == {"addVariation", "removeVariation", "publish", "createEnvironment"}

Everything == Creations \cup Edits

CallSymmetry == Permutations(Calls)
================================================================================
