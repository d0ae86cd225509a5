------------------------- MODULE MCEnvironmentLifecycle -------------------------
(* Small instances of EnvironmentLifecycle for TLC. *)
EXTENDS EnvironmentLifecycle

CONSTANTS development, production, staging, k1, k2, k3

InKeyOrder == <<development, production, staging>>
TwoStarters == {development, production}

OneKeyEach == k1 :> development @@ k2 :> Everywhere
NoKeys == <<>>

ArchiveOnly == {"archive"}
EnvironmentCalls == {"create", "archive", "unarchive"}
Everything == EnvironmentCalls \cup {"createKey", "revoke", "rotate"}

CallSymmetry == Permutations(Calls)
================================================================================
