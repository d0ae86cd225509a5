---------------------------- MODULE MCChangeRequests ----------------------------
(* Small instances of ChangeRequests for TLC. *)
EXTENDS ChangeRequests, TLC

EveryOperation == {"propose", "approve", "reject", "publish", "settings", "roles"}
TwoParts == {{"config", "rules"}}
ViewerOrAdmin == {"viewer", "admin"}

CallSymmetry == Permutations(Calls)
================================================================================
