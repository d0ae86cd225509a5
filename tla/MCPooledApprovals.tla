---------------------------- MODULE MCPooledApprovals ----------------------------
(* A small instance of PooledApprovals for TLC. *)
EXTENDS PooledApprovals

AllButPublishes == {"propose", "approve", "reject", "settings", "roles"}
SinglePart == {{"config"}}
ViewerOrAdmin == {"viewer", "admin"}
================================================================================
