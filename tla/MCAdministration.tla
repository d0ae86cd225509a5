---------------------------- MODULE MCAdministration ----------------------------
(* Small instances of Administration for TLC. *)
EXTENDS Administration

AllAreas == {MemberCalls \cup {"updateSegment"}, SegmentCalls,
             {"createProject", "updateProject"}, WorkspaceCalls, PreferenceCalls}
================================================================================
