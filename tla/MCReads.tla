--------------------------------- MODULE MCReads ---------------------------------
(* Small instances of SnapshotRead, of Paging and of SdkClient for TLC. A       *)
(* behaviour is one of the first, one of the second or one of the third, which *)
(* share nothing: the variables of those that do not take place rest.        *)
EXTENDS SdkClient, SnapshotRead, Paging

Parts == {{"config"}, {"rules"}, {"config", "rules", "targets"}}

NoList == /\ list = <<>> /\ rows = {} /\ gone = {} /\ cursor = Start /\ collected = <<>>
          /\ kept = {} /\ loader = "done"

NoReads == /\ history = <<>> /\ kind = [r \in Readers |-> "copy"]
           /\ plan = [r \in Readers |-> <<{}>>]
           /\ seen = [r \in Readers |-> [t \in Tables |-> Unread]]

NoClient == /\ server = None /\ snapshot = None /\ etag = None /\ timer = None
            /\ closed = FALSE /\ flow = [f \in Flows |-> Idle]

ReadsInit == \/ Init /\ NoReads /\ NoList
             \/ NoClient /\ ReadersInit /\ NoList
             \/ NoClient /\ NoReads /\ PagingInit

ReadsNext == \/ server # None /\ Next /\ UNCHANGED <<readerVars, pagingVars>>
             \/ history # <<>> /\ ReadersNext /\ UNCHANGED <<vars, pagingVars>>
             \/ list # <<>> /\ PagingNext /\ UNCHANGED <<vars, readerVars>>

ReadsSpec == ReadsInit /\ [][ReadsNext]_<<vars, readerVars, pagingVars>>

(* The fairness of SdkClient: timers fire, requests are answered or aborted.    *)
FairReadsSpec == ReadsSpec /\ \A f \in Flows : WF_vars(Run(f))
================================================================================
