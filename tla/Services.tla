------------------------------ MODULE Services ------------------------------
(***************************************************************************)
(* The services that keep their state to themselves, side by side in one   *)
(* process: a step is a step of any of them, and no two share a variable.  *)
(***************************************************************************)
EXTENDS NetboxSim, FaultEngine, EventLog, SnapshotManager, OvnClusters,
        LoadGen, Datagen

vars == <<netboxVars, faultVars, eventVars, snapshotVars, ovnVars, loadgenVars,
          datagenVars>>

-----------------------------------------------------------------------------
Init ==
    /\ NetboxInit /\ FaultInit /\ EventInit /\ SnapshotInit
    /\ OvnInit /\ LoadgenInit /\ DatagenInit

NetboxStep ==
    /\ NetboxNext
    /\ UNCHANGED <<faultVars, eventVars, snapshotVars, ovnVars,
                   loadgenVars, datagenVars>>

FaultStep ==
    /\ FaultNext
    /\ UNCHANGED <<netboxVars, eventVars, snapshotVars, ovnVars,
                   loadgenVars, datagenVars>>

EventStep ==
    /\ EventNext
    /\ UNCHANGED <<netboxVars, faultVars, snapshotVars, ovnVars,
                   loadgenVars, datagenVars>>

SnapshotStep ==
    /\ SnapshotNext
    /\ UNCHANGED <<netboxVars, faultVars, eventVars, ovnVars,
                   loadgenVars, datagenVars>>

OvnStep ==
    /\ OvnNext
    /\ UNCHANGED <<netboxVars, faultVars, eventVars, snapshotVars,
                   loadgenVars, datagenVars>>

LoadgenStep ==
    /\ LoadgenNext
    /\ UNCHANGED <<netboxVars, faultVars, eventVars, snapshotVars,
                   ovnVars, datagenVars>>

DatagenStep ==
    /\ DatagenNext
    /\ UNCHANGED <<netboxVars, faultVars, eventVars, snapshotVars,
                   ovnVars, loadgenVars>>

Next ==
    \/ NetboxStep \/ FaultStep \/ EventStep \/ SnapshotStep \/ OvnStep
    \/ LoadgenStep \/ DatagenStep

Spec == Init /\ [][Next]_vars /\ OvnFairness /\ LoadgenFairness

-----------------------------------------------------------------------------
\* The state of every service is well formed, and the log in order.
TypeOK ==
    /\ NetboxTypeOK /\ FaultTypeOK /\ LogOrdered /\ SnapshotTypeOK
    /\ OvnTypeOK /\ LoadgenTypeOK
=============================================================================
