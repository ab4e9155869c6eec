--------------------------- MODULE SnapshotManager ---------------------------
(***************************************************************************)
(* Snapshots of the registered components                                  *)
(* (common/pkg/snapshot/snapshot.go).  TakeSnapshot holds Manager.mu while *)
(* it asks one component after the other, but the components, which have   *)
(* locks of their own, go on changing.  RestoreSnapshot holds it only to   *)
(* look the snapshot up: restores, takes and deletions overlap from there. *)
(***************************************************************************)
EXTENDS Integers, Maps

CONSTANTS
    ComponentNames,  \* names of components
    States,          \* states a component can be in
    Restores,        \* slots for RestoreSnapshot calls
    MaxSnapshots     \* bound: snapshots taken

VARIABLES
    components,   \* Manager.components: name -> the component's own state
    snapshots,    \* Manager.snapshots
    snapCounter,  \* Manager.counter
    taking,       \* the TakeSnapshot call that holds Manager.mu, if any
    restores      \* RestoreSnapshot calls

snapshotVars == <<components, snapshots, snapCounter, taking, restores>>

-----------------------------------------------------------------------------
\* The states of some components.
Saved == UNION {[N -> States] : N \in SUBSET ComponentNames}

\* A snapshot: the data, and as history the components' states when the call
\* began and whether none of them changed until it ended.
Snapshot == [data : Saved, was : Saved, quiet : BOOLEAN]

\* A RestoreSnapshot call: the snapshot it has looked up, the components it
\* has still to restore, and as history the states it has found and whether
\* it alone has changed them since.
RestoreCall == [snap : Snapshot, left : SUBSET ComponentNames, from : Saved,
                quiet : BOOLEAN, result : {"running", "failed", "restored"}]

SnapshotInit ==
    /\ components = EmptyMap
    /\ snapshots = EmptyMap
    /\ snapCounter = 0
    /\ taking = {}
    /\ restores = EmptyMap

Register(name, state) ==
    /\ taking = {}
    /\ name \notin DOMAIN components
    /\ components' = Put(components, name, state)
    /\ UNCHANGED <<snapshots, snapCounter, taking, restores>>

\* The calls that look on while a component's state becomes another one.
Disturbed(calls) == {[t EXCEPT !.quiet = FALSE] : t \in calls}

\* A component changes by requests of its own.
ChangeComponent(name, state) ==
    /\ name \in DOMAIN components
    /\ components' = [components EXCEPT ![name] = state]
    /\ taking' = Disturbed(taking)
    /\ restores' = [r \in DOMAIN restores |->
                       [restores[r] EXCEPT !.quiet = FALSE]]
    /\ UNCHANGED <<snapshots, snapCounter>>

-----------------------------------------------------------------------------
(* TakeSnapshot.                                                           *)

TakeSnapshot ==
    /\ taking = {}
    /\ snapCounter < MaxSnapshots
    /\ snapCounter' = snapCounter + 1
    /\ taking' = {[data |-> EmptyMap, was |-> components, quiet |-> TRUE]}
    /\ UNCHANGED <<components, snapshots, restores>>

SnapshotComponent(name) ==
    /\ name \in DOMAIN components
    /\ \E t \in taking :
          /\ name \notin DOMAIN t.data
          /\ taking' = {[t EXCEPT !.data = Put(@, name, components[name])]}
    /\ UNCHANGED <<components, snapshots, snapCounter, restores>>

\* SnapshotState returns an error: the number is spent, nothing is kept.
SnapshotFails ==
    /\ \E t \in taking : DOMAIN t.data # DOMAIN components
    /\ taking' = {}
    /\ UNCHANGED <<components, snapshots, snapCounter, restores>>

\* Mutant: keeps what it has when a component has failed.
SnapshotTakenSoFar ==
    /\ \E t \in taking :
          snapshots' = Put(snapshots, snapCounter, t)
    /\ taking' = {}
    /\ UNCHANGED <<components, snapCounter, restores>>

SnapshotTaken ==
    /\ \E t \in taking :
          /\ DOMAIN t.data = DOMAIN components
          /\ snapshots' = Put(snapshots, snapCounter, t)
    /\ taking' = {}
    /\ UNCHANGED <<components, snapCounter, restores>>

DeleteSnapshot(id) ==
    /\ taking = {}
    /\ id \in DOMAIN snapshots
    /\ snapshots' = Drop(snapshots, id)
    /\ UNCHANGED <<components, snapCounter, taking, restores>>

-----------------------------------------------------------------------------
(* RestoreSnapshot.                                                        *)

RestoreSnapshot(r, id) ==
    /\ taking = {}
    /\ r \notin DOMAIN restores
    /\ id \in DOMAIN snapshots
    /\ restores' = Put(restores, r,
                       [snap |-> snapshots[id], left |-> DOMAIN snapshots[id].data,
                        from |-> components, quiet |-> TRUE, result |-> "running"])
    /\ UNCHANGED <<components, snapshots, snapCounter, taking>>

\* Mutant: restores one component under the name of another.
RestoreComponentMixed(r, name) ==
    /\ r \in DOMAIN restores /\ restores[r].result = "running"
    /\ name \in restores[r].left
    /\ \E other \in DOMAIN restores[r].snap.data :
          components' = [components EXCEPT ![name] = restores[r].snap.data[other]]
    /\ taking' = Disturbed(taking)
    /\ restores' = [q \in DOMAIN restores |->
                       IF q = r THEN [restores[q] EXCEPT !.left = @ \ {name}]
                       ELSE [restores[q] EXCEPT !.quiet = FALSE]]
    /\ UNCHANGED <<snapshots, snapCounter>>

RestoreComponent(r, name) ==
    /\ r \in DOMAIN restores /\ restores[r].result = "running"
    /\ name \in restores[r].left
    /\ components' = [components EXCEPT ![name] = restores[r].snap.data[name]]
    /\ taking' = Disturbed(taking)
    /\ restores' = [q \in DOMAIN restores |->
                       IF q = r THEN [restores[q] EXCEPT !.left = @ \ {name}]
                       ELSE [restores[q] EXCEPT !.quiet = FALSE]]
    /\ UNCHANGED <<snapshots, snapCounter>>

\* RestoreState returns an error: the rest is not restored.
RestoreFails(r) ==
    /\ r \in DOMAIN restores /\ restores[r].result = "running"
    /\ restores[r].left # {}
    /\ restores' = [restores EXCEPT ![r].result = "failed"]
    /\ UNCHANGED <<components, snapshots, snapCounter, taking>>

Restored(r) ==
    /\ r \in DOMAIN restores /\ restores[r].result = "running"
    /\ restores[r].left = {}
    /\ restores' = [restores EXCEPT ![r].result = "restored"]
    /\ UNCHANGED <<components, snapshots, snapCounter, taking>>

\* The client has its reply.
RestoreOver(r) ==
    /\ r \in DOMAIN restores /\ restores[r].result # "running"
    /\ restores' = Drop(restores, r)
    /\ UNCHANGED <<components, snapshots, snapCounter, taking>>

SnapshotNext ==
    \/ \E name \in ComponentNames, state \in States :
           Register(name, state) \/ ChangeComponent(name, state)
    \/ TakeSnapshot \/ SnapshotFails \/ SnapshotTaken
    \/ \E name \in ComponentNames : SnapshotComponent(name)
    \/ \E id \in DOMAIN snapshots : DeleteSnapshot(id)
    \/ \E r \in Restores :
        \/ \E id \in DOMAIN snapshots : RestoreSnapshot(r, id)
        \/ \E name \in ComponentNames : RestoreComponent(r, name)
        \/ RestoreFails(r) \/ Restored(r) \/ RestoreOver(r)

SnapshotSpec == SnapshotInit /\ [][SnapshotNext]_snapshotVars

-----------------------------------------------------------------------------
(* Properties.                                                             *)

\* The components, the snapshots and the calls are well formed.
SnapshotTypeOK ==
    /\ IsMap(components, ComponentNames, States)
    /\ IsMap(snapshots, 1..snapCounter, Snapshot)
    /\ snapCounter \in Nat
    /\ taking \subseteq Snapshot
    /\ IsMap(restores, Restores, RestoreCall)

\* A snapshot that is kept is whole: it has every component that was
\* registered when it was taken, and, if none changed meanwhile, all of their
\* states, although the take may have failed at any component, and others
\* were taken, restored or deleted around it.
SnapshotsWhole ==
    \A id \in DOMAIN snapshots :
        /\ DOMAIN snapshots[id].data = DOMAIN snapshots[id].was
        /\ snapshots[id].quiet => snapshots[id].data = snapshots[id].was

\* A restore that nothing disturbs has brought back exactly the components it
\* is past and left the others alone, also when it stops at an error and when
\* the snapshot is deleted under it; once it reports success every component
\* of the snapshot is back in the state it was taken in.
RestoresExact ==
    \A r \in DOMAIN restores :
        LET call == restores[r]
            back == DOMAIN call.snap.data \ call.left
        IN call.quiet =>
              /\ \A name \in DOMAIN call.from :
                    components[name] = IF name \in back
                                       THEN call.snap.data[name]
                                       ELSE call.from[name]
              /\ (call.result = "restored" /\ call.snap.quiet) =>
                    \A name \in DOMAIN call.snap.was :
                        components[name] = call.snap.was[name]
=============================================================================
