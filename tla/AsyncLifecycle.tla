--------------------------- MODULE AsyncLifecycle ---------------------------
(***************************************************************************)
(* What a simulator promises about its asynchronous jobs: a job appears in *)
(* its initial state, moves only along the documented edges, never leaves  *)
(* a terminal state, and, in LiveSpec, reaches one unless the simulator is *)
(* reset first.                                                            *)
(***************************************************************************)
CONSTANTS
    Ids,       \* job ids
    Absent,    \* the state of an id that names no job
    Initial,   \* the state in which a job appears
    Edges      \* the documented transitions, as pairs of states

VARIABLE st    \* the state a client reads for each id

Init == st = [i \in Ids |-> Absent]

Start(i) ==
    /\ st[i] = Absent
    /\ st' = [st EXCEPT ![i] = Initial]

Advance(i) ==
    \E e \in Edges :
        /\ e[1] = st[i]
        /\ st' = [st EXCEPT ![i] = e[2]]

Clear == st' = [i \in Ids |-> Absent]

Next == Clear \/ \E i \in Ids : Start(i) \/ Advance(i)

Spec == Init /\ [][Next]_st

LiveSpec == Spec /\ \A i \in Ids : WF_st(Advance(i))
=============================================================================
