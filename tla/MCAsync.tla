------------------------------- MODULE MCAsync -------------------------------
(***************************************************************************)
(* The simulators that answer first and do the work later, for TLC:        *)
(* awx-sim with its timers and storage-sim with its goroutines.  They      *)
(* share no variable, so a behaviour explores the one it has picked at the *)
(* start, while the other stands still.                                    *)
(***************************************************************************)
EXTENDS MCAwx

VARIABLE simulator   \* the simulator whose requests are explored

\* The variables of storage-sim.
VARIABLES backends, volumes, snapshots, operations, migrations, opCounter,
          flatteners, movers, stale

storageVars == <<backends, volumes, snapshots, operations, migrations,
                 opCounter, flatteners, movers, stale>>

\* One operation between resets: a goroutine of before a reset meets a new
\* one under its number.
Storage == INSTANCE StorageSim WITH
    Backends <- {"b1"}, Volumes <- {"v1", "v2"}, Snapshots <- {"s1"},
    NoSnapshot <- "none", Goroutines <- {g1, g2}, Totals <- {2},
    Ratios <- {0}, Sizes <- {1}, Thins <- {TRUE}, StateInputs <- {},
    Steps <- 1, MaxOps <- 1, MaxListed <- 1

-----------------------------------------------------------------------------
AsyncInit ==
    /\ Init /\ Storage!Init
    /\ simulator \in {"awx", "storage"}

AsyncNext ==
    \/ simulator = "awx" /\ Next /\ UNCHANGED <<storageVars, simulator>>
    \/ simulator = "storage" /\ Storage!Next /\ UNCHANGED <<vars, simulator>>

\* A simulator that stands still has nothing to be fair about.
AsyncSpec ==
    /\ AsyncInit /\ [][AsyncNext]_<<simulator, vars, storageVars>>
    /\ Fairness /\ Storage!Fairness

-----------------------------------------------------------------------------
\* Under fair scheduling of the goroutines every flatten and every migration
\* of storage-sim ends, or loses its record to a reset.
EverythingEnds == Storage!EverythingEnds
=============================================================================
