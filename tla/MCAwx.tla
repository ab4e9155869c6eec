-------------------------------- MODULE MCAwx --------------------------------
(* Values of AwxSim's constants for TLC.                                    *)
EXTENDS AwxSim

CONSTANTS g1, g2
=============================================================================
