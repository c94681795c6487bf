---------------------------- MODULE MCRelayedLane ----------------------------
(***************************************************************************)
(* RelayedLane for TLC.                                                    *)
(***************************************************************************)
EXTENDS RelayedLane, TLC

Symmetry == Permutations(Relayers)
=============================================================================
