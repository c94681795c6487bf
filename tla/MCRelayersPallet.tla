-------------------------- MODULE MCRelayersPallet --------------------------
(***************************************************************************)
(* RelayersPallet for TLC.                                                 *)
(***************************************************************************)
EXTENDS RelayersPallet, TLC

Symmetry == Permutations(Relayers)
=============================================================================
