---------------------------- MODULE MCMessageLane ----------------------------
(***************************************************************************)
(* MessageLane for TLC.                                                    *)
(***************************************************************************)
EXTENDS MessageLane, TLC

Symmetry == Permutations(Relayers) \cup Permutations(Payloads)

\* Messages sent one after the other have different payloads, so that with two
\* payloads a message that takes the place of its neighbour is noticed.
NeighboursDiffer ==
  \A n \in 1 .. Len(sent) - 1 : sent[n] # sent[n + 1]
=============================================================================
