------------------------- MODULE UnrewardedRelayers -------------------------
(***************************************************************************)
(* The queue of unrewarded relayers: who delivered which messages to the   *)
(* target chain and was not yet reported rewarded by the source chain.     *)
(* UnrewardedRelayer and DeliveredMessages of                              *)
(* bridges/primitives/messages/src/lib.rs.                                 *)
(***************************************************************************)
EXTENDS Naturals, Sequences

\* One entry: a relayer and the inclusive range of nonces it delivered.
UnrewardedRelayer(Relayers) ==
  [relayer : Relayers, begin : Nat, end : Nat]

\* The nonces of an entry.
EntryNonces(entry) == entry.begin .. entry.end

\* Consecutive, non-empty entries that cover exactly (low, high].
Covers(relayers, low, high) ==
  /\ \A i \in 1 .. Len(relayers) :
       /\ relayers[i].begin <= relayers[i].end
       /\ relayers[i].begin =
            IF i = 1 THEN low + 1 ELSE relayers[i - 1].end + 1
  /\ high = IF relayers = << >> THEN low ELSE relayers[Len(relayers)].end

\* Entries are in order of their nonces.  It follows from Covers by induction;
\* kept as a part of the invariant it needs none.
Ordered(relayers) ==
  \A i, j \in 1 .. Len(relayers) : i < j => relayers[i].end < relayers[j].begin

\* The queue attributes each message to the relayer that delivered it and
\* gives no relayer two neighbouring entries.
Attributed(relayers, dispatched) ==
  /\ \A i \in 1 .. Len(relayers) : \A n \in EntryNonces(relayers[i]) :
       dispatched[n].relayer = relayers[i].relayer
  /\ \A i \in 2 .. Len(relayers) : relayers[i].relayer # relayers[i - 1].relayer
=============================================================================
