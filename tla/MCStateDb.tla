------------------------------ MODULE MCStateDb ------------------------------
(* A small block tree for StateDb. *)
EXTENDS StateDb, TLC

CONSTANTS g, a1, c1, d2, f2, e3

Outside == "outside"

MCParent ==
  (g :> Outside) @@ (a1 :> g) @@ (c1 :> g) @@ (d2 :> c1) @@ (f2 :> c1) @@ (e3 :> d2)

MCNumber == (g :> 0) @@ (a1 :> 1) @@ (c1 :> 1) @@ (d2 :> 2) @@ (f2 :> 2) @@ (e3 :> 3)

(* Node 1 leaves with c1 and comes back with d2 or f2, node 2 leaves with  *)
(* d2 and comes back with e3, a1 keeps node 3, which c1 deletes, both      *)
(* insert node 2, and c1 alone node 4.  The root of a block belongs to its *)
(* state only.                                                             *)
Shared ==
  (g :> {1, 3}) @@ (a1 :> {2, 3}) @@ (c1 :> {2, 4}) @@ (d2 :> {1, 4})
    @@ (f2 :> {1, 2}) @@ (e3 :> {2, 4})

MCKeys == 1 .. 4 \cup Hashes

MCState == [h \in Hashes |-> Shared[h] \cup {h}]

(* The overlay does not look at `counting'. *)
MCStarts == {<<g, TRUE>>, <<c1, TRUE>>, <<c1, FALSE>>}
=============================================================================
