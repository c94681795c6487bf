---------------------------- MODULE MCXcmpQueue ----------------------------
(* Small instances of XcmpQueue. *)
EXTENDS XcmpQueue

CONSTANTS hub, x, y

(* The hub sends to two chains; only x has a channel back for its signals, *)
(* and y never needs one.                                                  *)
Spokes == {<<hub, x>>, <<hub, y>>}
SpokesAndBack == Spokes \cup {<<x, hub>>}
SpokesHeavy == {<<hub, y>>}
SpokesOutstanding == (<<hub, x>> :> 4) @@ (<<hub, y>> :> 1)

(* Two chains that send to each other. *)
TwoWay == {<<x, y>>, <<y, x>>}
TwoWayOutstanding == [ch \in TwoWay |-> 3]

(* Two chains that send to the hub. *)
Inward == {<<x, hub>>, <<y, hub>>}
InwardAndBack == Inward \cup Spokes
InwardOutstanding == [ch \in Inward |-> 2]
=============================================================================
