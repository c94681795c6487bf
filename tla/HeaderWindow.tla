---------------------------- MODULE HeaderWindow ----------------------------
(***************************************************************************)
(* What a light client promises to the pallets that verify proofs against  *)
(* it: the headers it can be asked about are the Size most recently        *)
(* imported ones, and the newest of them is the best.  MessageLane uses    *)
(* its light clients in this form.                                         *)
(***************************************************************************)
EXTENDS Naturals, Sequences

CONSTANTS
  Headers,  \* headers that may be imported
  Size      \* how many are kept

VARIABLES
  window,    \* the kept headers, oldest first
  provable,  \* the headers that proofs are verified against
  best       \* the best header, or 0

vars == << window, provable, best >>

Init == window = << >> /\ provable = {} /\ best = 0

Import(header) ==
  /\ window' = Append(IF Len(window) < Size THEN window ELSE Tail(window), header)
  /\ provable' = {window'[i] : i \in 1 .. Len(window')}
  /\ best' = header

Next == \E header \in Headers : Import(header)

Spec == Init /\ [][Next]_vars
=============================================================================
