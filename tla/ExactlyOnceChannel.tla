------------------------- MODULE ExactlyOnceChannel -------------------------
(***************************************************************************)
(* What a message lane promises, without chains, headers or relayers: a    *)
(* first-in first-out channel that neither loses, repeats nor reorders a   *)
(* message, whose receiver is never more than Window messages ahead of     *)
(* what the sender has seen confirmed.                                     *)
(***************************************************************************)
EXTENDS Naturals, Sequences

CONSTANTS Payloads, Window

VARIABLES
  sent,      \* payloads, in the order they were sent
  received,  \* payloads, in the order they were received
  confirmed  \* how many messages the sender knows to be received

vars == << sent, received, confirmed >>

Init == sent = << >> /\ received = << >> /\ confirmed = 0

Send ==
  /\ \E payload \in Payloads : sent' = Append(sent, payload)
  /\ UNCHANGED << received, confirmed >>

\* The next messages, one or more, are received together.
Receive ==
  /\ \E n \in (Len(received) + 1) .. Len(sent) :
       /\ n <= confirmed + Window
       /\ received' = [i \in 1 .. n |-> sent[i]]
  /\ UNCHANGED << sent, confirmed >>

\* The sender learns of some or all messages that were received.
Confirm ==
  /\ confirmed' \in (confirmed + 1) .. Len(received)
  /\ UNCHANGED << sent, received >>

Next == Send \/ Receive \/ Confirm

Spec == Init /\ [][Next]_vars
=============================================================================
