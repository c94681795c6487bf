---------------------------- MODULE OutboundLane ----------------------------
(***************************************************************************)
(* The outbound end of a message lane, kept by the chain that sends.       *)
(* bridges/modules/messages/src/outbound_lane.rs, with OutboundLaneData of *)
(* bridges/primitives/messages/src/lib.rs.                                 *)
(*                                                                         *)
(* Lane data is a record.  The message storage map is a function from the  *)
(* nonces that are stored to their payloads.  A method of OutboundLane is  *)
(* an operator from the old values to the new ones.                        *)
(***************************************************************************)
EXTENDS Naturals, Sequences, UnrewardedRelayers

LaneStates == {"Opened", "Closed"}

OutboundLaneData ==
  [oldest_unpruned_nonce : Nat, latest_received_nonce : Nat,
   latest_generated_nonce : Nat, state : LaneStates]

\* OutboundLaneData::opened: the data of a lane that was just created.
OpenedOutbound ==
  [oldest_unpruned_nonce |-> 1, latest_received_nonce |-> 0,
   latest_generated_nonce |-> 0, state |-> "Opened"]

\* OutboundLaneData::queued_messages: sent, and not known to be delivered.
undelivered_messages(data) ==
  (data.latest_received_nonce + 1) .. data.latest_generated_nonce

\* OutboundLane::queued_messages: sent, and not pruned by closing the lane.
queued_messages(data) ==
  data.oldest_unpruned_nonce .. data.latest_generated_nonce

\* save_message and remove_message of the storage map.
save_message(messages, nonce, payload) ==
  [n \in DOMAIN messages \cup {nonce} |->
     IF n = nonce THEN payload ELSE messages[n]]

remove_messages(messages, nonces) ==
  [n \in DOMAIN messages \ nonces |-> messages[n]]

\* OutboundLane::send_message, the part that changes the lane data.
send_message(data) ==
  [data EXCEPT !.latest_generated_nonce = @ + 1]

\* Fault: the first confirmed message is skipped.
confirmed_messages_short(data, latest_delivered) ==
  (data.latest_received_nonce + 2) .. latest_delivered

\* The range of messages a confirmation up to latest_delivered brings.
confirmed_messages(data, latest_delivered) ==
  (data.latest_received_nonce + 1) .. latest_delivered

\* Verifies the unrewarded relayers of the proof: every entry is non-empty,
\* begins where the one before it ended, and ends at a delivered message.
ensure_unrewarded_relayers_are_correct(latest_received, relayers) ==
  \A i \in 1 .. Len(relayers) :
     /\ relayers[i].begin <= relayers[i].end
     /\ i > 1 => relayers[i].begin = relayers[i - 1].end + 1
     /\ relayers[i].end <= latest_received

\* What OutboundLane::confirm_delivery returns: "Nothing" is Ok(None),
\* "Confirmed" is Ok(Some(_)), the others are errors, tested in this order.
confirm_delivery_result(data, max_allowed, latest_delivered, relayers) ==
  IF latest_delivered <= data.latest_received_nonce THEN "Nothing"
  ELSE IF latest_delivered > data.latest_generated_nonce
    THEN "FailedToConfirmFutureMessages"
  ELSE IF latest_delivered - data.latest_received_nonce > max_allowed
    THEN "TryingToConfirmMoreMessagesThanExpected"
  ELSE IF ~ ensure_unrewarded_relayers_are_correct(latest_delivered, relayers)
    THEN "InvalidUnrewardedRelayers"
  ELSE "Confirmed"

\* The lane data after a successful confirm_delivery.
confirm_delivery(data, latest_delivered) ==
  [data EXCEPT !.latest_received_nonce = latest_delivered,
               !.oldest_unpruned_nonce = latest_delivered + 1]

\* count calls of remove_oldest_unpruned_message, the lane data.
prune_oldest(data, count) ==
  [data EXCEPT !.oldest_unpruned_nonce = @ + count]
=============================================================================
