------------------------------ MODULE BridgeHub ------------------------------
(***************************************************************************)
(* The life of bridges at one bridge hub: the pallet                       *)
(* bridges/modules/xcm-bridge-hub on top of the lanes of the messages      *)
(* pallet.  A bridge of the local origin chain is opened with a deposit,   *)
(* exports messages to its outbound lane, tells the origin to suspend and  *)
(* resume as the lane fills and drains, and is closed by calls that each   *)
(* prune some of the queued messages until nothing is left.                *)
(*                                                                         *)
(* The other hub is represented by how far it has delivered each outbound  *)
(* lane.  The lanes' own protocol is module MessageLane, which shows that  *)
(* the proofs of real states never fail to be confirmed, and the halted    *)
(* modes of the messages pallet, which only refuse calls.  A lane that is  *)
(* opened again starts at the other side again too: the pallet leaves that *)
(* coordination to the connected chains.                                   *)
(***************************************************************************)
EXTENDS Integers, FiniteSets, OutboundLane

CONSTANTS
  BridgeIds,
  LaneIds,
  Deposits,              \* values BridgeDeposit may take; 0 for origins that
                         \* AllowWithoutBridgeDeposit contains
  Balance,               \* what the origin's account holds at the start
  CongestedThreshold,    \* OUTBOUND_LANE_CONGESTED_THRESHOLD
  UncongestedThreshold,  \* OUTBOUND_LANE_UNCONGESTED_THRESHOLD
  MaxGenerated           \* bound on the messages of a lane

ASSUME HubAssumption ==
  /\ Deposits \subseteq Nat
  /\ Balance \in Nat
  /\ CongestedThreshold \in Nat
  /\ UncongestedThreshold \in Nat
  /\ MaxGenerated \in Nat

VARIABLES
  signal_results,  \* the results suspend_bridge and resume_bridge may have
                   \* in this behaviour: only Ok, or any
  bridges,         \* Bridges: state, lane_id and deposit of each bridge
  lane_to_bridge,  \* LaneToBridge
  inbound,         \* InboundLanes: the state of each inbound lane
  outbound,        \* OutboundLanes
  messages,        \* keys of OutboundMessages
  free,            \* free balance of the origin's account
  held,            \* its funds on hold for BridgeDeposit
  congested,       \* is_congested of the channel with the origin
  told,            \* history: what the origin was last told about each bridge
                   \* since it was opened
  delivered        \* the last message of each lane the other hub delivered

vars == << signal_results, bridges, lane_to_bridge, inbound, outbound,
           messages, free, held, congested, told, delivered >>

Init ==
  /\ signal_results \in {{"Ok"}, {"Ok", "Err"}}
  /\ bridges = << >>
  /\ lane_to_bridge = << >>
  /\ inbound = << >>
  /\ outbound = << >>
  /\ messages = {}
  /\ free = Balance
  /\ held = 0
  /\ congested = FALSE
  /\ told = [b \in BridgeIds |-> "resume"]
  /\ delivered = [l \in LaneIds |-> 0]

\* StorageMap::insert and StorageMap::remove.
insert(map, key, value) ==
  [k \in DOMAIN map \cup {key} |-> IF k = key THEN value ELSE map[k]]

remove(map, key) == [k \in DOMAIN map \ {key} |-> map[k]]

-----------------------------------------------------------------------------
\* Currency::hold of the bridge deposit.
hold(deposit) ==
  /\ deposit <= free
  /\ held' = held + deposit
  /\ free' = free - deposit

\* open_bridge and do_open_bridge.  create_inbound_lane ends by checking that
\* the new lane is active, so the call fails while the origin is congested.
open_bridge(bridge_id, lane_id) ==
  /\ bridge_id \notin DOMAIN bridges
  /\ lane_id \notin DOMAIN lane_to_bridge
  /\ lane_id \notin DOMAIN inbound \cup DOMAIN outbound
  /\ ~ congested
  /\ \E deposit \in Deposits :
       /\ hold(deposit)
       /\ bridges' = insert(bridges, bridge_id,
            [state |-> "Opened", lane_id |-> lane_id, deposit |-> deposit])
  /\ lane_to_bridge' = insert(lane_to_bridge, lane_id, bridge_id)
  /\ inbound' = insert(inbound, lane_id, "Opened")
  /\ outbound' = insert(outbound, lane_id, OpenedOutbound)
  /\ delivered' = [delivered EXCEPT ![lane_id] = 0]
  /\ told' = [told EXCEPT ![bridge_id] = "resume"]
  /\ UNCHANGED << signal_results, messages, congested >>

is_congested(enqueued) == enqueued > CongestedThreshold

\* Fault: the bridge is suspended even if the origin could not be told.
suspended_state_anyway(bridge, result) == "Suspended"

\* The bridge is suspended only after the origin was told.
suspended_state(bridge, result) ==
  IF result = "Ok" THEN "Suspended" ELSE bridge.state

\* validate and deliver of ExportXcm: the message is sent over the lane, and
\* on_bridge_message_enqueued suspends a bridge that has become congested.
export(bridge_id) ==
  LET bridge  == bridges[bridge_id]
      lane_id == bridge.lane_id
      data    == send_message(outbound[lane_id])
  IN  /\ outbound[lane_id].state = "Opened"
      /\ outbound[lane_id].latest_generated_nonce < MaxGenerated
      /\ outbound' = [outbound EXCEPT ![lane_id] = data]
      /\ messages' = messages \cup {<< lane_id, data.latest_generated_nonce >>}
      /\ IF /\ is_congested(Cardinality(undelivered_messages(data)))
            /\ bridge.state # "Suspended"
         THEN \E result \in signal_results :
                /\ bridges' = [bridges EXCEPT ![bridge_id].state =
                                 suspended_state(bridge, result)]
                /\ told' = IF result = "Ok"
                           THEN [told EXCEPT ![bridge_id] = "suspend"] ELSE told
         ELSE UNCHANGED << bridges, told >>
      /\ UNCHANGED << signal_results, lane_to_bridge, inbound, free, held,
                      congested, delivered >>

\* Fault: the bridge is resumed only exactly at the threshold.
is_uncongested_exactly(enqueued) == enqueued = UncongestedThreshold

is_uncongested(enqueued) == enqueued <= UncongestedThreshold

\* Fault: a closed bridge is resumed as well.
may_resume_closed(bridge) == bridge.state # "Opened"

\* Only a suspended bridge is resumed.
may_resume(bridge) == bridge.state = "Suspended"

\* receive_messages_delivery_proof for the lane, in any state of it: what is
\* newly confirmed is pruned, and on_bridge_messages_delivered, which is called
\* even if nothing is, resumes a suspended bridge once the queue has drained.
confirm(lane_id, latest_delivered) ==
  LET confirmed == confirmed_messages(outbound[lane_id], latest_delivered)
      data      == IF confirmed = {} THEN outbound[lane_id]
                   ELSE confirm_delivery(outbound[lane_id], latest_delivered)
      bridge_id == lane_to_bridge[lane_id]
      resumes   == /\ is_uncongested(Cardinality(undelivered_messages(data)))
                   /\ may_resume(bridges[bridge_id])
  IN  /\ latest_delivered <= outbound[lane_id].latest_generated_nonce
      /\ messages' = messages \ ({lane_id} \X confirmed)
      /\ outbound' = [outbound EXCEPT ![lane_id] = data]
      /\ \/ /\ resumes
            /\ "Ok" \in signal_results
            /\ bridges' = [bridges EXCEPT ![bridge_id].state = "Opened"]
            /\ told' = [told EXCEPT ![bridge_id] = "resume"]
         \/ /\ ~ resumes \/ "Err" \in signal_results
            /\ UNCHANGED << bridges, told >>
      /\ UNCHANGED << signal_results, lane_to_bridge, inbound, free, held,
                      congested, delivered >>

\* Fault: the oldest message is left in the storage.
pruned_messages_short(data, count) ==
  (data.oldest_unpruned_nonce + 1) .. (data.oldest_unpruned_nonce + count - 1)

\* The messages that count calls of remove_oldest_unpruned_message remove.
pruned_messages(data, count) ==
  data.oldest_unpruned_nonce .. (data.oldest_unpruned_nonce + count - 1)

\* Fault: off by one, the queue never counts as empty.
is_pruned_strictly(data) ==
  data.oldest_unpruned_nonce > data.latest_generated_nonce + 1

is_pruned(data) == queued_messages(data) = {}

unmapped(map, lane_id) == remove(map, lane_id)

\* Fault: the deposit required now, the lowest so far, is released.
released_now(bridge) == CHOOSE d \in Deposits : \A e \in Deposits : d <= e

\* Currency::release of the deposit stored with the bridge, as far as held.
released(bridge) == IF bridge.deposit <= held THEN bridge.deposit ELSE held

\* close_bridge: the bridge is closed, up to may_prune messages are pruned,
\* and when none is left the lanes, the bridge and its deposit go.  The origin
\* of a suspended bridge is not told anything.
close_bridge(bridge_id, may_prune) ==
  LET bridge  == bridges[bridge_id]
      lane_id == bridge.lane_id
      queued  == Cardinality(queued_messages(outbound[lane_id]))
      count   == IF queued <= may_prune THEN queued ELSE may_prune
      data    == prune_oldest(outbound[lane_id], count)
  IN  /\ messages' = messages \ ({lane_id} \X pruned_messages(outbound[lane_id], count))
      /\ IF is_pruned(data)
         THEN /\ inbound' = remove(inbound, lane_id)
              /\ outbound' = remove(outbound, lane_id)
              /\ bridges' = remove(bridges, bridge_id)
              /\ lane_to_bridge' = unmapped(lane_to_bridge, lane_id)
              /\ held' = held - released(bridge)
              /\ free' = free + released(bridge)
         ELSE /\ inbound' = [inbound EXCEPT ![lane_id] = "Closed"]
              /\ outbound' = [outbound EXCEPT ![lane_id] =
                                [data EXCEPT !.state = "Closed"]]
              /\ bridges' = [bridges EXCEPT ![bridge_id].state = "Closed"]
              /\ UNCHANGED << lane_to_bridge, held, free >>
      /\ UNCHANGED << signal_results, congested, told, delivered >>

\* The other hub delivers the next message, from a header that may be older
\* than the pruning of the message.
RemoteDeliver(lane_id) ==
  /\ delivered[lane_id] < outbound[lane_id].latest_generated_nonce
  /\ delivered' = [delivered EXCEPT ![lane_id] = @ + 1]
  /\ UNCHANGED << signal_results, bridges, lane_to_bridge, inbound, outbound,
                  messages, free, held, congested, told >>

\* The channel with the origin fills or drains.
Congestion ==
  /\ congested' = ~ congested
  /\ UNCHANGED << signal_results, bridges, lane_to_bridge, inbound, outbound,
                  messages, free, held, told, delivered >>

Confirm(lane_id) ==
  \E latest_delivered \in 0 .. delivered[lane_id] : confirm(lane_id, latest_delivered)

Close(bridge_id) ==
  \E may_prune \in 0 .. MaxGenerated : close_bridge(bridge_id, may_prune)

Next ==
  \/ \E b \in BridgeIds, l \in LaneIds : open_bridge(b, l)
  \/ \E b \in DOMAIN bridges : export(b) \/ Close(b)
  \/ \E l \in DOMAIN outbound : Confirm(l) \/ RemoteDeliver(l)
  \/ Congestion

Spec == Init /\ [][Next]_vars

\* Relayers deliver and confirm, and the owner of a closed bridge keeps
\* calling close_bridge until it is gone.
Fairness ==
  /\ \A l \in LaneIds :
       /\ WF_vars(l \in DOMAIN outbound /\ RemoteDeliver(l))
       /\ WF_vars(/\ l \in DOMAIN outbound
                  /\ confirm(l, delivered[l]))
  /\ \A b \in BridgeIds :
       WF_vars(/\ b \in DOMAIN bridges
               /\ bridges[b].state = "Closed"
               /\ close_bridge(b, 1))

FairSpec == Spec /\ Fairness

-----------------------------------------------------------------------------
Bridge == [state : {"Opened", "Suspended", "Closed"}, lane_id : LaneIds, deposit : Deposits]

\* The type invariant of both pallets' storage and of the origin's account.
TypeOK ==
  /\ DOMAIN bridges \subseteq BridgeIds
  /\ \A b \in DOMAIN bridges : bridges[b] \in Bridge
  /\ DOMAIN lane_to_bridge \subseteq LaneIds
  /\ \A l \in DOMAIN lane_to_bridge : lane_to_bridge[l] \in BridgeIds
  /\ DOMAIN inbound \subseteq LaneIds
  /\ \A l \in DOMAIN inbound : inbound[l] \in LaneStates
  /\ DOMAIN outbound \subseteq LaneIds
  /\ \A l \in DOMAIN outbound : outbound[l] \in OutboundLaneData
  /\ messages \subseteq LaneIds \X Nat
  /\ free \in Nat
  /\ held \in Nat
  /\ congested \in BOOLEAN
  /\ told \in [BridgeIds -> {"suspend", "resume"}]
  /\ delivered \in [LaneIds -> Nat]

\* do_try_state of the pallet: bridges and lanes map to each other one to one,
\* and both lanes of a bridge exist exactly as long as the bridge does.
TryState ==
  /\ DOMAIN inbound = DOMAIN lane_to_bridge
  /\ DOMAIN outbound = DOMAIN lane_to_bridge
  /\ \A b \in DOMAIN bridges :
       /\ bridges[b].lane_id \in DOMAIN lane_to_bridge
       /\ lane_to_bridge[bridges[b].lane_id] = b
  /\ \A l \in DOMAIN lane_to_bridge :
       /\ lane_to_bridge[l] \in DOMAIN bridges
       /\ bridges[lane_to_bridge[l]].lane_id = l

\* "Closed bridge is a bridge without any traces in the runtime storage"
\* (close_bridge): no message outlives its lane or lies outside its queue, also
\* if confirmations came between the calls that pruned it.
NoTraces ==
  \A m \in messages :
     /\ m[1] \in DOMAIN outbound
     /\ m[2] \in queued_messages(outbound[m[1]])

\* BridgeState as documented: the lanes of an opened or suspended bridge are
\* opened, those of a closed one are closed, whatever confirmations arrive
\* while it is being closed.
StateMatchesLanes ==
  \A b \in DOMAIN bridges :
     LET expected == IF bridges[b].state = "Closed" THEN "Closed" ELSE "Opened"
     IN  /\ inbound[bridges[b].lane_id] = expected
         /\ outbound[bridges[b].lane_id].state = expected

\* The hub and the origin agree on suspension although signals fail: until it is
\* closed, a bridge is suspended exactly if the last signal that reached the
\* origin since it was opened said so.
SuspensionAgreed ==
  \A b \in DOMAIN bridges :
     bridges[b].state # "Closed" =>
       (bridges[b].state = "Suspended" <=> told[b] = "suspend")

\* The funds on hold are the deposits of the existing bridges: however the
\* required deposit changes, a closed bridge returns what it had taken.
DepositsHeld ==
  LET total[S \in SUBSET DOMAIN bridges] ==
        IF S = {} THEN 0
        ELSE LET b == CHOOSE x \in S : TRUE
             IN  bridges[b].deposit + total[S \ {b}]
  IN  /\ held = total[DOMAIN bridges]
      /\ free + held = Balance

\* If the origin can always be told, no more messages than the congestion limit
\* wait in an opened bridge, whatever it has been through: suspensions, resumes,
\* closing and opening again (on_bridge_message_enqueued).
CongestedIsSuspended ==
  \A b \in DOMAIN bridges :
     signal_results = {"Ok"} /\ bridges[b].state = "Opened" =>
       Cardinality(undelivered_messages(outbound[bridges[b].lane_id]))
         <= CongestedThreshold

\* A suspended bridge is resumed or closed in the end, if the origin can be
\* told and relayers keep confirming (on_bridge_messages_delivered).
SuspensionEnds ==
  \A b \in BridgeIds :
     (/\ signal_results = {"Ok"}
      /\ b \in DOMAIN bridges /\ bridges[b].state = "Suspended")
       ~> (b \in DOMAIN bridges => bridges[b].state # "Suspended")

\* A bridge that is being closed is gone in the end, although confirmations
\* move oldest_unpruned_nonce between the calls of close_bridge.
ClosingEnds ==
  \A b \in BridgeIds :
     (b \in DOMAIN bridges /\ bridges[b].state = "Closed") ~> b \notin DOMAIN bridges
=============================================================================
