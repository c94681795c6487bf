-------------------------- MODULE BridgeHubTheorems --------------------------
(***************************************************************************)
(* Proofs of the invariants of the bridge hub, for any set of bridges and  *)
(* lanes, any deposits, any congestion limits and any number of messages.  *)
(***************************************************************************)
EXTENDS BridgeHub, FiniteSetTheorems, TLAPS

\* The cursors of an outbound lane keep their order, although close_bridge moves
\* oldest_unpruned_nonce ahead of the confirmations and a later confirmation
\* moves it back.
CursorsOrdered ==
  \A l \in DOMAIN outbound :
     /\ outbound[l].latest_received_nonce < outbound[l].oldest_unpruned_nonce
     /\ outbound[l].oldest_unpruned_nonce <= outbound[l].latest_generated_nonce + 1

Inv ==
  /\ TypeOK
  /\ TryState
  /\ StateMatchesLanes
  /\ SuspensionAgreed
  /\ NoTraces
  /\ CursorsOrdered

\* The empty pallet satisfies the invariant.
LEMMA InitInv == Init => Inv
<1> SUFFICES ASSUME Init PROVE Inv
  OBVIOUS
<1>1. /\ DOMAIN bridges = {} /\ DOMAIN lane_to_bridge = {}
      /\ DOMAIN inbound = {} /\ DOMAIN outbound = {}
  BY DEF Init
<1> QED
  BY <1>1, HubAssumption
  DEF Init, Inv, TypeOK, TryState, StateMatchesLanes, SuspensionAgreed, NoTraces,
      CursorsOrdered

\* A new bridge has lanes of its own, opened and without messages (open_bridge).
LEMMA OpenInv ==
  ASSUME Inv, NEW b \in BridgeIds, NEW l \in LaneIds, open_bridge(b, l)
  PROVE  Inv'
<1>1. PICK deposit \in Deposits :
        /\ hold(deposit)
        /\ bridges' = insert(bridges, b,
             [state |-> "Opened", lane_id |-> l, deposit |-> deposit])
  BY DEF open_bridge
<1>2. /\ DOMAIN bridges' = DOMAIN bridges \cup {b}
      /\ bridges'[b] = [state |-> "Opened", lane_id |-> l, deposit |-> deposit]
      /\ \A x \in DOMAIN bridges : bridges'[x] = bridges[x]
  BY <1>1 DEF open_bridge, insert
<1>3. /\ DOMAIN lane_to_bridge' = DOMAIN lane_to_bridge \cup {l}
      /\ lane_to_bridge'[l] = b
      /\ \A x \in DOMAIN lane_to_bridge : lane_to_bridge'[x] = lane_to_bridge[x]
  BY DEF open_bridge, insert
<1>4. /\ DOMAIN inbound' = DOMAIN inbound \cup {l}
      /\ inbound'[l] = "Opened"
      /\ \A x \in DOMAIN inbound : inbound'[x] = inbound[x]
  BY DEF open_bridge, insert
<1>5. /\ DOMAIN outbound' = DOMAIN outbound \cup {l}
      /\ outbound'[l] = OpenedOutbound
      /\ \A x \in DOMAIN outbound : outbound'[x] = outbound[x]
  BY DEF open_bridge, insert
<1>6. OpenedOutbound \in OutboundLaneData
  BY DEF OpenedOutbound, OutboundLaneData, LaneStates
<1>7. TypeOK'
  <2>1. deposit \in Nat /\ free' \in Nat /\ held' \in Nat
    BY <1>1, HubAssumption DEF hold, Inv, TypeOK
  <2>2. bridges'[b] \in Bridge
    BY <1>2 DEF Bridge
  <2> QED
    BY <1>2, <1>3, <1>4, <1>5, <1>6, <2>1, <2>2
    DEF open_bridge, Inv, TypeOK, LaneStates
<1>8. TryState'
  BY <1>2, <1>3, <1>4, <1>5 DEF open_bridge, Inv, TypeOK, TryState
<1>9. StateMatchesLanes'
  BY <1>2, <1>3, <1>4, <1>5 DEF open_bridge, OpenedOutbound, Inv, TryState, StateMatchesLanes
<1>10. SuspensionAgreed'
  BY <1>2 DEF open_bridge, Inv, TypeOK, SuspensionAgreed
<1>11. NoTraces'
  BY <1>5 DEF open_bridge, Inv, NoTraces
<1>12. CursorsOrdered'
  BY <1>5 DEF OpenedOutbound, Inv, CursorsOrdered
<1> QED BY <1>7, <1>8, <1>9, <1>10, <1>11, <1>12 DEF Inv

\* Exporting a message extends the queue of an opened lane by that message and
\* may suspend the bridge, which is not closed, once the origin was told.
LEMMA ExportInv ==
  ASSUME Inv, NEW b \in DOMAIN bridges, export(b)
  PROVE  Inv'
<1> DEFINE l == bridges[b].lane_id
           data == send_message(outbound[l])
<1>1. /\ b \in BridgeIds /\ bridges[b] \in Bridge
      /\ l \in DOMAIN outbound /\ l \in LaneIds /\ outbound[l] \in OutboundLaneData
      /\ lane_to_bridge[l] = b
      /\ outbound[l].state = "Opened"
      /\ bridges[b].state # "Closed"
  BY DEF export, Inv, TypeOK, TryState, StateMatchesLanes
<1>2. /\ data \in OutboundLaneData
      /\ data.state = "Opened"
      /\ data.oldest_unpruned_nonce = outbound[l].oldest_unpruned_nonce
      /\ data.latest_received_nonce = outbound[l].latest_received_nonce
      /\ data.latest_generated_nonce = outbound[l].latest_generated_nonce + 1
  BY <1>1 DEF send_message, OutboundLaneData
<1>3. /\ DOMAIN outbound' = DOMAIN outbound
      /\ outbound'[l] = data
      /\ \A x \in DOMAIN outbound : x # l => outbound'[x] = outbound[x]
      /\ messages' = messages \cup {<< l, data.latest_generated_nonce >>}
  BY <1>1 DEF export
<1>4. /\ DOMAIN bridges' = DOMAIN bridges
      /\ \A x \in DOMAIN bridges : x # b => bridges'[x] = bridges[x] /\ told'[x] = told[x]
      /\ bridges'[b] \in Bridge
      /\ bridges'[b].lane_id = l
      /\ bridges'[b].state # "Closed"
      /\ bridges'[b].state = "Suspended" <=> told'[b] = "suspend"
      /\ told' \in [BridgeIds -> {"suspend", "resume"}]
  <2>1. bridges[b].state = "Suspended" <=> told[b] = "suspend"
    BY <1>1 DEF Inv, SuspensionAgreed
  <2>2. told \in [BridgeIds -> {"suspend", "resume"}] /\ DOMAIN bridges \subseteq BridgeIds
    BY DEF Inv, TypeOK
  <2>3. CASE UNCHANGED << bridges, told >>
    BY <1>1, <2>1, <2>2, <2>3
  <2>4. CASE \E result \in signal_results :
               /\ bridges' = [bridges EXCEPT ![b].state = suspended_state(bridges[b], result)]
               /\ told' = IF result = "Ok"
                          THEN [told EXCEPT ![b] = "suspend"] ELSE told
    <3>1. PICK result \in signal_results :
            /\ bridges' = [bridges EXCEPT ![b].state = suspended_state(bridges[b], result)]
            /\ told' = IF result = "Ok"
                       THEN [told EXCEPT ![b] = "suspend"] ELSE told
      BY <2>4
    <3>2. CASE result = "Ok"
      BY <1>1, <2>1, <2>2, <3>1, <3>2 DEF suspended_state, Bridge
    <3>3. CASE result # "Ok"
      BY <1>1, <2>1, <2>2, <3>1, <3>3 DEF suspended_state, Bridge
    <3> QED BY <3>2, <3>3
  <2> QED BY <2>3, <2>4 DEF export
<1>5. UNCHANGED << signal_results, lane_to_bridge, inbound, free, held, congested, delivered >>
  BY DEF export
<1> HIDE DEF l, data
<1>6. TypeOK'
  BY <1>1, <1>2, <1>3, <1>4, <1>5 DEF Inv, TypeOK, OutboundLaneData
<1>7. TryState'
  BY <1>1, <1>3, <1>4, <1>5 DEF Inv, TryState, l
<1>8. StateMatchesLanes'
  <2>1. \A x \in DOMAIN bridges : x # b => bridges[x].lane_id # l
    BY <1>1 DEF Inv, TryState
  <2>2. inbound[l] = "Opened"
    BY <1>1 DEF Inv, StateMatchesLanes, l
  <2> QED
    BY <1>1, <1>2, <1>3, <1>4, <1>5, <2>1, <2>2 DEF Inv, TryState, StateMatchesLanes
<1>9. SuspensionAgreed'
  BY <1>4 DEF Inv, SuspensionAgreed
<1>10. NoTraces'
  BY <1>1, <1>2, <1>3
  DEF Inv, TypeOK, NoTraces, CursorsOrdered, queued_messages, OutboundLaneData
<1>11. CursorsOrdered'
  BY <1>1, <1>2, <1>3 DEF Inv, CursorsOrdered, OutboundLaneData
<1> QED BY <1>6, <1>7, <1>8, <1>9, <1>10, <1>11 DEF Inv

\* confirm_delivery moves both cursors to what was delivered and nothing else.
LEMMA Confirming ==
  ASSUME NEW data \in OutboundLaneData, NEW d \in Nat
  PROVE  /\ confirm_delivery(data, d) \in OutboundLaneData
         /\ confirm_delivery(data, d).state = data.state
         /\ confirm_delivery(data, d).latest_generated_nonce = data.latest_generated_nonce
         /\ confirm_delivery(data, d).latest_received_nonce = d
         /\ confirm_delivery(data, d).oldest_unpruned_nonce = d + 1
<1>1. d + 1 \in Nat
  OBVIOUS
<1> QED BY <1>1 DEF confirm_delivery, OutboundLaneData

\* A confirmation moves both cursors of the lane, removes what it confirms and
\* may resume the bridge.  It may put oldest_unpruned_nonce back behind what
\* close_bridge pruned: no message is stored there any more.
LEMMA ConfirmInv ==
  ASSUME Inv, NEW l \in DOMAIN outbound, NEW d \in Nat, confirm(l, d)
  PROVE  Inv'
<1> DEFINE b == lane_to_bridge[l]
           confirmed == confirmed_messages(outbound[l], d)
           data == IF confirmed = {} THEN outbound[l]
                   ELSE confirm_delivery(outbound[l], d)
<1>1. /\ l \in LaneIds /\ outbound[l] \in OutboundLaneData
      /\ b \in DOMAIN bridges /\ b \in BridgeIds /\ bridges[b] \in Bridge
      /\ bridges[b].lane_id = l
      /\ outbound[l].latest_received_nonce < outbound[l].oldest_unpruned_nonce
      /\ outbound[l].oldest_unpruned_nonce <= outbound[l].latest_generated_nonce + 1
      /\ d <= outbound[l].latest_generated_nonce
  BY DEF confirm, Inv, TypeOK, TryState, CursorsOrdered
<1>2. /\ data \in OutboundLaneData
      /\ data.state = outbound[l].state
      /\ data.latest_generated_nonce = outbound[l].latest_generated_nonce
      /\ data.latest_received_nonce < data.oldest_unpruned_nonce
      /\ data.oldest_unpruned_nonce <= data.latest_generated_nonce + 1
      /\ \A n \in queued_messages(outbound[l]) \ confirmed : n \in queued_messages(data)
  <2>1. CASE confirmed = {}
    BY <1>1, <2>1
  <2>2. CASE confirmed # {}
    <3>1. data = confirm_delivery(outbound[l], d)
      BY <2>2
    <3>2. /\ data \in OutboundLaneData
          /\ data.state = outbound[l].state
          /\ data.latest_generated_nonce = outbound[l].latest_generated_nonce
          /\ data.latest_received_nonce = d
          /\ data.oldest_unpruned_nonce = d + 1
      <4> HIDE DEF data
      <4> QED BY <1>1, <3>1, Confirming
    <3> HIDE DEF data
    <3>3. \A n \in queued_messages(outbound[l]) \ confirmed : n \in queued_messages(data)
      BY <1>1, <3>2 DEF confirmed_messages, queued_messages, OutboundLaneData
    <3> QED BY <1>1, <3>2, <3>3 DEF OutboundLaneData
  <2> QED BY <2>1, <2>2
<1>3. /\ DOMAIN outbound' = DOMAIN outbound
      /\ outbound'[l] = data
      /\ \A x \in DOMAIN outbound : x # l => outbound'[x] = outbound[x]
      /\ messages' = messages \ ({l} \X confirmed)
  BY DEF confirm
<1>4. /\ DOMAIN bridges' = DOMAIN bridges
      /\ \A x \in DOMAIN bridges : x # b => bridges'[x] = bridges[x] /\ told'[x] = told[x]
      /\ bridges'[b] \in Bridge
      /\ bridges'[b].lane_id = l
      /\ bridges'[b].state = "Closed" <=> bridges[b].state = "Closed"
      /\ bridges'[b].state # "Closed" =>
           (bridges'[b].state = "Suspended" <=> told'[b] = "suspend")
      /\ told' \in [BridgeIds -> {"suspend", "resume"}]
  <2>1. bridges[b].state # "Closed" =>
          (bridges[b].state = "Suspended" <=> told[b] = "suspend")
    BY <1>1 DEF Inv, SuspensionAgreed
  <2>2. told \in [BridgeIds -> {"suspend", "resume"}] /\ DOMAIN bridges \subseteq BridgeIds
    BY DEF Inv, TypeOK
  <2>3. CASE UNCHANGED << bridges, told >>
    BY <1>1, <2>1, <2>2, <2>3
  <2>4. CASE /\ may_resume(bridges[b])
             /\ bridges' = [bridges EXCEPT ![b].state = "Opened"]
             /\ told' = [told EXCEPT ![b] = "resume"]
    BY <1>1, <2>1, <2>2, <2>4 DEF may_resume, Bridge
  <2> QED BY <2>3, <2>4 DEF confirm
<1>5. UNCHANGED << signal_results, lane_to_bridge, inbound, free, held, congested, delivered >>
  BY DEF confirm
<1> HIDE DEF b, data, confirmed
<1>6. TypeOK'
  BY <1>1, <1>2, <1>3, <1>4, <1>5 DEF Inv, TypeOK
<1>7. TryState'
  BY <1>1, <1>3, <1>4, <1>5 DEF Inv, TryState, b
<1>8. StateMatchesLanes'
  <2>1. \A x \in DOMAIN bridges : x # b => bridges[x].lane_id # l
    BY DEF Inv, TryState, b
  <2> QED
    BY <1>1, <1>2, <1>3, <1>4, <1>5, <2>1 DEF Inv, TryState, StateMatchesLanes
<1>9. SuspensionAgreed'
  BY <1>4 DEF Inv, SuspensionAgreed
<1>10. NoTraces'
  <2> SUFFICES ASSUME NEW m \in messages'
               PROVE  m[1] \in DOMAIN outbound' /\ m[2] \in queued_messages(outbound'[m[1]])
    BY DEF NoTraces
  <2>1. m \in messages /\ m \in LaneIds \X Nat /\ ~ (m[1] = l /\ m[2] \in confirmed)
    BY <1>3 DEF Inv, TypeOK
  <2>2. m[1] \in DOMAIN outbound /\ m[2] \in queued_messages(outbound[m[1]])
    BY <2>1 DEF Inv, NoTraces
  <2> QED BY <1>2, <1>3, <2>1, <2>2
<1>11. CursorsOrdered'
  BY <1>1, <1>2, <1>3 DEF Inv, CursorsOrdered
<1> QED BY <1>6, <1>7, <1>8, <1>9, <1>10, <1>11 DEF Inv

\* close_bridge takes count messages off the front of the queue.
LEMMA Pruning ==
  ASSUME NEW data \in OutboundLaneData,
         data.latest_received_nonce < data.oldest_unpruned_nonce,
         data.oldest_unpruned_nonce <= data.latest_generated_nonce + 1,
         NEW may_prune \in Nat
  PROVE  LET queued == Cardinality(queued_messages(data))
             count  == IF queued <= may_prune THEN queued ELSE may_prune
             pruned == prune_oldest(data, count)
         IN  /\ pruned \in OutboundLaneData
             /\ pruned.latest_received_nonce < pruned.oldest_unpruned_nonce
             /\ pruned.oldest_unpruned_nonce <= pruned.latest_generated_nonce + 1
             /\ \A n \in queued_messages(data) \ pruned_messages(data, count) :
                  n \in queued_messages(pruned)
<1> DEFINE queued == Cardinality(queued_messages(data))
           count  == IF queued <= may_prune THEN queued ELSE may_prune
           pruned == prune_oldest(data, count)
<1>1. /\ data.oldest_unpruned_nonce \in Nat
      /\ data.latest_received_nonce \in Nat
      /\ data.latest_generated_nonce \in Nat
  BY DEF OutboundLaneData
<1>2. queued = data.latest_generated_nonce + 1 - data.oldest_unpruned_nonce
  <2>1. Cardinality(queued_messages(data)) =
          IF data.oldest_unpruned_nonce > data.latest_generated_nonce THEN 0
          ELSE data.latest_generated_nonce - data.oldest_unpruned_nonce + 1
    <3>1. data.oldest_unpruned_nonce \in Int /\ data.latest_generated_nonce \in Int
      BY <1>1
    <3> QED BY <3>1, FS_Interval DEF queued_messages
  <2> QED BY <1>1, <2>1
<1> HIDE DEF queued
<1>3. /\ count \in Nat
      /\ data.oldest_unpruned_nonce + count <= data.latest_generated_nonce + 1
  BY <1>1, <1>2
<1> HIDE DEF count
<1>4. /\ pruned \in OutboundLaneData
      /\ pruned.oldest_unpruned_nonce = data.oldest_unpruned_nonce + count
      /\ pruned.latest_received_nonce = data.latest_received_nonce
      /\ pruned.latest_generated_nonce = data.latest_generated_nonce
  BY <1>1, <1>3 DEF prune_oldest, OutboundLaneData
<1> HIDE DEF pruned
<1>5. \A n \in queued_messages(data) \ pruned_messages(data, count) :
        n \in queued_messages(pruned)
  BY <1>1, <1>3, <1>4 DEF queued_messages, pruned_messages
<1>6. /\ pruned.latest_received_nonce < pruned.oldest_unpruned_nonce
      /\ pruned.oldest_unpruned_nonce <= pruned.latest_generated_nonce + 1
  BY <1>1, <1>3, <1>4
<1> QED BY <1>4, <1>5, <1>6 DEF pruned, count, queued

\* A call of close_bridge either leaves both lanes and the bridge closed, or
\* removes all of them, together with the last message of the queue.
LEMMA CloseInv ==
  ASSUME Inv, NEW b \in DOMAIN bridges, NEW may_prune \in Nat, close_bridge(b, may_prune)
  PROVE  Inv'
<1> DEFINE l == bridges[b].lane_id
           queued == Cardinality(queued_messages(outbound[l]))
           count == IF queued <= may_prune THEN queued ELSE may_prune
           data == prune_oldest(outbound[l], count)
<1>1. /\ b \in BridgeIds /\ bridges[b] \in Bridge
      /\ l \in LaneIds /\ l \in DOMAIN outbound /\ l \in DOMAIN inbound
      /\ l \in DOMAIN lane_to_bridge /\ outbound[l] \in OutboundLaneData
      /\ lane_to_bridge[l] = b
      /\ outbound[l].latest_received_nonce < outbound[l].oldest_unpruned_nonce
      /\ outbound[l].oldest_unpruned_nonce <= outbound[l].latest_generated_nonce + 1
  BY DEF Inv, TypeOK, TryState, CursorsOrdered
<1>2. /\ data \in OutboundLaneData
      /\ data.latest_received_nonce < data.oldest_unpruned_nonce
      /\ data.oldest_unpruned_nonce <= data.latest_generated_nonce + 1
      /\ \A n \in queued_messages(outbound[l]) \ pruned_messages(outbound[l], count) :
           n \in queued_messages(data)
  BY <1>1, Pruning
<1>3. /\ messages' = messages \ ({l} \X pruned_messages(outbound[l], count))
      /\ UNCHANGED << signal_results, congested, told, delivered >>
  BY DEF close_bridge
<1>4. \A m \in messages' :
        /\ m \in LaneIds \X Nat
        /\ m[1] \in DOMAIN outbound
        /\ m[2] \in queued_messages(outbound[m[1]])
        /\ m[1] = l => m[2] \in queued_messages(data)
  <2> HIDE DEF l, count, data
  <2> SUFFICES ASSUME NEW m \in messages'
               PROVE  /\ m \in LaneIds \X Nat
                      /\ m[1] \in DOMAIN outbound
                      /\ m[2] \in queued_messages(outbound[m[1]])
                      /\ m[1] = l => m[2] \in queued_messages(data)
    OBVIOUS
  <2>1. /\ m \in messages /\ m \in LaneIds \X Nat
        /\ ~ (m[1] = l /\ m[2] \in pruned_messages(outbound[l], count))
    BY <1>3 DEF Inv, TypeOK
  <2>2. m[1] \in DOMAIN outbound /\ m[2] \in queued_messages(outbound[m[1]])
    BY <2>1 DEF Inv, NoTraces
  <2> QED BY <1>2, <2>1, <2>2
<1>5. CASE is_pruned(data)
  <2>1. /\ inbound' = remove(inbound, l)
        /\ outbound' = remove(outbound, l)
        /\ bridges' = remove(bridges, b)
        /\ lane_to_bridge' = remove(lane_to_bridge, l)
        /\ held' = held - released(bridges[b])
        /\ free' = free + released(bridges[b])
    BY <1>5 DEF close_bridge, unmapped
  <2> HIDE DEF l, count, data
  <2>2. /\ DOMAIN bridges' = DOMAIN bridges \ {b}
        /\ \A x \in DOMAIN bridges' : bridges'[x] = bridges[x]
        /\ DOMAIN inbound' = DOMAIN inbound \ {l}
        /\ \A x \in DOMAIN inbound' : inbound'[x] = inbound[x]
        /\ DOMAIN outbound' = DOMAIN outbound \ {l}
        /\ \A x \in DOMAIN outbound' : outbound'[x] = outbound[x]
        /\ DOMAIN lane_to_bridge' = DOMAIN lane_to_bridge \ {l}
        /\ \A x \in DOMAIN lane_to_bridge' : lane_to_bridge'[x] = lane_to_bridge[x]
    BY <2>1 DEF remove
  <2>3. \A x \in DOMAIN bridges : x # b => bridges[x].lane_id # l
    BY <1>1 DEF Inv, TryState
  <2>4. held' \in Nat /\ free' \in Nat
    <3>1. bridges[b].deposit \in Nat /\ held \in Nat /\ free \in Nat
      BY <1>1, HubAssumption DEF Bridge, Inv, TypeOK
    <3>2. released(bridges[b]) \in Nat /\ released(bridges[b]) <= held
      BY <3>1 DEF released
    <3> QED BY <2>1, <3>1, <3>2
  <2>5. TypeOK'
    <3>1. messages' \subseteq LaneIds \X Nat
      BY <1>4
    <3> QED BY <1>3, <2>2, <2>4, <3>1 DEF Inv, TypeOK
  <2>6. TryState'
    BY <1>1, <2>2, <2>3 DEF Inv, TryState, l
  <2>7. StateMatchesLanes'
    BY <2>2, <2>3 DEF Inv, TryState, StateMatchesLanes
  <2>8. SuspensionAgreed'
    BY <1>3, <2>2 DEF Inv, SuspensionAgreed
  <2>9. NoTraces'
    BY <1>4, <1>5, <2>2 DEF NoTraces, is_pruned
  <2>10. CursorsOrdered'
    BY <2>2 DEF Inv, CursorsOrdered
  <2> QED BY <2>5, <2>6, <2>7, <2>8, <2>9, <2>10 DEF Inv
<1>6. CASE ~ is_pruned(data)
  <2>1. /\ inbound' = [inbound EXCEPT ![l] = "Closed"]
        /\ outbound' = [outbound EXCEPT ![l] = [data EXCEPT !.state = "Closed"]]
        /\ bridges' = [bridges EXCEPT ![b].state = "Closed"]
        /\ UNCHANGED << lane_to_bridge, held, free >>
    BY <1>6 DEF close_bridge
  <2> HIDE DEF l, count, data
  <2>2. /\ [data EXCEPT !.state = "Closed"] \in OutboundLaneData
        /\ [data EXCEPT !.state = "Closed"].state = "Closed"
        /\ [data EXCEPT !.state = "Closed"].oldest_unpruned_nonce = data.oldest_unpruned_nonce
        /\ [data EXCEPT !.state = "Closed"].latest_received_nonce = data.latest_received_nonce
        /\ [data EXCEPT !.state = "Closed"].latest_generated_nonce = data.latest_generated_nonce
    BY <1>2 DEF OutboundLaneData, LaneStates
  <2>3. /\ DOMAIN outbound' = DOMAIN outbound
        /\ outbound'[l] = [data EXCEPT !.state = "Closed"]
        /\ \A x \in DOMAIN outbound : x # l => outbound'[x] = outbound[x]
        /\ DOMAIN inbound' = DOMAIN inbound
        /\ inbound'[l] = "Closed"
        /\ \A x \in DOMAIN inbound : x # l => inbound'[x] = inbound[x]
    BY <1>1, <2>1
  <2>4. /\ DOMAIN bridges' = DOMAIN bridges
        /\ \A x \in DOMAIN bridges : x # b => bridges'[x] = bridges[x]
        /\ bridges'[b] \in Bridge
        /\ bridges'[b].lane_id = l
        /\ bridges'[b].state = "Closed"
    BY <1>1, <2>1 DEF Bridge, l
  <2>5. \A x \in DOMAIN bridges : x # b => bridges[x].lane_id # l
    BY <1>1 DEF Inv, TryState
  <2>6. TypeOK'
    <3>1. messages' \subseteq LaneIds \X Nat
      BY <1>4
    <3> QED BY <1>1, <1>3, <2>1, <2>2, <2>3, <2>4, <3>1 DEF Inv, TypeOK, LaneStates
  <2>7. TryState'
    BY <1>1, <2>1, <2>3, <2>4, <2>5 DEF Inv, TryState, l
  <2>8. StateMatchesLanes'
    <3> SUFFICES ASSUME NEW x \in DOMAIN bridges'
                 PROVE  LET expected == IF bridges'[x].state = "Closed" THEN "Closed" ELSE "Opened"
                        IN  /\ inbound'[bridges'[x].lane_id] = expected
                            /\ outbound'[bridges'[x].lane_id].state = expected
      BY DEF StateMatchesLanes
    <3>1. CASE x = b
      BY <2>2, <2>3, <2>4, <3>1
    <3>2. CASE x # b
      BY <2>3, <2>4, <2>5, <3>2 DEF Inv, TryState, StateMatchesLanes
    <3> QED BY <3>1, <3>2
  <2>9. SuspensionAgreed'
    BY <1>3, <2>4 DEF Inv, SuspensionAgreed
  <2>10. NoTraces'
    BY <1>4, <2>2, <2>3 DEF NoTraces, queued_messages
  <2>11. CursorsOrdered'
    BY <1>2, <2>2, <2>3 DEF Inv, CursorsOrdered
  <2> QED BY <2>6, <2>7, <2>8, <2>9, <2>10, <2>11 DEF Inv
<1> QED BY <1>5, <1>6

\* No step of the pallets, of the relayers or of the channel with the origin
\* breaks the invariant.
LEMMA NextInv ==
  ASSUME Inv, [Next]_vars
  PROVE  Inv'
<1>1. CASE \E b \in BridgeIds, l \in LaneIds : open_bridge(b, l)
  BY <1>1, OpenInv
<1>2. CASE \E b \in DOMAIN bridges : export(b)
  BY <1>2, ExportInv
<1>3. CASE \E b \in DOMAIN bridges : Close(b)
  <2>1. PICK b \in DOMAIN bridges, may_prune \in 0 .. MaxGenerated : close_bridge(b, may_prune)
    BY <1>3 DEF Close
  <2>2. may_prune \in Nat
    BY <2>1, HubAssumption
  <2> QED BY <2>1, <2>2, CloseInv
<1>4. CASE \E l \in DOMAIN outbound : Confirm(l)
  <2>1. PICK l \in DOMAIN outbound : Confirm(l)
    BY <1>4
  <2>2. PICK d \in 0 .. delivered[l] : confirm(l, d)
    BY <2>1 DEF Confirm
  <2>3. d \in Nat
    BY <2>2 DEF Inv, TypeOK
  <2> QED BY <2>2, <2>3, ConfirmInv
<1>5. CASE \E l \in DOMAIN outbound : RemoteDeliver(l)
  <2>1. PICK l \in DOMAIN outbound : RemoteDeliver(l)
    BY <1>5
  <2>2. delivered' \in [LaneIds -> Nat]
    BY <2>1 DEF RemoteDeliver, Inv, TypeOK
  <2> QED
    BY <2>1, <2>2 DEF RemoteDeliver, Inv, TypeOK, TryState, StateMatchesLanes,
       SuspensionAgreed, NoTraces, CursorsOrdered
<1>6. CASE Congestion
  BY <1>6 DEF Congestion, Inv, TypeOK, TryState, StateMatchesLanes, SuspensionAgreed,
     NoTraces, CursorsOrdered
<1>7. CASE UNCHANGED vars
  BY <1>7 DEF vars, Inv, TypeOK, TryState, StateMatchesLanes, SuspensionAgreed, NoTraces,
     CursorsOrdered
<1> QED BY <1>1, <1>2, <1>3, <1>4, <1>5, <1>6, <1>7 DEF Next

\* The inductive invariant of the bridge hub.
THEOREM HubInvariant == Spec => []Inv
<1> QED BY InitInv, NextInv, PTL DEF Spec

\* The consistency check of the pallet, do_try_state, never fails: bridges and
\* lanes map to each other one to one and live equally long.
THEOREM TryStateHolds == Spec => []TryState
<1>1. Inv => TryState
  BY DEF Inv
<1> QED BY HubInvariant, <1>1, PTL

\* close_bridge leaves nothing behind: every stored message lies in the queue of
\* an existing lane, also if confirmations came between the calls that prune.
THEOREM NoTracesHolds == Spec => []NoTraces
<1>1. Inv => NoTraces
  BY DEF Inv
<1> QED BY HubInvariant, <1>1, PTL

\* The state of a bridge tells the state of both of its lanes.
THEOREM StateMatchesLanesHolds == Spec => []StateMatchesLanes
<1>1. Inv => StateMatchesLanes
  BY DEF Inv
<1> QED BY HubInvariant, <1>1, PTL

\* The hub never holds a bridge for suspended, or for resumed, without having
\* told the origin so, whichever signals fail.
THEOREM SuspensionAgreedHolds == Spec => []SuspensionAgreed
<1>1. Inv => SuspensionAgreed
  BY DEF Inv
<1> QED BY HubInvariant, <1>1, PTL

-----------------------------------------------------------------------------
\* How many messages of a lane wait for a confirmation.
LEMMA Undelivered ==
  ASSUME NEW data \in OutboundLaneData
  PROVE  Cardinality(undelivered_messages(data)) =
           IF data.latest_received_nonce < data.latest_generated_nonce
           THEN data.latest_generated_nonce - data.latest_received_nonce
           ELSE 0
<1>1. data.latest_received_nonce \in Nat /\ data.latest_generated_nonce \in Nat
  BY DEF OutboundLaneData
<1>2. Cardinality((data.latest_received_nonce + 1) .. data.latest_generated_nonce) =
        IF data.latest_received_nonce + 1 > data.latest_generated_nonce THEN 0
        ELSE data.latest_generated_nonce - (data.latest_received_nonce + 1) + 1
  <2>1. data.latest_received_nonce + 1 \in Int /\ data.latest_generated_nonce \in Int
    BY <1>1
  <2> QED BY <2>1, FS_Interval
<1> QED BY <1>1, <1>2 DEF undelivered_messages

\* A message that finds the lane congested suspends the bridge.
LEMMA ExportCongested ==
  ASSUME Inv, CongestedIsSuspended, NEW b \in DOMAIN bridges, export(b)
  PROVE  CongestedIsSuspended'
<1> DEFINE l == bridges[b].lane_id
           data == send_message(outbound[l])
<1> SUFFICES ASSUME NEW x \in DOMAIN bridges', signal_results' = {"Ok"},
                    bridges'[x].state = "Opened"
             PROVE  Cardinality(undelivered_messages(outbound'[bridges'[x].lane_id]))
                      <= CongestedThreshold
  BY DEF CongestedIsSuspended
<1>1. /\ l \in DOMAIN outbound /\ outbound[l] \in OutboundLaneData
      /\ \A y \in DOMAIN bridges : y # b => bridges[y].lane_id # l
      /\ \A y \in DOMAIN bridges : bridges[y] \in Bridge
      /\ \A y \in DOMAIN bridges : bridges[y].lane_id \in DOMAIN outbound
  BY DEF export, Inv, TypeOK, TryState
<1>2. /\ outbound' = [outbound EXCEPT ![l] = data]
      /\ signal_results' = signal_results
  BY DEF export
<1>3. DOMAIN bridges' = DOMAIN bridges
  BY DEF export
<1>4. CASE x # b
  <2>1. bridges'[x] = bridges[x] BY <1>3, <1>4 DEF export
  <2>2. outbound'[bridges[x].lane_id] = outbound[bridges[x].lane_id]
    BY <1>1, <1>2, <1>3, <1>4
  <2> QED BY <1>2, <1>3, <2>1, <2>2 DEF CongestedIsSuspended
<1>5. CASE x = b
  <2>1. outbound'[l] = data BY <1>1, <1>2
  <2>2. CASE UNCHANGED << bridges, told >> /\ ~ is_congested(Cardinality(undelivered_messages(data)))
    <3>1. data \in OutboundLaneData BY <1>1 DEF send_message, OutboundLaneData
    <3> HIDE DEF data
    <3>2. Cardinality(undelivered_messages(data)) \in Nat
      BY <3>1, Undelivered DEF OutboundLaneData
    <3> QED BY <1>5, <2>1, <2>2, <3>2, HubAssumption DEF is_congested
  <2>3. CASE bridges[b].state = "Suspended" /\ UNCHANGED << bridges, told >>
    BY <1>5, <2>3
  <2>4. CASE \E result \in signal_results :
               bridges' = [bridges EXCEPT ![b].state = suspended_state(bridges[b], result)]
    <3>1. bridges' = [bridges EXCEPT ![b].state = "Suspended"]
      BY <1>2, <2>4 DEF suspended_state
    <3> QED BY <1>1, <1>5, <3>1 DEF Bridge
  <2> QED BY <2>2, <2>3, <2>4 DEF export
<1> QED BY <1>4, <1>5

\* A confirmation shortens the queue, and resumes only a bridge whose queue has
\* drained.
LEMMA ConfirmCongested ==
  ASSUME UncongestedThreshold <= CongestedThreshold,
         Inv, CongestedIsSuspended, NEW l \in DOMAIN outbound, NEW d \in Nat, confirm(l, d)
  PROVE  CongestedIsSuspended'
<1> DEFINE b == lane_to_bridge[l]
           confirmed == confirmed_messages(outbound[l], d)
           data == IF confirmed = {} THEN outbound[l]
                   ELSE confirm_delivery(outbound[l], d)
<1> SUFFICES ASSUME NEW x \in DOMAIN bridges', signal_results' = {"Ok"},
                    bridges'[x].state = "Opened"
             PROVE  Cardinality(undelivered_messages(outbound'[bridges'[x].lane_id]))
                      <= CongestedThreshold
  BY DEF CongestedIsSuspended
<1>1. /\ outbound[l] \in OutboundLaneData
      /\ b \in DOMAIN bridges /\ bridges[b].lane_id = l
      /\ \A y \in DOMAIN bridges : y # b => bridges[y].lane_id # l
      /\ \A y \in DOMAIN bridges : bridges[y] \in Bridge
      /\ \A y \in DOMAIN bridges : bridges[y].lane_id \in DOMAIN outbound
  BY DEF confirm, Inv, TypeOK, TryState
<1>2. /\ outbound' = [outbound EXCEPT ![l] = data]
      /\ signal_results' = signal_results
      /\ d <= outbound[l].latest_generated_nonce
  BY DEF confirm
<1>3. DOMAIN bridges' = DOMAIN bridges
  BY DEF confirm
<1>4. /\ Cardinality(undelivered_messages(data)) \in Nat
      /\ Cardinality(undelivered_messages(outbound[l])) \in Nat
      /\ Cardinality(undelivered_messages(data))
           <= Cardinality(undelivered_messages(outbound[l]))
  <2>1. Cardinality(undelivered_messages(outbound[l])) \in Nat
    BY <1>1, Undelivered DEF OutboundLaneData
  <2>2. CASE confirmed = {} BY <2>1, <2>2
  <2>3. CASE confirmed # {}
    <3> DEFINE new == confirm_delivery(outbound[l], d)
    <3>1. /\ new \in OutboundLaneData /\ new.latest_received_nonce = d
          /\ new.latest_generated_nonce = outbound[l].latest_generated_nonce
      BY <1>1, Confirming
    <3>2. outbound[l].latest_received_nonce < d
      BY <1>1, <2>3 DEF confirmed_messages, OutboundLaneData
    <3> HIDE DEF new
    <3>3. /\ Cardinality(undelivered_messages(new)) \in Nat
          /\ Cardinality(undelivered_messages(new))
               <= Cardinality(undelivered_messages(outbound[l]))
      BY <1>1, <3>1, <3>2, Undelivered DEF OutboundLaneData
    <3> QED BY <2>1, <2>3, <3>3 DEF new
  <2> QED BY <2>2, <2>3
<1>5. outbound'[l] = data BY <1>2
<1>6. CASE x # b
  <2>1. bridges'[x] = bridges[x] BY <1>3, <1>6 DEF confirm
  <2>2. outbound'[bridges[x].lane_id] = outbound[bridges[x].lane_id]
    BY <1>1, <1>2, <1>3, <1>6
  <2> QED BY <1>2, <1>3, <2>1, <2>2 DEF CongestedIsSuspended
<1>7. CASE x = b
  <2>1. CASE UNCHANGED bridges
    <3>1. Cardinality(undelivered_messages(outbound[l])) <= CongestedThreshold
      BY <1>1, <1>2, <1>7, <2>1 DEF CongestedIsSuspended
    <3>2. bridges'[x].lane_id = l BY <1>1, <1>7, <2>1
    <3> HIDE DEF data
    <3> QED BY <1>4, <1>5, <3>1, <3>2, HubAssumption
  <2>2. CASE /\ is_uncongested(Cardinality(undelivered_messages(data)))
             /\ bridges' = [bridges EXCEPT ![b].state = "Opened"]
    <3>1. bridges'[x].lane_id = l BY <1>1, <1>7, <2>2 DEF Bridge
    <3> HIDE DEF data
    <3> QED BY <1>4, <1>5, <2>2, <3>1, HubAssumption DEF is_uncongested
  <2> QED BY <2>1, <2>2 DEF confirm
<1> QED BY <1>6, <1>7

\* As long as the origin can be told, an opened bridge never has more messages
\* waiting than the congestion limit, if the resume limit is not above it.
THEOREM CongestedIsSuspendedHolds ==
  ASSUME UncongestedThreshold <= CongestedThreshold
  PROVE  Spec => []CongestedIsSuspended
<1>1. Init => CongestedIsSuspended
  <2>1. Init => DOMAIN bridges = {} BY DEF Init
  <2> QED BY <2>1 DEF CongestedIsSuspended
<1>2. Inv /\ CongestedIsSuspended /\ [Next]_vars => CongestedIsSuspended'
  <2> SUFFICES ASSUME Inv, CongestedIsSuspended, [Next]_vars
               PROVE  CongestedIsSuspended'
    OBVIOUS
  <2>1. ASSUME NEW b \in BridgeIds, NEW l \in LaneIds, open_bridge(b, l)
        PROVE  CongestedIsSuspended'
    <3>1. /\ DOMAIN bridges' = DOMAIN bridges \cup {b}
          /\ bridges'[b].lane_id = l
          /\ \A x \in DOMAIN bridges : bridges'[x] = bridges[x]
          /\ outbound'[l] = OpenedOutbound
          /\ \A x \in DOMAIN outbound : outbound'[x] = outbound[x]
          /\ signal_results' = signal_results
      BY <2>1 DEF open_bridge, insert
    <3>2. \A x \in DOMAIN bridges : bridges[x].lane_id \in DOMAIN outbound
      BY DEF Inv, TryState
    <3>3. OpenedOutbound \in OutboundLaneData
      BY DEF OpenedOutbound, OutboundLaneData, LaneStates
    <3>4. Cardinality(undelivered_messages(OpenedOutbound)) = 0
      BY <3>3, Undelivered DEF OpenedOutbound
    <3>5. 0 <= CongestedThreshold BY HubAssumption
    <3> QED BY <3>1, <3>2, <3>4, <3>5 DEF CongestedIsSuspended
  <2>2. CASE \E b \in DOMAIN bridges : export(b) BY <2>2, ExportCongested
  <2>3. ASSUME NEW b \in DOMAIN bridges, NEW may_prune, close_bridge(b, may_prune)
        PROVE  CongestedIsSuspended'
    <3> DEFINE l == bridges[b].lane_id
    <3>1. /\ \A x \in DOMAIN bridges : x # b => bridges[x].lane_id # l
          /\ \A x \in DOMAIN bridges : bridges[x].lane_id \in DOMAIN outbound
          /\ bridges[b] \in Bridge
      BY DEF Inv, TryState, TypeOK
    <3>2. /\ DOMAIN bridges' \subseteq DOMAIN bridges
          /\ \A x \in DOMAIN bridges' : x # b => bridges'[x] = bridges[x]
          /\ \A x \in DOMAIN outbound : x # l => outbound'[x] = outbound[x]
          /\ b \in DOMAIN bridges' => bridges'[b].state = "Closed"
          /\ signal_results' = signal_results
      BY <2>3, <3>1 DEF close_bridge, remove, Bridge
    <3> QED BY <3>1, <3>2 DEF CongestedIsSuspended
  <2>4. CASE \E l \in DOMAIN outbound : Confirm(l)
    <3>1. PICK l \in DOMAIN outbound : Confirm(l) BY <2>4
    <3>2. PICK d \in 0 .. delivered[l] : confirm(l, d) BY <3>1 DEF Confirm
    <3>3. d \in Nat BY <3>2 DEF Inv, TypeOK
    <3> QED BY <3>2, <3>3, ConfirmCongested
  <2>5. CASE \E l \in DOMAIN outbound : RemoteDeliver(l)
    BY <2>5 DEF RemoteDeliver, CongestedIsSuspended
  <2>6. CASE Congestion BY <2>6 DEF Congestion, CongestedIsSuspended
  <2>7. CASE UNCHANGED vars BY <2>7 DEF vars, CongestedIsSuspended
  <2> QED BY <2>1, <2>2, <2>3, <2>4, <2>5, <2>6, <2>7 DEF Next, Close
<1> QED BY <1>1, <1>2, HubInvariant, PTL DEF Spec
=============================================================================
